# A TLA+ model of quish

quish is a remote shell over HTTP/3: a client that opens exec, shell, copy and
forwarding channels on QUIC streams, and a server that can run as two processes, a
privileged *monitor* (authentication, sessions, host key) and an unprivileged *worker*
(network, pumps). This directory models the parts where processes, tasks and messages
interact, checks them with TLC on small instances, and proves the central invariants
with TLAPS for every instance.

## 1. The system

| Part | Source | State it keeps | Operations | Module |
|---|---|---|---|---|
| Registry and backends | `quish-auth/src/*.rs` | none (configuration) | parse a header, dispatch, PAM, key token, JWT, TOTP round two, user policy | `Registry` |
| Monitor | `quish-server/src/monitor.rs`, `ipc.rs` | identity per connection, parked challenges, sessions, connection index, PAM guards, next id | Authenticate, Spawn\*, Signal, Reap, Close over one socket | `Monitor` |
| Rate limiter | `ratelimit.rs` | per IP: live connections, failures, last seen | admit (with sweep), failure, success, guard drop, backoff | `RateLimiter` |
| Transport | `transport.rs` | connections, failures per connection, request tasks | accept, request gate, backoff, authenticate under a deadline, serve, close | `Transport` |
| Worker | `worker.rs` | one locked socket to the monitor; channel tasks | call = lock, send, receive, unlock; spawn, pump, reap | `PrivsepServer` |
| Exec and shell channels | `quish-client/src/terminal.rs`, `session.rs`, `worker.rs` | queues between client, pump and process | both pumps, signals, end of input, exit status | `Channel` |
| Signing proxy | `signproxy.rs`, `monitor.rs` | job queue, socket, token bucket | sign, answer, time out, break | `Signing` |
| Remote forwarding | `session.rs`, `quish-client/src/main.rs` | parking table with timers; control and data tasks of the client | listen, park, signal, hear, dial, claim, evict | `RemoteForward` |
| Downloads | `quish-client/src/cp.rs`, `worker.rs`, `session.rs`, `privdrop.rs` | part file, destination, helper, stream | receive, rename, remove, read, reap | `Download` |
| Uploads | same | stream, helper, remote file; for a tree the walk and the remote nodes | send, write, reap, status; walk, mkdir, run again | `Upload`, `UploadTree`, `TreeCopy` |
| Local forwarding | `session.rs`, `quish-client/src/main.rs` | two sockets, two queues, two frame buffers | bridge, pump, reader and `up` task, refuse, half-close | `Forward` |
| Wire framing | `quish-proto/src/lib.rs` | the readers' buffers | `encode`, `parse_len`, `take_frame` | `Framing` |
| Host identity files | `monitor.rs` | key and certificate on disk | load, generate, write both | `HostIdentity` |
| Client connect, known_hosts, challenge rounds | `quish-client/src/connect.rs`, `main.rs` | known_hosts, its temporary file, a login's progress | verify, prompt, pin, remove, answer challenges | `KnownHosts`, `Login` |
| Privilege drop, seccomp | `privdrop.rs` | none | system calls | left to the kernel |
| Command line, configuration | `main.rs`, `config.rs` | none | | no protocol |

How they meet. A connection passes the limiter and gets a task; each request stream
gets a detached task of its own. Every task, and the close of every connection, calls
the monitor through ONE socket behind ONE FIFO mutex, so replies are matched to requests
by position alone. The monitor handles one request at a time and forks the processes;
the worker pumps bytes between a stream and the process's pipes, and reaps at the end.
TLS handshakes go to a second socket, where the monitor signs under a token bucket.

What is hard to test, in short (the complete list with lines is under `hazards` in
`PROJECT.json`): a deadline that cancels a call between its send and its reply; a request
that outlives its connection; a gate that is checked before an await and counted after
it; a sweep racing late events; full queues in both directions; an exit status racing
the last output; a parked socket claimed while its timer fires; a copy killed between
its writes and its rename; a tree upload run again while the helper of the first run is
alive; a frame cut in its length prefix; a half-closed forward; a server that crashes
while it writes its identity; two clients that edit known_hosts.

## 2. Modules and how they correspond to the code

Every definition that models code is tied to its lines by `map` in `PROJECT.json`. In
all modules one action is one handler, or the part of one between two awaits; what the
code does under one lock or without an await is one step.

* `Registry`: pure operators with the source's names (`verdict`, `dispatch`, `permits`,
  `totp_complete` ...). A credential is a record of what a backend would find it proves
  (the user, or nobody; for a key token also the connection it is bound to). Cryptography,
  clocks and the PAM conversation are abstracted to that.
* `Monitor` (extends `Registry`): the monitor's tables, the helper processes, and the two
  directions of the control socket. The worker is *arbitrary*: it may send any request
  of the protocol about any connection and session, malformed ones too, and may die.
  Auxiliary variables record which factors were shown for whom on which connection
  (`proven`: a password, a code, or a credential that is the whole proof), guesses per
  challenge, and which requests were granted.
* `RateLimiter`: one action per method; time is the set of IPs whose entry is older than
  `ENTRY_TTL`. Its own specification is `LimiterSpec`.
* `Transport` (extends `RateLimiter`): connections and request tasks; the backend's answer
  is open.
* `PrivsepServer` (instantiates `Monitor` and `Transport` on shared variables): the worker.
  A call is Lock, Send and Receive with anything in between; `Deadline` drops an
  authentication wherever it is. `RefinesMonitor` and `RefinesTransport` say that the
  composition implements both parts, so what is proved of the monitor against an
  arbitrary worker holds of the server.
* `Channel`: `run_channel`, `pump_exec`/`pump_shell` and a process that filters its input;
  interrupts, an early exit, a killed client, a local output that cannot be written and a
  lost connection may come at any point. What the other end still gets of a torn stream is
  any prefix of it; the pump then reads None, as at a clean end, and ends the process's
  input. A run of passive movers (stream window, frame-reader queue, pipe) is one bounded
  queue.
* `Signing`: handshakes, the signing thread, the socket, `SignThrottle` with its
  whole-interval arithmetic.
* `RemoteForward`: `park_conn`, `take_conn`, the eviction timer and the listen loop; the
  client's task per control channel and per signal. A client runs any number of `-R`
  forwards over its connection and may die at any point; a *rogue* client may name any
  conn_ref.
* `Framing`: `encode`, `parse_len` and `take_frame` (as `HasFrame`, `TooLarge`,
  `frame_body`, `frame_rest`) over sequences of bytes. The prefix has two digits to a base
  instead of four bytes: it can still arrive in pieces and still exceed the cap.
* `Forward` (extends `Framing`): one forwarded connection from the application on the
  client's side to the service: the two tasks of `bridge`, the frame reader, the `up` task
  and the select loop of `pump_forward`. The stream is a sequence of bytes; `recv_data`
  returns any chunk of it. Either program half-closes, closes or resets when it likes.
* `Download`, `Upload`: both ends of a copy; the server is privilege-separated or a dev
  server, chosen in the initial state. Chunks keep their order, so a stage is a count; a
  local file is the set of chunks written to it, because two processes may write it.
* `UploadTree` (extends `Upload`): `collect_walk` as a recursive function over the places
  of the source tree (a directory and how many of its entries were visited), then
  `upload_tree` with one MkDir channel per directory and one run of `Upload` per file. A
  failed or killed run is started again, and the helper that run `r` left behind goes on
  as `stale[r]`. `ReadOnly` are the nodes whose mode, which the client sends along, keeps
  the user from writing to them once they are there (`Blocked`).
* `TreeCopy`: what a tree upload promises, with no channels and no helpers in it: parents
  first, nothing vanishes, success for a whole tree only. `UploadTree` implements it
  under the mapping of `RefinesTreeCopy`.
* `HostIdentity`: `host_identity` split at its system calls; a file is absent, torn, or
  half of a numbered pair. `Crash` may come between any two.
* `KnownHosts`: the file as a sequence of lines, `lookup` and `pin`, and a removal split
  into read, open, write and rename; descriptors follow the file through a rename. `lookup`
  takes the first line of a host, `remove_host_lines` keeps the others in order. Lines have
  any length: a write over a longer body leaves lines of that body, the first of which may
  be cut (`Overwrite`); the end of a cut line names no host, or one whose name the cut
  host's name ends with (`Tails`).
* `Login` (extends `KnownHosts` and `HostIdentity`): client processes that dial one of two
  hosts, verify, prompt, pin and go through the challenge rounds, while the server crashes
  and restarts, other processes edit known_hosts and an impostor may answer.
* `MC*`: constants and symmetry sets for TLC. `MCParts`, `MCStreams` and `MCForwarding` put
  components that share nothing into one run: each behaviour is one of a single component,
  chosen in the initial state. `*Proofs`: theorems (`ForwardProofs` also has those of
  `RemoteForward`, `LoginProofs` those of `Signing`).

Simplifications worth knowing: `Monitor` has no crash of the monitor (of what it keeps on
disk `HostIdentity` has one, and the worker ends with it); the saturation of `u32` and
`Instant` in the token bucket is not distinguished; errors of `flush` and of the file system
in `rename` are one failing rename; the final status frame of a copy is not subject to the
stream's capacity; HTTP details, window-resize frames and the raw-mode terminal are left
out, and of a file's mode all but whether its owner may write. In `Forward` a socket and the
task that reads it are part of the queue behind them, and the local application always
reads. In `KnownHosts` a pin appends a whole line. Nothing that was written is lost
afterwards (no power failure).

## 3. Runs

| Run | Properties | What it shows |
|---|---|---|
| `parts` | monitor: `Bookkeeping`, `SessionEarned`, `OneGuess`, `SessionIdNeverReused` | Against an arbitrary worker: session table, connection index, PAM guards and live processes agree; a session runs as a permitted user for whom every factor asked for was shown on that connection, the one-time code included; a challenge allows one guess; ids are not reused |
| | accept path: `SlotPerConnection`, `FailsBounded`, `CountsGuards`, `BackoffSticks` | The limiter counts exactly the live connections, a backoff is not shed while connected; failed attempts exceed `max_auth_fails` by at most the open streams minus one |
| | signing: `OwnSignature`, `ThrottleBound` | A handshake never gets another one's signature; the bucket's rate holds |
| `privsep_sync` | `ReplyMatchesCall`, `AllowIsMonitors`, `OwnSession`, `AlwaysReaped` | Without a fired deadline or an oversized header, replies stay matched to calls; channels own their sessions and reap them unless their pump failed |
| `privsep_live` | `AuthEnds`, `CloseEnds`, `RefinesMonitor`, `RefinesTransport` | With deadlines and unanswered requests: no authentication and no close waits for ever, and the server implements its two parts |
| `streams` | exec: `OutputComplete`, `EofAfterInput`, `ExitCodeReturned`, `EndsAfterExit` | Status after all output, end of input after all input, a status for every client that sent its input; when the process has exited and the input is sent, both sides end |
| | downloads: `NoSilentSuccess`, `PartOwned`, `DownloadEnds` | Two runs of `cp` to one destination, overlapping or not, with kills and failures anywhere: with a privilege-separated server the destination is old, absent or whole unless they overlapped; part files are accounted for; clients and tasks end |
| | uploads: `UploadExact`, `RerunSucceeds`, `UploadEnds`, `RefinesTreeCopy` | A file reported as sent to a privilege-separated server is complete; of what an earlier run left only a read-only mode stops a run; every run ends; the tree upload implements `TreeCopy` |
| `forwarding` | pumps: `InOrder`, `EofAfterAll`, `ForwardEnds` | Bytes arrive in order however the stream is cut, an end of file after all of them; when both programs have ended their output, all four tasks end |
| | table: `OneHolder`, `SocketSettles` | A parked socket has one holder on its own connection, and none stays parked, whatever became of the signal, the client and the listener |
| `login` | `StableIdentity`, `KnownHostsExact`, `NoFalseAlarm`, `OnlyAccepted`, `LoginEnds` | One identity across crashes and restarts; known_hosts holds what was pinned and not removed; a mismatch means an impostor; nobody is let in on a certificate no user accepted; a login ends, or waits for one answer of the server |

Six more runs state what a comment or the documentation says and the code does not do; TLC
finds each violated, and section 4 says how: `privsep_deadline` (`AllowIsMonitors` with
deadlines), `privsep_reap` (`EveryChannelReaped`), `fails_bound` (`FailsTolerated`),
`channel_stall` (`ChannelEnds`), `download_success` (`SuccessMeansWhole`) and `forward_eof`
(`EitherEofCloses`).

Each module with a state also has a type invariant (`TypeOK`, `ChannelTypeOK`,
`LimiterTypeOK` ...) or states its types beside its variables. The type invariants document
the state and carry the proofs; the runs spend their time on the properties above.

Deadlock checking is off everywhere: these are finite scenarios (a channel, a copy, a
bounded number of requests) that come to their end. That nothing stops too early is what
the liveness properties say.

### Bounds

* `parts`, monitor: 2 connections, 2 users (one denied although the allow list names both,
  one enrolled for TOTP), 4 requests, 2 sessions, 1 message in flight, every credential
  kind. Four requests are a challenge and two guesses, or two logins and two spawns on the
  same or different connections, which is what the properties need to fail. Accept path: 3
  connections from 2 addresses, cap 1 per address, 3 request tasks, 2 streams per
  connection, `max_auth_fails` 1, failure counter saturating at 2. The gate's race needs two
  streams, the sweep's a dead and a live connection of one address. The exponent's cap of 16
  in `backoff` lies outside these bounds. Signing: burst 2, refill 2 ticks, 4 handshakes, 7
  ticks.
* `privsep_sync`: 2 connections, 2 tasks, 6 requests: a whole life (authenticate, spawn,
  signal, reap, close) beside a second login, or two tasks that interleave
  authenticate, spawn and reap.
  `privsep_live`: 1 connection, 2 tasks, 7 requests, 1 session, deadlines and oversized
  headers. `privsep_deadline`, `privsep_reap`: 2 connections, 2 tasks.
* `streams`, exec: 2 outputs, 2 chunks of input, 1 interrupt, every queue of 1: each queue
  fills and drains, and the outputs end in either order. `channel_stall` has 4 chunks, which
  is what closes the cycle of full queues.
  Downloads: 2 clients, 2 chunks, queue and stream of 1. Three downloads that overlap are
  left to the theorem. Uploads: a root with a nested pair of directories, two files, one of
  them read-only, and a symbolic link; 2 chunks per file, queues of 1, 2 runs. Two chunks let
  a run stop inside a file, nesting makes the order of directories matter, and one rerun
  meets every state a first run leaves.
* `forwarding`, pumps: 2 bytes each way (1 in `forward_eof`), frames of 1 or 2 bytes, a
  stream of 4 (one whole frame), queues and socket of 1. Upwards every chunk size occurs, so
  prefixes and bodies are cut everywhere; downwards a frame comes whole, which keeps the
  product small (the reader is the same code). Table: a client with two forwards, a rogue
  one, 3 sockets, a table of 2: it is full with a third socket waiting, and the rogue finds
  another's socket parked.
* `login`: 2 processes at a time, 4 starts, 2 generated pairs, 1 challenge round, 2 hosts of
  which one's name ends with the other's, an impostor. Four starts are a pin, a removal,
  another pin and a connection to see the effect; a second pair is what a crash between the
  two writes needs.

### Fairness

* `PrivsepServer`: weak fairness of each request task, of each connection's close and of
  the monitor's loop. tokio schedules every runnable task and its mutex is FIFO, so a
  caller at the head of the queue stays enabled until it moves. `AUTH_DEADLINE` is a
  step of the task: a timer that is due fires. Nothing is assumed of clients, of helpers
  or of the processes; every property allows the worker to die.
* `Channel`: both pumps, the signal drain and the process's reading; the process is a
  filter by assumption. Nothing forces an interrupt, a kill, a failing local write, a lost
  connection or an early exit.
* `Download`, `UploadTree`: each client that runs, each helper (or thread) and each channel
  task. Nothing forces failures, kills or a second run.
* `RemoteForward`: the eviction timers alone. Clients, listeners and pumps may stop.
* `Forward`: every task, and the service's reads and the completion of its writes while there
  is room. Nothing makes a program write, half-close or close, or loses the connection.
* `Login`: a client that has connected goes on, because its user answers or goes away.
  Nothing makes the server start, or answer a request: the client keeps the connection alive
  (`connect.rs:51-56`) and has no timeout of its own (`main.rs:696`), so `LoginEnds` leaves
  open that a client waits for ever for one answer.

## 4. Where the code and its documentation differ

Each of these runs states what the repository says, and TLC must find it violated.

* `privsep_deadline`: "Auth verdicts are the monitor's" (`worker.rs:4`).
  `MonitorClient::call` (`worker.rs:147`) awaits the reply under the lock. When
  `AUTH_DEADLINE` drops the future after the send, the lock is released with the reply still
  to come; the next call reads it. A request the monitor denied can thus be served on the
  verdict of another one, and every later call stays one reply behind. (What the monitor
  itself does is unaffected: `RefinesMonitor` holds, so no session runs as a user who did
  not authenticate on that connection.)
* `privsep_reap`: "ALWAYS reap — no session leak" (`worker.rs:406, 438, 466`). A pump that
  fails with a stream error returns through `?` before its reap (`worker.rs:403, 436, 460`).
  The session stays listed until Close; if Close was handled before the request spawned it,
  nobody collects it while the monitor lives. `AlwaysReaped` is what holds: every other end
  reaps, and an upload's task does so even when its pump fails.
* `fails_bound`: "Failed auth attempts tolerated on a single connection before further
  attempts get cheap 401s" (`dist/server.toml:22-23`, `main.rs:79-80` of the server). The
  count is compared before the backoff and the verdict and incremented after
  (`transport.rs:373, 400`), so attempts under way together pass together. `FailsBounded` is
  the bound that holds.
* `channel_stall`: frames are pumped "both directions until the process exits (final
  `ExitStatus` frame) or a side hangs up" (`session.rs:4-6`). Both pumps await a write
  inside a `select!` arm (`session.rs:384, 413`, `terminal.rs:105`). With the queues full in
  both directions everyone waits, as with `cat` fed a large file, also after the process is
  gone. `EndsAfterExit` is what holds: a client with no more input to send gets to the end.
* `download_success`: "nonzero on failure" (`session.rs:83`), "never a silent success"
  (`cp.rs:352-355`). A dev server's thread returns Ok whether its loop met the end of the
  file or an error (`session.rs:94`), so part of a file is renamed into place with status 0.
  An upload has the same with a failed write (`session.rs:139`, against
  `session.rs:117-118`). Downloads to one destination at the same time also break it: they
  share the part file's name (`cp.rs:371`), so one can report success for a file that
  another has truncated, or rename the unfinished file of another. `NoSilentSuccess` and
  `UploadExact` are what holds with a privilege-separated server, the former for downloads
  that do not overlap.
* `forward_eof`: "Either EOF closes the other direction" (`main.rs:1020-1021`), "Ends when
  either side EOFs" (`session.rs:489`). The pump ends when *both* directions have ended
  (`session.rs:537`), and of the service's end it tells nobody before that
  (`session.rs:534`): an application that waits for it waits for ever. (To end at the first
  EOF would be no remedy: that is the mutant of `EofAfterAll`, and loses data.) The same
  pump also stalls with a service that writes before it reads (`session.rs:517`), as in
  `channel_stall`. `ForwardEnds` is what holds: when both programs have ended, everything
  does.

Other limits of what the code promises are visible in the passing properties and in the
models:

* A client still sending when the process ends gets a send error and no exit status
  (`terminal.rs:105`); a lost connection yields none, and neither does a local output that
  cannot be written (`terminal.rs:96-97`). `ExitCodeReturned` says that nothing else loses
  it.
* A lost connection, or a client that dies, ends the process's input like a clean end after
  a part of it (`session.rs:380, 435, 594-597`). `EofAfterInput` speaks of connections that
  are up.
* A dev server whose client hangs up while the queue is full joins a thread that waits for
  it (`session.rs:106`) and never ends that channel's task. `DownloadEnds` promises the end
  of the task in a privilege-separated server only, where the reaper kills the helper.
* `RerunSucceeds`: a file whose mode is read-only is created by the first run and cannot be
  opened for writing by the next (`cp.rs:440`, `privdrop.rs:363-369`), except by root; the
  same with a directory of such a mode. So "idempotent re-upload" (`privdrop.rs:385-386`),
  which is said of directories, does not extend to a whole tree.
* `RefinesTreeCopy`: a dev server's unreported write error, and the helper of a killed run
  that opens and truncates its file only after the next run has written it
  (`privdrop.rs:366`).
* `EofAfterAll`: a lost connection, or a socket that was reset, reaches the other program as
  an ordinary end of file (`main.rs:1028, 1042`); a local application that stops reading
  makes the pump drop the other direction too (`session.rs:530`).
* `StableIdentity`: a crash inside the write of the certificate leaves a torn file beside a
  good key, which every later start loads as it is (`monitor.rs:165-167, 180`). A crash
  between the two writes is harmless: the pair is generated anew and none was presented
  before.
* `KnownHostsExact`: LOCK is per process. When another process changed the file during a
  removal, a pin may be lost or a removed line come back (`connect.rs:258-275`). Two
  removals share `known_hosts.tmp`, and the shorter body may be followed by the end of a
  longer one, cut inside a line: what is left of that line may read as an entry of a host
  whose name is the end of the accepted one's. `OnlyAccepted` and `NoFalseAlarm` except such
  a host.
* A server that never answers a request holds the client for ever (`main.rs:696`).
* A user without an enrolled secret is verified against the empty key. The comment says that
  no real code matches it (`totp.rs:154-155`); a code computed with the empty key does, and
  for such a user `SessionEarned` counts it as the second factor.
* The channels of `-L` and `-R` never answer a challenge (`main.rs:870, 1002`), so they fail
  where a second factor is asked for; `Login` has them as logins without rounds.
* No property claims that the monitor forgets a closed connection: a detached request may
  authenticate after Close and leave an entry behind (`transport.rs:245`). `Bookkeeping`
  and `SessionEarned` hold for such entries too. Nor does one say what becomes of helpers
  when the worker dies and the loop ends (`monitor.rs:718`).

## 5. Proofs

Each theorem holds for every value of the constants under the named assumptions at the
end of this section. Theorems that state a property of a run say for every instance what
the run says of a small one.

| Theorem | Statement | Argument |
|---|---|---|
| `MonitorProofs!MonitorTyped` | `Spec => []TypeOK` | inductive as it stands, one step per request |
| `MonitorProofs!BookkeepingExact` | `Spec => []Bookkeeping` | from `Inductive` |
| `MonitorProofs!SessionsEarned` | `Spec => []SessionEarned` | from `Inductive` |
| `MonitorProofs!SessionIdsUnique` | `Spec => SessionIdNeverReused` | an action property, from `Inductive` |
| `MonitorProofs!OneGuessHolds` | `Spec => []OneGuess` | from `Once` |
| `TransportProofs!LimiterTyped`, `LimiterExact` | `LimiterSpec => []LimiterTypeOK`, `[](CountsGuards /\ CapHeld)` | inductive together: the cap on guards follows from the cap on the count because the count is exact |
| `TransportProofs!TransportTyped` | `TransportSpec => []TransportTypeOK` | inductive |
| `TransportProofs!TransportUsesLimiter` | `TransportSpec => LimiterSpec` | each step of the accept path is a step of the limiter or leaves it alone |
| `TransportProofs!TransportCounts` | `TransportSpec => [](CountsGuards /\ CapHeld)` | from the two before it |
| `TransportProofs!BackoffHolds` | `TransportSpec => BackoffSticks` | an action property; the sweep spares an entry with a live guard |
| `TransportProofs!SlotPerConnectionHolds` | `TransportSpec => []SlotPerConnection` | from `GuardPerConnection` |
| `TransportProofs!FailsBoundedHolds` | `TransportSpec => []FailsBounded` | with `StreamsCapped`: the attempts that passed the gate are among the open streams |
| `PrivsepProofs!ServerRefinesTransport`, `ServerRefinesMonitor` | `Spec => T!TransportSpec`, `Spec => M!Spec` | step by step, with `Joined` |
| `PrivsepProofs!ServerKeepsTransport`, `ServerKeepsMonitor` | what is proved of the two parts, in the server | the theorems of the parts through `INSTANCE` |
| `PrivsepProofs!LockQueueExact`, `ServerTyped` | `Spec => []Queue`, `[]TypeOK` | with `Joined`, deadline or not |
| `PrivsepProofs!RepliesMatch`, `AllowsAreMonitors`, `SessionsAreOwn`, `SessionsAreReaped` | while no deadline fires, `Spec => []ReplyMatchesCall`, `[]AllowIsMonitors`, `[]OwnSession`, `[]AlwaysReaped` | from `Synchronous` |
| `ChannelProofs!ChannelTyped` | `ChannelSpec => []ChannelTypeOK` | with `HeldItem` |
| `ChannelProofs!ExitCodeHolds` | `ChannelSpec => []ExitCodeReturned` | from `Ending` |
| `ChannelProofs!OutputHolds` | `ChannelSpec => []OutputComplete` | from `Delivery` |
| `ChannelProofs!EofHolds` | `ChannelSpec => []EofAfterInput` | from `Intake` |
| `ForwardProofs!FrameRoundTrip` | what `take_frame` returns on an encoded body followed by anything | quotient and remainder, then positions |
| `ForwardProofs!PartialFrameWaits` | no proper prefix of a frame is a frame or an error | the same |
| `ForwardProofs!InOrderHolds`, `EofAfterAllHolds` | `Spec => []InOrder`, `[]EofAfterAll` | from `ForwardInv` |
| `ForwardProofs!SocketHasOneHolder` | `RemoteSpec => []OneHolder` | inductive together with: only drawn refs are parked or held |
| `DownloadProofs!DownloadTyped`, `NoSilentSuccessHolds`, `PartOwnedHolds` | `DownloadSpec => []DownloadTypeOK`, `[]NoSilentSuccess`, `[]PartOwned` | from `DownloadInv` |
| `UploadProofs!UploadHolds` | `Spec => [](UploadExact /\ HelperSpared)` | from `Pipeline` |
| `UploadProofs!WalkComplete` | `collect_walk` lists every node of the tree and nothing else, each after its parent | least counterexample over the rank of a place in the tree |
| `UploadProofs!TreeUploadHolds` | `TreeSpec => [](UploadExact /\ HelperSpared)` | from `TreeInv` |
| `UploadProofs!RerunSucceedsHolds` | `TreeSpec => []RerunSucceeds` | from `TreeInv` and `WalkComplete` |
| `UploadProofs!UploadRefinesTreeCopy` | `TreeSpec => RefinesTreeCopy` | step by step, with `TreeInv` |
| `LoginProofs!IdentityStable` | `IdentitySpec => []StableIdentity` | from an invariant on the two files and the boot phase |
| `LoginProofs!KnownHostsHolds`, `OnlyAcceptedHolds`, `NoFalseAlarmHolds` | `Spec => []KnownHostsExact`, `[]OnlyAccepted`, `[]NoFalseAlarm` | from `LoginInv` |
| `LoginProofs!ThrottleHolds`, `OwnSignatureHolds` | `SigningSpec => []ThrottleBound`, `[]OwnSignature` | from `Credit`, from `Straight` |

### The monitor

`Inductive` is
`TypeOK /\ Bookkeeping /\ SessionEarned /\ IdentityEarned /\ PendingEarned /\ IdsFresh`.
`SessionEarned` alone is not inductive: a Spawn copies the user from `users`, so the
recorded identity must be earned (`IdentityEarned`); round two of TOTP takes it from
`challenges`, so the parked first factor must be earned (`PendingEarned`); what an Allow
rests on, the code included, is the lemma `VerdictSound` (`Rests`); and that a new id
disturbs no other session needs the tables' agreement and that ids above the counter never
named a process. `Once` says why a challenge allows one guess: a parked token is parked once
and unguessed, and no request still in the socket can mint a token that exists, because the
socket keeps the order of the ids (`QueueOrdered`, `MintedEarlier`).

### The accept path

`GuardPerConnection` counts an address's guards by the set of its live connections;
`StreamsCapped` bounds the open streams of a connection. Both use cardinalities of finite
sets, so `Tasks` is assumed finite; the set of connections is not.

### The server

`Joined` (the monitor's types, the worker's types, and `Wired`: which phase a task can be in
at which point of its request, and how many messages the socket can hold) is what a step of
the composition needs to be a step of a part. It holds whether deadlines fire or not, and so
do both refinements. `PrivsepProofs` instantiates `MonitorProofs` and `TransportProofs`;
their theorems then hold of the server's variables under the parts' assumptions, which
`PartsAssumption` restates of the server's constants. `Queue` says that the callers inside
`MonitorClient::call` and the members of the lock's queue are the same, each once; a call
that a deadline drops leaves with `Without`, which is shown to remove that caller and nobody
else.

`Synchronous` is the invariant of the worker's own promises: the lock's queue is exact
(`Queue`), at most one message is in the socket and it is the holder's request or
the reply to it (`InStep`), and a session has one owner until it is collected (`Owned`). A
deadline that fires between send and receive breaks `InStep`; the run `privsep_deadline`
shows what follows. That is why these four theorems, and only these, assume
`~DeadlineFires`, the value the run `privsep_sync` uses. `Owned` says of a task that is over
that its session was collected or that its pump failed (`GaveUp`), and of the latter no more.

### Channels and forwards

Queues of frames are related to what was sent and received by *witnesses* under an
existential quantifier: a function that says for each position of a queue what the receiver
will have when it has read so far (`Replay` and `Numbered` in `ChannelProofs`; `Layout`,
`Stream`, `Chain` and `Queued` in `ForwardProofs`, down to the byte at which each frame
starts). A step moves an item at one end of a queue and extends or shifts the witness there,
so no induction over the queue is needed. `Ending` says which phases of the two pumps go
together and that the status is the last frame; `Intake` that while the two ends can reach
each other nothing of the input is missing between them; `Delivery` the same of the output,
as long as the client can still come to the exit status (`Readable`): it can after the
connection was lost, if the status had arrived. `ForwardInv` has one conjunct per direction
for the bytes under way (`Upwards`, `Downwards`) and one for what an end of file means
(`UpDone`, `DownDone`).

### Copies

`Pipeline` relates each stage of an upload to the one before it and lists the three reasons
for which the task may have left its loop. `DownloadInv` has the same for a download
(`Channel`), `Landed` for the destination with either kind of server, and `Directory` for the
names: a file nobody else opened holds all that its
download has taken, and under the part name is the download's own file, none, or a contended
one. The last clause came out of the proof. With three downloads (a first one, a second that
fails and removes the name, a third that creates it anew) the first renames the third's
unfinished file, which the first form of `NoSilentSuccess`, checked with two, did not except.

What `collect_dir` appends for a place of the tree is itself a walk of a subtree. Each place
gets a rank (by the height of its directory, then by how many entries were visited) that is
larger than the ranks of the two places it is built from; a place of least rank where the
list is not the subtree, parents first, leads to a contradiction. `WalkComplete` is the case
of the root.

`TreeInv` is `Pipeline /\ Walked /\ Faults /\ Modes /\ Helpers /\ Remote`. `RerunSucceeds`
alone says nothing of why a mkdir or an open succeeds, so: the directories before this place
of the walk exist (`Walked`), and by `WalkComplete` the parent is among them; each way to
fail has left its mark (`Faults`), and a run that met a mode in its way stops there
(`Modes`); a helper of an earlier run has a directory to write in (`Helpers`), so it makes
no orphan. For `TreeCopy`, `Remote` adds that nothing is made without its parent and that,
as long as nothing has spoiled the promise, what precedes this place is whole and the file
under way holds what its writer wrote. Under the mapping mkdir is `MakeDir`, an open
`OpenFile` (which leaves an empty file whole), the last write `FillFile`, the end of a run
`Report`, another run `Repeat`; everything else stutters or is `Spoil`. A stale helper's
open truncates a file that may be whole, and is `OpenFile` with `spoiled`.

### Identity, known_hosts and signatures

`StableIdentity` speaks of what was presented; it is inductive once the invariant also says
that nothing was presented before both files were there, and that in every phase of the boot
the files are what the writes so far made them. `FileInv` says of known_hosts that every
line anywhere was accepted or is the end of an accepted one (`Accounted`), and, while no two
processes have overlapped, that the one removal under way works on the file as it still is
(`Alone`). `LoginInv` adds what clients can have been shown (`Seen`). `remove_host_lines` is
a recursive function on the number of lines; what it keeps is proved from a least
counterexample (`LeastNumber`, over the well-foundedness of the natural numbers), because
the induction rules with an operator parameter cannot be used.

`Credit` says that signatures made plus tokens left, times the interval, never exceed the
burst plus the time up to `last`; the bound on signatures alone is lost at a refill that
rounds down, the credited form is not. `Straight` says that the signing socket is empty while
its thread is idle and holds one exchange while it reads, and that a thread whose exchange
broke serves nothing more.

### Assumptions

They are `ASSUME`s of the modules, evaluated by TLC in the runs. Bounds and capacities are
natural numbers, positive where the code's are (a copied file may be empty); the sets of
users are subsets of each other and sentinels (no user, no connection, no file) are not
members; a connection has an address. Beyond that: the frame cap is positive and fits into
the prefix, the stream has room for one frame (`FramingAssumption`, `ForwardAssumption`);
the source is a finite tree, in which an entry has one place, the root none, and no
directory lies below itself, as links are not followed (`TreeAssumption`); the burst is at
most the counter's maximum (`SigningAssumption`); outputs and connections are not named like
the fixed tags of the same variables (`ChannelAssumption`, `RemoteForwardAssumption`); "ends
with" is transitive on host names (`HostsAssumption`); there are two hosts
(`LoginAssumption`); the control socket is never the bound on requests (`ServerAssumption`).
The bounds (`MaxRequests`, ...) are parameters, so the theorems cover every number of
requests.

### Only model-checked

* Liveness: fairness and ENABLED are outside the prover (`AuthEnds`, `CloseEnds`,
  `EndsAfterExit`, `DownloadEnds`, `UploadEnds`, `ForwardEnds`, `SocketSettles`,
  `LoginEnds`).

`CapHeld`, conversely, is stated by its theorems only; in the run `parts` it follows from
`CountsGuards` and the guard of `Admit`.

## 6. Not modelled

* Privilege drop and the seccomp filter (`privdrop.rs`): a fixed sequence of system calls
  whose effect is the kernel's. The transfer helpers in the same file are modelled.
* Command line and configuration: parsing and merging, with no state and no protocol.
* The postcard encoding and the base64 of headers: another library's.
* Window resizing and the raw-mode terminal: they change nothing the properties see.
* The order in which `run_forwarding` joins its tasks (`main.rs:845`): a later forward's
  failure is reported late.
* A pin that is killed inside its line: `writeln!` is several writes (`connect.rs:234`).
* Power failure: no file is synced by the code, and none is assumed lost.

## 7. Plan

The system's state-changing parts are modelled, and each invariant, safety action property
and refinement that a passing run checks is stated by a theorem. The liveness properties stay with
TLC.
