--------------------------- MODULE PrivsepServer ---------------------------
(***************************************************************************)
(* The privilege-separated server: the accept path (Transport) and the     *)
(* monitor (Monitor) joined by the worker's RPC client and channel code    *)
(* (quish-server/src/worker.rs).                                           *)
(*                                                                         *)
(* MonitorClient::call takes ONE lock, sends, receives, and releases the   *)
(* lock when its future ends.  The lock is tokio's FIFO mutex, so it is a  *)
(* queue of callers here; the head holds it.  A call is two steps (Send,   *)
(* Receive) with anything in between, and only Authenticate is wrapped in  *)
(* a timeout: when AUTH_DEADLINE passes the call is dropped wherever it    *)
(* is, in the queue, before its reply, or in the failure delay.            *)
(***************************************************************************)
EXTENDS Naturals, Sequences, FiniteSets

CONSTANTS
  Conns, Tasks, NoConn,
  Users, NoUser, AllowUsers, DenyUsers, Pam, Totp, Oidc, Enrolled,
  MaxSession, MaxRequests, MaxInFlight, CredKinds,
  Ips, IpOf, MaxAuthFails, MaxChannels,
  MaxConnsPerIp, MaxFails, BaseBackoff, MaxBackoff,
  MaxSignals,     \* bound: signals one task forwards
  DeadlineFires,  \* whether an attempt may take longer than AUTH_DEADLINE
  Oversized,      \* whether a client may send a header beyond IPC_CAP
  SpawnKinds      \* bound: the channel kinds clients open

ASSUME ServerAssumption ==
  /\ Conns \cap Tasks = {}
  /\ MaxSignals \in Nat
  /\ MaxInFlight >= MaxRequests
  /\ {DeadlineFires, Oversized} \subseteq BOOLEAN

VARIABLES
  users, sessions, conn_sessions, challenges, next_session, pam_sessions,
  serving, proc, uid, worker_alive, to_monitor, to_worker, next_req,
  proven, guesses, granted,
  known, conns, fails, stale, guards, conn, conn_fails, pc, on,
  lockq,    \* callers waiting for MonitorClient::sock; the head holds it
  call,     \* the request the holder has sent, 0 = none yet
  phase,    \* where a request task is within authenticate or serve_channel
  kind,     \* the Spawn* request of its channel
  sess,     \* the session id it was given, 0 = none
  signals,  \* signals forwarded so far
  rid       \* auxiliary: the id of its Authenticate request

M == INSTANCE Monitor
T == INSTANCE Transport WITH Connections <- Conns

\* What the parts assume of their constants, and that a channel kind is one
\* of the monitor's requests.
ASSUME PartsAssumption ==
  /\ NoUser \notin Users
  /\ {AllowUsers, DenyUsers, Enrolled} \subseteq SUBSET Users
  /\ {Pam, Totp, Oidc} \subseteq BOOLEAN
  /\ {MaxSession, MaxRequests, MaxInFlight} \subseteq Nat
  /\ CredKinds \subseteq {"none", "password", "token", "jwt"}
  /\ {MaxConnsPerIp, MaxFails, BaseBackoff, MaxBackoff} \subseteq Nat
  /\ NoConn \notin Conns
  /\ IpOf \in [Conns -> Ips]
  /\ MaxAuthFails \in Nat
  /\ MaxChannels \in Nat \ {0}
  /\ IsFiniteSet(Tasks)
  /\ SpawnKinds \subseteq M!SpawnOps

monitor_vars   == <<users, sessions, conn_sessions, challenges, next_session,
                    pam_sessions, serving, proc, uid, proven, guesses, granted>>
socket_vars    == <<worker_alive, to_monitor, to_worker, next_req>>
transport_vars == <<known, conns, fails, stale, guards, conn, conn_fails, pc, on>>
rpc_vars       == <<lockq, call>>
task_vars      == <<phase, kind, sess, signals, rid>>
vars           == <<monitor_vars, socket_vars, transport_vars, rpc_vars, task_vars>>

Phases == {"none", "auth", "deny", "challenge", "granted", "open", "spawn",
           "running", "signal", "reap", "failed"}

TypeOK ==
  /\ M!TypeOK
  /\ T!TransportTypeOK
  /\ lockq \in Seq(Tasks \cup Conns)
  /\ call \in 0..MaxRequests
  /\ phase \in [Tasks -> Phases]
  /\ kind \in [Tasks -> M!SpawnOps \cup {"none"}]
  /\ sess \in [Tasks -> 0..MaxSession]
  /\ \A t \in Tasks : phase[t] \in {"running", "signal", "reap"} => sess[t] # 0
  /\ signals \in [Tasks -> 0..MaxSignals]
  /\ rid \in [Tasks -> 0..MaxRequests]

Init ==
  /\ M!Init
  /\ T!TransportInit
  /\ lockq = <<>>
  /\ call = 0
  /\ phase = [t \in Tasks |-> "none"]
  /\ kind = [t \in Tasks |-> "none"]
  /\ sess = [t \in Tasks |-> 0]
  /\ signals = [t \in Tasks |-> 0]
  /\ rid = [t \in Tasks |-> 0]

-----------------------------------------------------------------------------
(* MonitorClient::call                                                     *)

Holds(x) == lockq # <<>> /\ Head(lockq) = x

\* sock.lock().await: join the queue.
Lock(x) == lockq' = Append(lockq, x)

\* ctrl_send
Send(x, r) ==
  /\ Holds(x)
  /\ call = 0
  /\ next_req < MaxRequests
  /\ to_monitor' = Append(to_monitor, r)
  /\ next_req' = next_req + 1
  /\ call' = next_req + 1
  /\ UNCHANGED <<monitor_vars, worker_alive, to_worker, lockq, transport_vars>>

\* ctrl_recv: the NEXT reply in the socket, then the lock is released.
Receive(x) ==
  /\ Holds(x)
  /\ call # 0
  /\ to_worker # <<>>
  /\ to_worker' = Tail(to_worker)
  /\ lockq' = Tail(lockq)
  /\ call' = 0
  /\ UNCHANGED <<monitor_vars, worker_alive, to_monitor, next_req>>

\* Mutant: a leaked guard; the dropped call keeps its place and the lock.
MutAbandon(x) == UNCHANGED rpc_vars

\* A queue in which x stands at most once, without it.
Without(q, x) ==
  IF \E i \in 1..Len(q) : q[i] = x
  THEN LET i == CHOOSE i \in 1..Len(q) : q[i] = x
       IN SubSeq(q, 1, i - 1) \o SubSeq(q, i + 1, Len(q))
  ELSE q

\* The future is dropped: the caller leaves the queue, or releases the lock
\* with whatever it sent, or was about to read, still in the socket.
Abandon(x) ==
  /\ lockq' = Without(lockq, x)
  /\ call' = IF Holds(x) THEN 0 ELSE call

-----------------------------------------------------------------------------
(* Steps of the accept path that do not touch the monitor                  *)

Accept(c) == T!Accept(c) /\ UNCHANGED <<monitor_vars, socket_vars, rpc_vars, task_vars>>

AcceptRequest(t, c) ==
  T!AcceptRequest(t, c) /\ UNCHANGED <<monitor_vars, socket_vars, rpc_vars, task_vars>>

Gate(t) == T!Gate(t) /\ UNCHANGED <<monitor_vars, socket_vars, rpc_vars, task_vars>>

Ages(ip) == T!Ages(ip) /\ UNCHANGED <<monitor_vars, socket_vars, rpc_vars, task_vars>>

\* The accept loop ends; MonitorClient::close joins the queue.
ConnEnds(c) ==
  /\ T!ConnEnds(c)
  /\ Lock(c)
  /\ UNCHANGED <<monitor_vars, socket_vars, call, task_vars>>

SendClose(c) ==
  /\ conn[c] = "closing"
  /\ Send(c, [id |-> next_req + 1, op |-> "Close", conn |-> c])
  /\ UNCHANGED task_vars

\* Mutant: the connection's task forgets its guard instead of dropping it.
MutReceiveClose(c) ==
  /\ Receive(c)
  /\ conn' = [conn EXCEPT ![c] = "closed"]
  /\ UNCHANGED <<known, conns, fails, stale, guards, conn_fails, pc, on, task_vars>>

ReceiveClose(c) ==
  /\ Receive(c)
  /\ T!Closed(c)
  /\ UNCHANGED task_vars

-----------------------------------------------------------------------------
(* Authentication                                                          *)

Goto(t, p) == phase' = [phase EXCEPT ![t] = p]

StartAuth(t) ==
  /\ T!StartAuth(t)
  /\ Lock(t)
  /\ Goto(t, "auth")
  /\ UNCHANGED <<monitor_vars, socket_vars, call, kind, sess, signals, rid>>

\* The worker passes on the client's header and answer, and the binding of
\* the connection the request came on.
AuthRequests(i, c) ==
  {r \in M!RequestsNumbered(i) :
     \/ r.op = "Authenticate" /\ r.conn = c /\ r.binding = c
     \/ r.op = "Bad" /\ Oversized}

SendAuth(t) ==
  /\ phase[t] = "auth"
  /\ \E r \in AuthRequests(next_req + 1, on[t]) : Send(t, r)
  /\ rid' = [rid EXCEPT ![t] = next_req + 1]
  /\ UNCHANGED <<phase, kind, sess, signals>>

\* Mutant: any Verdict is taken for Verdict(true).
MutReceiveAuth(t) ==
  /\ phase[t] = "auth"
  /\ Receive(t)
  /\ Head(to_worker).kind \in {"Allow", "Deny"}
  /\ T!Allowed(t)
  /\ Goto(t, "granted")
  /\ UNCHANGED <<kind, sess, signals, rid>>

\* Verdict(true) is Allow, Challenge is a challenge, anything else a Deny; a
\* non-success waits out the failure delay.
ReceiveAuth(t) ==
  /\ phase[t] = "auth"
  /\ Receive(t)
  /\ LET k == Head(to_worker).kind
     IN \/ k = "Allow" /\ T!Allowed(t) /\ Goto(t, "granted")
        \/ k = "Challenge" /\ Goto(t, "challenge") /\ UNCHANGED transport_vars
        \/ k \notin {"Allow", "Challenge"} /\ Goto(t, "deny") /\ UNCHANGED transport_vars
  /\ UNCHANGED <<kind, sess, signals, rid>>

\* The failure delay is over.
FloorOver(t) ==
  /\ \/ phase[t] = "deny" /\ T!Denied(t)
     \/ phase[t] = "challenge" /\ T!Challenged(t)
  /\ Goto(t, "none")
  /\ UNCHANGED <<monitor_vars, socket_vars, rpc_vars, kind, sess, signals, rid>>

\* Mutant: the timeout covers the wait for the lock only.
MutDeadline(t) ==
  /\ DeadlineFires
  /\ ~Holds(t)
  /\ T!Denied(t)
  /\ Abandon(t)
  /\ Goto(t, "none")
  /\ UNCHANGED <<monitor_vars, socket_vars, kind, sess, signals, rid>>

\* AUTH_DEADLINE passes: Backend::authenticate is dropped, the outcome is Deny.
Deadline(t) ==
  /\ DeadlineFires
  /\ T!Denied(t)
  /\ Abandon(t)
  /\ Goto(t, "none")
  /\ UNCHANGED <<monitor_vars, socket_vars, kind, sess, signals, rid>>

-----------------------------------------------------------------------------
(* serve_channel                                                           *)

\* The request task ends.
Return(t) ==
  /\ T!Served(t)
  /\ Goto(t, "none")

\* respond(200): fails once the connection is gone, and may fail before.
Respond(t) ==
  /\ phase[t] = "granted"
  /\ \/ /\ conn[on[t]] = "open"
        /\ Goto(t, "open")
        /\ UNCHANGED transport_vars
     \/ Return(t)
  /\ UNCHANGED <<monitor_vars, socket_vars, rpc_vars, kind, sess, signals, rid>>

\* ChannelOpen arrives (it may have been buffered before the connection
\* ended): a spawning kind calls the monitor; end of stream, a refused
\* argument, or a forward end without one.
OpenChannel(t) ==
  /\ phase[t] = "open"
  /\ \/ /\ Goto(t, "spawn")
        /\ Lock(t)
        /\ \E k \in SpawnKinds : kind' = [kind EXCEPT ![t] = k]
        /\ UNCHANGED transport_vars
     \/ Return(t) /\ UNCHANGED <<lockq, kind>>
  /\ UNCHANGED <<monitor_vars, socket_vars, call, sess, signals, rid>>

SendSpawn(t) ==
  /\ phase[t] = "spawn"
  /\ Send(t, [id |-> next_req + 1, op |-> kind[t], conn |-> on[t]])
  /\ UNCHANGED task_vars

\* The fds each spawn_* method insists on.
FdsOf(k) == CASE k = "SpawnExec" -> 3
              [] k = "SpawnTransferWrite" -> 2
              [] OTHER -> 1

\* Mutant: the reply's variant is not looked at.
MutReceiveSpawn(t) ==
  /\ phase[t] = "spawn"
  /\ Receive(t)
  /\ sess' = [sess EXCEPT ![t] = Head(to_worker).arg]
  /\ Goto(t, "running")
  /\ UNCHANGED <<transport_vars, kind, signals, rid>>

ReceiveSpawn(t) ==
  /\ phase[t] = "spawn"
  /\ Receive(t)
  /\ LET m == Head(to_worker)
     IN \/ /\ m.kind = "Spawned" /\ m.fds = FdsOf(kind[t])
           /\ sess' = [sess EXCEPT ![t] = m.arg]
           /\ Goto(t, "running")
           /\ UNCHANGED transport_vars
        \/ /\ ~(m.kind = "Spawned" /\ m.fds = FdsOf(kind[t]))
           /\ Return(t)
           /\ UNCHANGED sess
  /\ UNCHANGED <<kind, signals, rid>>

\* run_exec's drain loop forwards a client signal.
ForwardSignal(t) ==
  /\ phase[t] = "running"
  /\ kind[t] = "SpawnExec"
  /\ signals[t] < MaxSignals
  /\ signals' = [signals EXCEPT ![t] = @ + 1]
  /\ Goto(t, "signal")
  /\ Lock(t)
  /\ UNCHANGED <<monitor_vars, socket_vars, transport_vars, call, kind, sess, rid>>

\* Signal and Reap name the task's session.
SendSession(t) ==
  /\ phase[t] \in {"signal", "reap"}
  /\ Send(t, [id |-> next_req + 1, sid |-> sess[t],
              op |-> IF phase[t] = "reap" THEN "Reap" ELSE "Signal"])
  /\ UNCHANGED task_vars

ReceiveSignal(t) ==
  /\ phase[t] = "signal"
  /\ Receive(t)
  /\ Goto(t, "running")
  /\ UNCHANGED <<transport_vars, kind, sess, signals, rid>>

\* Mutant: a client that hung up ends the task before the reap.
MutPumpEnds(t) ==
  /\ phase[t] = "running"
  /\ Return(t)
  /\ UNCHANGED <<monitor_vars, socket_vars, rpc_vars, kind, sess, signals, rid>>

\* The pump of run_shell, run_exec, run_transfer ends well (drained, or the
\* client hung up), or run_transfer_write saw its helper's stdout close.
PumpEnds(t) ==
  /\ phase[t] = "running"
  /\ kind[t] = "SpawnTransferWrite" => proc[sess[t]] # "running"
  /\ Goto(t, "reap")
  /\ Lock(t)
  /\ UNCHANGED <<monitor_vars, socket_vars, transport_vars, call, kind, sess, signals, rid>>

\* A send on the stream fails: `?` leaves run_shell, run_exec or run_transfer
\* before their reap.  run_transfer_write has no such exit.
PumpFails(t) ==
  /\ phase[t] = "running"
  /\ kind[t] # "SpawnTransferWrite"
  /\ T!Served(t)
  /\ Goto(t, "failed")
  /\ UNCHANGED <<monitor_vars, socket_vars, rpc_vars, kind, sess, signals, rid>>

ReceiveReap(t) ==
  /\ phase[t] = "reap"
  /\ Receive(t)
  /\ Return(t)
  /\ UNCHANGED <<kind, sess, signals, rid>>

-----------------------------------------------------------------------------
ClientStep ==
  \/ \E c \in Conns : Accept(c) \/ ConnEnds(c)
  \/ \E t \in Tasks : (\E c \in Conns : AcceptRequest(t, c))
                      \/ OpenChannel(t) \/ ForwardSignal(t)
                      \/ PumpEnds(t) \/ PumpFails(t)

TaskStep(t) ==
  \/ Gate(t) \/ StartAuth(t) \/ SendAuth(t) \/ ReceiveAuth(t) \/ FloorOver(t)
  \/ Deadline(t)
  \/ Respond(t)
  \/ SendSpawn(t) \/ ReceiveSpawn(t)
  \/ SendSession(t) \/ ReceiveSignal(t) \/ ReceiveReap(t)

CloseStep(c) == SendClose(c) \/ ReceiveClose(c)

WorkerStep ==
  \/ ClientStep
  \/ \E t \in Tasks : TaskStep(t)
  \/ \E c \in Conns : CloseStep(c)
  \/ \E ip \in Ips : Ages(ip)

Next ==
  \/ worker_alive /\ WorkerStep
  \/ (M!MonitorStep \/ M!WorldStep) /\ UNCHANGED <<transport_vars, rpc_vars, task_vars>>

Spec == Init /\ [][Next]_vars

\* Every runnable task and the monitor's loop keep running (tokio's scheduler;
\* the mutex is FIFO, so weak fairness of each caller is enough).
Fairness ==
  /\ \A t \in Tasks : WF_vars(worker_alive /\ TaskStep(t))
  /\ \A c \in Conns : WF_vars(worker_alive /\ CloseStep(c))
  /\ WF_vars(M!MonitorStep /\ UNCHANGED <<transport_vars, rpc_vars, task_vars>>)

FairSpec == Spec /\ Fairness

-----------------------------------------------------------------------------
(* Properties                                                              *)

\* The composed system is one of the behaviours of Monitor with an arbitrary
\* worker and of Transport with an arbitrary backend: what is proved of them
\* holds of the server (worker.rs, monitor.rs, transport.rs together).
RefinesMonitor   == M!Spec
RefinesTransport == T!TransportSpec

\* The reply a call reads is the reply to the request it sent
\* (worker.rs:147-154).
ReplyMatchesCall == call # 0 /\ to_worker # <<>> => Head(to_worker).id = call

\* A request is served only if the monitor answered THIS request's
\* Authenticate with Verdict(true) (worker.rs:4, ipc.rs:156-157).
AllowIsMonitors == \A t \in Tasks : pc[t] = "serving" => rid[t] \in granted

\* A channel pumps a session of its own: spawned for its connection, by no
\* other task (worker.rs:291-364).
OwnSession ==
  \A t \in Tasks : phase[t] \in {"running", "signal", "reap"} =>
    /\ \A c \in Conns \ {on[t]} : sess[t] \notin conn_sessions[c]
    /\ \A u \in Tasks \ {t} : sess[u] # sess[t]

\* A channel's task whose pump did not fail ends with its session collected, by
\* its own Reap or by the connection's Close, whichever came first and although
\* the task outlives its connection (worker.rs:406, 438, 466, monitor.rs:687-700);
\* an upload's task always does.  EveryChannelReaped has the case left out.
AlwaysReaped ==
  \A t \in Tasks : worker_alive /\ pc[t] = "done" /\ sess[t] # 0 =>
    \/ proc[sess[t]] = "reaped"
    \/ phase[t] = "failed" /\ kind[t] # "SpawnTransferWrite"

\* "ALWAYS reap -- no session leak" (worker.rs:406, 438, 466): a channel's task that
\* is over has had its session collected.  One whose pump failed has not: the `?`
\* of worker.rs:403, 436 and 460 leaves before the reap, and the session is left
\* to the connection's Close or, if that came first, to nobody.
EveryChannelReaped ==
  \A t \in Tasks : worker_alive /\ pc[t] = "done" /\ sess[t] # 0 =>
    proc[sess[t]] = "reaped"

\* No attempt hangs: every authentication ends, whoever holds the lock and
\* whatever was lost, by a verdict or by AUTH_DEADLINE (transport.rs:87-88).
AuthEnds == \A t \in Tasks : pc[t] = "auth" ~> pc[t] # "auth" \/ ~worker_alive

\* Every connection that ends is closed at the monitor and gives back its
\* limiter slot, however the lock is contended (transport.rs:226-245).
CloseEnds == \A c \in Conns : conn[c] = "closing"
                                ~> conn[c] = "closed" \/ ~worker_alive
=============================================================================
