------------------------------- MODULE Monitor -------------------------------
(***************************************************************************)
(* The privileged monitor's control loop (quish-server/src/monitor.rs,     *)
(* serve_control): one worker, one seqpacket socket, one request handled   *)
(* at a time to the end, its reply included.  The monitor owns every       *)
(* identity, every parked challenge, every session child and every PAM     *)
(* guard; the worker only ever names connection ids and session ids.       *)
(*                                                                         *)
(* The worker here is ANY process at the other end of the socket: it may   *)
(* send any request in any order (WorkerSends).  What this module shows of *)
(* the monitor therefore holds whatever the worker does; PrivsepServer     *)
(* puts the real worker in its place.                                      *)
(*                                                                         *)
(* Requests and replies carry an `id` the code's messages do not have.  It *)
(* is auxiliary: no guard reads it, it lets properties say which reply     *)
(* belongs to which request, and it stands for the 128-bit random token of *)
(* a challenge (the token minted while serving request i is i).            *)
(***************************************************************************)
EXTENDS Registry, FiniteSets

CONSTANTS
  MaxSession,   \* bound: sessions spawned in one behaviour
  MaxRequests,  \* bound: requests sent in one behaviour
  MaxInFlight,  \* bound: messages in the socket when a request is sent
  CredKinds     \* bound: the kinds of credential the clients present

ASSUME MonitorAssumption ==
  /\ MaxSession \in Nat
  /\ MaxRequests \in Nat
  /\ MaxInFlight \in Nat
  /\ CredKinds \subseteq {"none", "password", "token", "jwt"}

VARIABLES
  \* State (monitor.rs)
  users,          \* conn_id -> authenticated user, NoUser = no entry
  sessions,       \* the session ids with a Child in the map
  conn_sessions,  \* SessionIndex: conn_id -> its session ids
  challenges,     \* ChallengeStore: conn_id -> parked challenge
  next_session,   \* last session id handed out
  pam_sessions,   \* the session ids with an open PAM guard
  serving,        \* serve_control's loop has not ended
  \* the operating system's view of the session children
  proc,           \* session id -> "none", "running", "exited", "reaped"
  uid,            \* session id -> the user the helper was started for
  \* the control socket and its other end
  worker_alive,
  to_monitor,     \* requests in the socket
  to_worker,      \* replies in the socket
  next_req,       \* auxiliary: last request id used
  \* auxiliary history
  proven,         \* conn_id -> users and factors shown since its last Close
  guesses,        \* challenge token -> codes evaluated against it
  granted         \* the Authenticate requests answered Verdict(true)

state_vars  == <<users, sessions, conn_sessions, challenges, next_session,
                 pam_sessions>>
os_vars     == <<proc, uid>>
aux_vars    == <<proven, guesses, granted>>
socket_vars == <<worker_alive, to_monitor, to_worker, next_req>>
monitor_vars == <<state_vars, serving, os_vars, aux_vars>>
vars         == <<monitor_vars, socket_vars>>

-----------------------------------------------------------------------------
(* Types                                                                   *)

SessionIds == 1..MaxSession
\* What may be shown on a connection: a password, a one-time code, or something
\* that no second factor is ever asked for on top of (a signed token, a JWT).
Factors    == {"password", "code", "whole"}
RequestIds == 1..MaxRequests

\* A challenge answer: the echoed token and the secret its code came from.
NoAnswer == [token |-> 0, code |-> NoUser]
Answers  == [token : RequestIds, code : Proved] \cup {NoAnswer}

NoChallenge     == [token |-> 0, pending_user |-> NoUser, age |-> "none"]
ChallengeStates == [token : RequestIds, pending_user : Proved,
                    age : {"fresh", "expired"}] \cup {NoChallenge}

PamSpawnOps   == {"SpawnShell", "SpawnExec"}
PlainSpawnOps == {"SpawnTransfer", "SpawnTransferWrite", "SpawnMkdir"}
SpawnOps      == PamSpawnOps \cup PlainSpawnOps

AuthRequest    == [id : RequestIds, op : {"Authenticate"}, conn : Conns,
                   cred : Credentials, binding : Conns, answer : Answers]
SpawnRequest   == [id : RequestIds, op : SpawnOps, conn : Conns]
SessionRequest == [id : RequestIds, op : {"Reap", "Signal"}, sid : SessionIds]
CloseRequest   == [id : RequestIds, op : {"Close"}, conn : Conns]
\* A frame that postcard cannot decode (ctrl_recv answers Recv::Bad).
BadRequest     == [id : RequestIds, op : {"Bad"}]

Requests == AuthRequest \cup SpawnRequest \cup SessionRequest
              \cup CloseRequest \cup BadRequest

\* `arg` is the challenge token or the session id; fds ride with Spawned.
ReplyKinds == {"Allow", "Deny", "Challenge", "Spawned", "Exited", "Failed",
               "Closed"}
Replies == [id : RequestIds, kind : ReplyKinds, arg : Nat, fds : 0..3]

TypeOK ==
  /\ users \in [Conns -> Proved]
  /\ sessions \in SUBSET SessionIds
  /\ conn_sessions \in [Conns -> SUBSET SessionIds]
  /\ challenges \in [Conns -> ChallengeStates]
  /\ next_session \in 0..MaxSession
  /\ pam_sessions \in SUBSET SessionIds
  /\ serving \in BOOLEAN
  /\ proc \in [SessionIds -> {"none", "running", "exited", "reaped"}]
  /\ uid \in [SessionIds -> Proved]
  /\ worker_alive \in BOOLEAN
  /\ to_monitor \in Seq(Requests)
  /\ to_worker \in Seq(Replies)
  /\ next_req \in 0..MaxRequests
  /\ proven \in [Conns -> SUBSET (Users \X Factors)]
  /\ guesses \in [RequestIds -> Nat]
  /\ granted \in SUBSET RequestIds

Init ==
  /\ users = [c \in Conns |-> NoUser]
  /\ sessions = {}
  /\ conn_sessions = [c \in Conns |-> {}]
  /\ challenges = [c \in Conns |-> NoChallenge]
  /\ next_session = 0
  /\ pam_sessions = {}
  /\ serving = TRUE
  /\ proc = [s \in SessionIds |-> "none"]
  /\ uid = [s \in SessionIds |-> NoUser]
  /\ worker_alive = TRUE
  /\ to_monitor = <<>>
  /\ to_worker = <<>>
  /\ next_req = 0
  /\ proven = [c \in Conns |-> {}]
  /\ guesses = [i \in RequestIds |-> 0]
  /\ granted = {}

-----------------------------------------------------------------------------
(* Receiving and replying                                                  *)

\* The loop takes the next request off the socket (ctrl_recv).
Receives(op) ==
  /\ serving
  /\ to_monitor # <<>>
  /\ Head(to_monitor).op = op
  /\ to_monitor' = Tail(to_monitor)

\* Mutant: a handler that replies itself and then falls through to the loop's
\* own reply.
MutReplyTwice(r, kind, arg, fds) ==
  LET m == [id |-> r.id, kind |-> kind, arg |-> arg, fds |-> fds]
  IN  to_worker' = to_worker \o <<m, m>>

Reply(r, kind, arg, fds) ==
  to_worker' = Append(to_worker,
                      [id |-> r.id, kind |-> kind, arg |-> arg, fds |-> fds])

-----------------------------------------------------------------------------
(* Authenticate                                                            *)

\* Mutant: a store keyed by token alone, blind to the connection.
MutTake(c, answer) ==
  IF \E d \in Conns : challenges[d].age = "fresh" /\ challenges[d].token = answer.token
  THEN Resume((CHOOSE ch \in {challenges[d] : d \in Conns} :
                 ch.token = answer.token).pending_user, answer.code)
  ELSE NoResume

\* ChallengeStore::take: the parked challenge if the token matches and it
\* has not outlived CHALLENGE_TTL.
Take(c, answer) ==
  IF /\ answer # NoAnswer
     /\ challenges[c].age = "fresh"
     /\ challenges[c].token = answer.token
  THEN Resume(challenges[c].pending_user, answer.code)
  ELSE NoResume

\* Mutant: `get` where the code has `remove`.
MutAfterTake(c, answer) == challenges[c]

\* What `take` leaves behind: any answer consumes the entry, match or not.
AfterTake(c, answer) == IF answer = NoAnswer THEN challenges[c] ELSE NoChallenge

\* ChallengeStore::insert replaces a pending one.
Parked(c, r, v) ==
  IF v.kind = "Challenge"
  THEN [token |-> r.id, pending_user |-> v.user, age |-> "fresh"]
  ELSE AfterTake(c, r.answer)

\* What a request shows: the user its credential is for and, when it resumes a
\* challenge, the users whose secret its code was computed from.
Shown(r) ==
  {<<u, IF r.cred.kind = "password" THEN "password" ELSE "whole">> :
     u \in {ProvenUser(r.cred, r.binding)} \ {NoUser}}
  \cup {<<u, "code">> : u \in {w \in Users : /\ Take(r.conn, r.answer).round = 2
                                             /\ r.cred.kind = "password"
                                             /\ r.answer.code = secret_for(w)}}

Authenticate ==
  /\ Receives("Authenticate")
  /\ LET r  == Head(to_monitor)
         c  == r.conn
         ch == Take(c, r.answer)
         v  == verdict(r.cred, r.binding, ch)
     IN /\ users' = IF v.kind = "Allow"
                    THEN [users EXCEPT ![c] = v.user] ELSE users
        /\ challenges' = [challenges EXCEPT ![c] = Parked(c, r, v)]
        /\ proven' = [proven EXCEPT ![c] = @ \cup Shown(r)]
        /\ guesses' = IF ch.round = 2 /\ r.cred.kind = "password"
                      THEN [guesses EXCEPT ![r.answer.token] = @ + 1]
                      ELSE guesses
        /\ granted' = IF v.kind = "Allow" THEN granted \cup {r.id} ELSE granted
        /\ Reply(r, v.kind, IF v.kind = "Challenge" THEN r.id ELSE 0, 0)
  /\ UNCHANGED <<sessions, conn_sessions, next_session, pam_sessions, serving,
                 os_vars, worker_alive, next_req>>

-----------------------------------------------------------------------------
(* Spawning                                                                *)

\* Mutant: ids are recycled, the size of the map taken for a counter.
MutAllocRecycled(c, u) ==
  LET id == Cardinality(sessions) + 1
  IN /\ next_session' = id
     /\ sessions' = sessions \cup {id}
     /\ conn_sessions' = [conn_sessions EXCEPT ![c] = @ \cup {id}]
     /\ proc' = [proc EXCEPT ![id] = "running"]
     /\ uid' = [uid EXCEPT ![id] = u]

\* State::alloc and the child it records.
Alloc(c, u) ==
  LET id == next_session + 1
  IN /\ next_session' = id
     /\ sessions' = sessions \cup {id}
     /\ conn_sessions' = [conn_sessions EXCEPT ![c] = @ \cup {id}]
     /\ proc' = [proc EXCEPT ![id] = "running"]
     /\ uid' = [uid EXCEPT ![id] = u]

\* open_session runs before a shell or an exec, and may fail: the session
\* then has no guard.
PamGuards(op) == SUBSET (IF Pam /\ op \in PamSpawnOps THEN {next_session + 1} ELSE {})

\* One Spawn* request: Failed without an identity, Failed when the helper
\* cannot be spawned, else a session for the connection's CURRENT identity.
Spawn(op, fds) ==
  /\ Receives(op)
  /\ LET r == Head(to_monitor)
         u == users[r.conn]
     IN \/ /\ u # NoUser
           /\ next_session < MaxSession
           /\ Alloc(r.conn, u)
           /\ \E g \in PamGuards(op) : pam_sessions' = pam_sessions \cup g
           /\ Reply(r, "Spawned", next_session + 1, fds)
        \/ /\ Reply(r, "Failed", 0, 0)
           /\ UNCHANGED <<sessions, conn_sessions, next_session, pam_sessions,
                          os_vars>>
  /\ UNCHANGED <<users, challenges, serving, aux_vars, worker_alive, next_req>>

SpawnShell         == Spawn("SpawnShell", 1)
SpawnExec          == Spawn("SpawnExec", 3)
SpawnTransfer      == Spawn("SpawnTransfer", 1)
SpawnTransferWrite == Spawn("SpawnTransferWrite", 2)
SpawnMkdir         == Spawn("SpawnMkdir", 1)

-----------------------------------------------------------------------------
(* Reap, Close, Signal                                                     *)

\* reap_child: an exited child is collected, a running one killed first.
ReapChildren(S) == proc' = [s \in SessionIds |->
                              IF s \in S THEN "reaped" ELSE proc[s]]

\* Mutant: a reap that leaves the reverse index alone.
MutForget(s) == UNCHANGED conn_sessions

\* SessionIndex::forget
Forget(s) == conn_sessions' = [c \in Conns |-> conn_sessions[c] \ {s}]

Reap ==
  /\ Receives("Reap")
  /\ LET r == Head(to_monitor)
         s == r.sid
     IN \/ /\ s \in sessions
           /\ sessions' = sessions \ {s}
           /\ Forget(s)
           /\ ReapChildren({s})
           /\ pam_sessions' = pam_sessions \ {s}
           /\ Reply(r, "Exited", s, 0)
        \/ /\ s \notin sessions
           /\ Reply(r, "Failed", 0, 0)
           /\ UNCHANGED <<sessions, conn_sessions, proc, pam_sessions>>
  /\ UNCHANGED <<users, challenges, next_session, serving, uid, aux_vars,
                 worker_alive, next_req>>

\* SessionIndex::take_conn drains the connection's list; every child of it
\* is killed and collected, and its PAM guard closed, before the reply.
Close ==
  /\ Receives("Close")
  /\ LET r     == Head(to_monitor)
         c     == r.conn
         taken == conn_sessions[c]
     IN /\ users' = [users EXCEPT ![c] = NoUser]
        /\ challenges' = [challenges EXCEPT ![c] = NoChallenge]
        /\ conn_sessions' = [conn_sessions EXCEPT ![c] = {}]
        /\ sessions' = sessions \ taken
        /\ ReapChildren(taken \cap sessions)
        /\ pam_sessions' = pam_sessions \ taken
        /\ proven' = [proven EXCEPT ![c] = {}]
        /\ Reply(r, "Closed", 0, 0)
  /\ UNCHANGED <<next_session, serving, uid, guesses, granted,
                 worker_alive, next_req>>

\* killpg is sent if the session is still known; what it does to the child is
\* ChildExits.  The reply is Closed either way.
Signal ==
  /\ Receives("Signal")
  /\ Reply(Head(to_monitor), "Closed", 0, 0)
  /\ UNCHANGED <<monitor_vars, worker_alive, next_req>>

\* Recv::Bad: the loop continues and NO reply is sent.
SkipBad ==
  /\ Receives("Bad")
  /\ UNCHANGED <<monitor_vars, worker_alive, to_worker, next_req>>

\* Recv::Closed, or a reply that cannot be sent: the loop ends, State is
\* dropped.  Dropping a Child neither kills nor collects it; dropping a PAM
\* guard closes it.
ControlClosed ==
  /\ serving
  /\ ~worker_alive
  /\ serving' = FALSE
  /\ users' = [c \in Conns |-> NoUser]
  /\ sessions' = {}
  /\ conn_sessions' = [c \in Conns |-> {}]
  /\ challenges' = [c \in Conns |-> NoChallenge]
  /\ pam_sessions' = {}
  /\ UNCHANGED <<next_session, os_vars, aux_vars, socket_vars>>

-----------------------------------------------------------------------------
(* The world around the monitor                                            *)

\* A session helper ends by itself or by a signal.
ChildExits(s) ==
  /\ proc[s] = "running"
  /\ proc' = [proc EXCEPT ![s] = "exited"]
  /\ UNCHANGED <<state_vars, serving, uid, aux_vars, socket_vars>>

\* CHALLENGE_TTL passes.
ChallengeExpires(c) ==
  /\ challenges[c].age = "fresh"
  /\ challenges' = [challenges EXCEPT ![c].age = "expired"]
  /\ UNCHANGED <<users, sessions, conn_sessions, next_session, pam_sessions,
                 serving, os_vars, aux_vars, socket_vars>>

\* The worker process ends (crash, or killed).
WorkerDies ==
  /\ worker_alive
  /\ worker_alive' = FALSE
  /\ UNCHANGED <<monitor_vars, to_monitor, to_worker, next_req>>

MonitorStep ==
  \/ Authenticate
  \/ SpawnShell \/ SpawnExec
  \/ SpawnTransfer \/ SpawnTransferWrite \/ SpawnMkdir
  \/ Reap
  \/ Close
  \/ Signal
  \/ SkipBad
  \/ ControlClosed

WorldStep ==
  \/ \E s \in SessionIds : ChildExits(s)
  \/ \E c \in Conns : ChallengeExpires(c)
  \/ WorkerDies

-----------------------------------------------------------------------------
(* Any worker                                                              *)

\* The requests a worker can put together under the bounds.  A token it
\* names is one of an earlier request.
RequestsNumbered(i) ==
  [id : {i}, op : {"Authenticate"}, conn : Conns,
   cred : {k \in Credentials : k.kind \in CredKinds}, binding : Conns,
   answer : {a \in Answers : a.token < i}]
  \cup [id : {i}, op : SpawnOps, conn : Conns]
  \cup [id : {i}, op : {"Reap", "Signal"}, sid : SessionIds]
  \cup [id : {i}, op : {"Close"}, conn : Conns]
  \cup [id : {i}, op : {"Bad"}]

\* The monitor reads requests in order and never waits for its replies to be
\* read, so one message in flight already reaches all of the monitor's states.
WorkerSends ==
  /\ worker_alive
  /\ Len(to_monitor) + Len(to_worker) < MaxInFlight
  /\ next_req < MaxRequests
  /\ next_req' = next_req + 1
  /\ \E r \in RequestsNumbered(next_req + 1) : to_monitor' = Append(to_monitor, r)
  /\ UNCHANGED <<monitor_vars, worker_alive, to_worker>>

WorkerReceives ==
  /\ worker_alive
  /\ to_worker # <<>>
  /\ to_worker' = Tail(to_worker)
  /\ UNCHANGED <<monitor_vars, worker_alive, to_monitor, next_req>>

Next ==
  \/ MonitorStep
  \/ WorldStep
  \/ WorkerSends
  \/ WorkerReceives

Spec == Init /\ [][Next]_vars

-----------------------------------------------------------------------------
(* Properties                                                              *)

\* While the loop runs, the child store, the reverse index and the operating
\* system agree: every child that is not yet collected is in `sessions` and in
\* the list of exactly one connection, so Close always finds it
\* (monitor.rs:687-700), and no PAM guard outlives its child (monitor.rs:416-418).
Bookkeeping ==
  serving => \A s \in SessionIds :
    /\ s \in sessions <=> proc[s] \in {"running", "exited"}
    /\ s \in sessions <=> \E c \in Conns : s \in conn_sessions[c]
    /\ \A c, d \in Conns : s \in conn_sessions[c] \cap conn_sessions[d] => c = d
    /\ s \in pam_sessions => s \in sessions

\* All the factors that were asked of the user were shown on the connection: a
\* signed token, a JWT, or a password and, if Totp is on, a code too.
Earned(c, u) ==
  \/ <<u, "whole">> \in proven[c]
  \/ <<u, "password">> \in proven[c] /\ (Totp => <<u, "code">> \in proven[c])

\* A session runs as a user (a) all of whose factors were shown on the SAME
\* connection, since the connection was last closed, and (b) whom the policy
\* permits, whatever requests the worker sends and in whatever order
\* (monitor.rs:406 "identity is monitor-owned", totp.rs:156-157).
SessionEarned ==
  \A c \in Conns : \A s \in conn_sessions[c] :
    Earned(c, uid[s]) /\ permits(uid[s])

\* A parked challenge is good for one evaluation of a one-time code: a wrong,
\* stale or repeated answer consumes it (transport.rs:56-58).
OneGuess == \A t \in RequestIds : guesses[t] <= 1

\* A session id is never handed out again, and the session it names never
\* changes its user or comes back once collected: a late Reap or Signal cannot
\* reach another connection's session (monitor.rs:725-731).
SessionIdNeverReused ==
  [][\A s \in SessionIds :
       /\ proc[s] # "none" => uid'[s] = uid[s]
       /\ proc[s] = "reaped" => proc'[s] = "reaped"]_vars
=============================================================================
