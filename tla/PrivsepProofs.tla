---------------------------- MODULE PrivsepProofs ----------------------------
(***************************************************************************)
(* The whole server.  For every number of connections, requests and        *)
(* sessions, every policy and mix of backends: the composition implements  *)
(* Monitor and Transport, so that what MonitorProofs and TransportProofs   *)
(* prove of each part holds of the running server; the queue of the        *)
(* monitor client's lock is exact whatever calls are dropped; and as long  *)
(* as no attempt outlives AUTH_DEADLINE, the worker and the monitor stay   *)
(* in step, which is what the promises of worker.rs rest on.               *)
(***************************************************************************)
EXTENDS PrivsepServer, SequenceTheorems, TLAPS

MP == INSTANCE MonitorProofs
TP == INSTANCE TransportProofs WITH Connections <- Conns

-----------------------------------------------------------------------------
(* The parts, as the server and as their proofs name them                  *)

\* M and MP are the same module under the same constants and variables.
LEMMA MonitorAgrees ==
  /\ M!Init <=> MP!Init
  /\ [M!Next]_M!vars <=> [MP!Next]_MP!vars
  /\ M!TypeOK <=> MP!TypeOK
  /\ (M!TypeOK)' <=> (MP!TypeOK)'
  /\ M!Bookkeeping <=> MP!Bookkeeping
  /\ M!SessionEarned <=> MP!SessionEarned
  /\ M!OneGuess <=> MP!OneGuess
BY DEF M!Init, MP!Init, M!Next, MP!Next, M!vars, MP!vars, M!TypeOK,
       MP!TypeOK, M!Bookkeeping, MP!Bookkeeping, M!SessionEarned,
       MP!SessionEarned, M!OneGuess, MP!OneGuess, M!NoChallenge,
       MP!NoChallenge, M!SessionIds, MP!SessionIds, M!RequestIds,
       MP!RequestIds, M!MonitorStep, MP!MonitorStep, M!WorldStep,
       MP!WorldStep, M!WorkerSends, MP!WorkerSends, M!WorkerReceives,
       MP!WorkerReceives, M!monitor_vars, MP!monitor_vars, M!socket_vars,
       MP!socket_vars, M!Proved, MP!Proved, M!ChallengeStates,
       MP!ChallengeStates, M!Requests, MP!Requests, M!Replies, MP!Replies,
       M!permits, MP!permits, M!Authenticate, MP!Authenticate, M!SpawnShell,
       MP!SpawnShell, M!SpawnExec, MP!SpawnExec, M!SpawnTransfer,
       MP!SpawnTransfer, M!SpawnTransferWrite, MP!SpawnTransferWrite,
       M!SpawnMkdir, MP!SpawnMkdir, M!Reap, MP!Reap, M!Close, MP!Close,
       M!Signal, MP!Signal, M!SkipBad, MP!SkipBad, M!ControlClosed,
       MP!ControlClosed, M!ChildExits, MP!ChildExits, M!ChallengeExpires,
       MP!ChallengeExpires, M!WorkerDies, MP!WorkerDies, M!RequestsNumbered,
       MP!RequestsNumbered, M!state_vars, MP!state_vars, M!os_vars,
       MP!os_vars, M!aux_vars, MP!aux_vars, M!AuthRequest, MP!AuthRequest,
       M!SpawnRequest, MP!SpawnRequest, M!SessionRequest, MP!SessionRequest,
       M!CloseRequest, MP!CloseRequest, M!BadRequest, MP!BadRequest,
       M!ReplyKinds, MP!ReplyKinds, M!Receives, MP!Receives, M!Take,
       MP!Take, M!verdict, MP!verdict, M!ProvenUser, MP!ProvenUser,
       M!Parked, MP!Parked, M!Reply, MP!Reply, M!Spawn, MP!Spawn, M!Forget,
       MP!Forget, M!ReapChildren, MP!ReapChildren, M!Credentials,
       MP!Credentials, M!Answers, MP!Answers, M!SpawnOps, MP!SpawnOps,
       M!NoAnswer, MP!NoAnswer, M!Resume, MP!Resume, M!NoResume,
       MP!NoResume, M!Deny, MP!Deny, M!dispatch, MP!dispatch, M!AfterTake,
       MP!AfterTake, M!Alloc, MP!Alloc, M!PamGuards, MP!PamGuards, M!NoCred,
       MP!NoCred, M!PasswordCred, MP!PasswordCred, M!TokenCred,
       MP!TokenCred, M!JwtCred, MP!JwtCred, M!PamSpawnOps, MP!PamSpawnOps,
       M!PlainSpawnOps, MP!PlainSpawnOps, M!first_supporting,
       MP!first_supporting, M!pubkey_authenticate, MP!pubkey_authenticate,
       M!pam_authenticate, MP!pam_authenticate, M!totp_authenticate,
       MP!totp_authenticate, M!oidc_authenticate, MP!oidc_authenticate,
       M!supports, MP!supports, M!build_registry, MP!build_registry,
       M!Allow, MP!Allow, M!totp_complete, MP!totp_complete, M!Challenge,
       MP!Challenge, M!secret_for, MP!secret_for, M!EmptyKey, MP!EmptyKey,
       M!Shown, MP!Shown, M!Factors, MP!Factors, M!Earned, MP!Earned

\* So are T and TP.
LEMMA TransportAgrees ==
  /\ T!TransportInit <=> TP!TransportInit
  /\ [T!TransportNext]_T!connection_vars <=> [TP!TransportNext]_TP!connection_vars
  /\ T!TransportTypeOK <=> TP!TransportTypeOK
  /\ T!SlotPerConnection <=> TP!SlotPerConnection
  /\ T!FailsBounded <=> TP!FailsBounded
BY DEF T!TransportInit, TP!TransportInit, T!TransportNext, TP!TransportNext,
       T!connection_vars, TP!connection_vars, T!TransportTypeOK,
       TP!TransportTypeOK, T!SlotPerConnection, TP!SlotPerConnection, T!FailsBounded,
       TP!FailsBounded, T!LimiterInit, TP!LimiterInit, T!Accept, TP!Accept,
       T!ConnEnds, TP!ConnEnds, T!Closed, TP!Closed, T!AcceptRequest,
       TP!AcceptRequest, T!Gate, TP!Gate, T!StartAuth, TP!StartAuth,
       T!Denied, TP!Denied, T!Challenged, TP!Challenged, T!Allowed,
       TP!Allowed, T!Served, TP!Served, T!Ages, TP!Ages, T!limiter_vars,
       TP!limiter_vars, T!LimiterTypeOK, TP!LimiterTypeOK, T!PCs, TP!PCs,
       T!EntryConns, TP!EntryConns, T!Attempts, TP!Attempts, T!Admit,
       TP!Admit, T!Refuse, TP!Refuse, T!DropGuard, TP!DropGuard, T!Streams,
       TP!Streams, T!RecordFailure, TP!RecordFailure, T!RecordSuccess,
       TP!RecordSuccess, T!EntryAges, TP!EntryAges, T!Retained, TP!Retained,
       T!EntryFails, TP!EntryFails, T!Cardinality, TP!Cardinality

LEMMA MonitorTypeStep ==
  ASSUME M!TypeOK, [M!Next]_M!vars
  PROVE  (M!TypeOK)'
<1>1. MP!TypeOK /\ [MP!Next]_MP!vars => (MP!TypeOK)'
  BY PartsAssumption, MP!TypeStep
<1> QED
  BY <1>1, MonitorAgrees

\* What MonitorProofs shows of every behaviour of M.
LEMMA MonitorKeeps ==
  M!Spec => [](M!TypeOK /\ M!Bookkeeping /\ M!SessionEarned /\ M!OneGuess)
<1>1. MP!Spec => []MP!TypeOK
  BY PartsAssumption, MP!MonitorTyped
<1>2. MP!Spec => []MP!Bookkeeping
  BY PartsAssumption, MP!BookkeepingExact
<1>3. MP!Spec => []MP!SessionEarned
  BY PartsAssumption, MP!SessionsEarned
<1>4. MP!Spec => []MP!OneGuess
  BY PartsAssumption, MP!OneGuessHolds
<1> QED
  BY <1>1, <1>2, <1>3, <1>4, MonitorAgrees, PTL DEF M!Spec, MP!Spec

\* What TransportProofs shows of every behaviour of T.
LEMMA TransportKeeps ==
  T!TransportSpec => [](T!TransportTypeOK /\ T!SlotPerConnection /\ T!FailsBounded)
<1>1. TP!TransportSpec => []TP!TransportTypeOK
  BY PartsAssumption, TP!TransportTyped DEF IsFiniteSet, TP!IsFiniteSet
<1>2. TP!TransportSpec => []TP!SlotPerConnection
  BY PartsAssumption, TP!SlotPerConnectionHolds DEF IsFiniteSet, TP!IsFiniteSet
<1>3. TP!TransportSpec => []TP!FailsBounded
  BY PartsAssumption, TP!FailsBoundedHolds DEF IsFiniteSet, TP!IsFiniteSet
<1> QED
  BY <1>1, <1>2, <1>3, TransportAgrees, PTL DEF T!TransportSpec, TP!TransportSpec

-----------------------------------------------------------------------------
(* The accept path                                                         *)

\* What leaves the accept path's variables alone leaves T's alone.
LEMMA TransportIdle ==
  ASSUME UNCHANGED transport_vars
  PROVE  UNCHANGED T!connection_vars
BY DEF transport_vars, T!connection_vars, T!limiter_vars

LEMMA TransportStep ==
  ASSUME Next
  PROVE  [T!TransportNext]_T!connection_vars
<1>1. ASSUME NEW c \in Conns, Accept(c) \/ ConnEnds(c) \/ ReceiveClose(c)
      PROVE  T!TransportNext
  BY <1>1 DEF Accept, ConnEnds, ReceiveClose, T!TransportNext
<1>2. ASSUME NEW t \in Tasks, NEW c \in Conns, AcceptRequest(t, c)
      PROVE  T!TransportNext
  BY <1>2 DEF AcceptRequest, T!TransportNext
<1>3. ASSUME NEW t \in Tasks, Gate(t) \/ StartAuth(t) \/ FloorOver(t) \/ Deadline(t)
      PROVE  T!TransportNext
  BY <1>3 DEF Gate, StartAuth, FloorOver, Deadline, T!TransportNext
<1>4. ASSUME NEW t \in Tasks, ReceiveAuth(t)
      PROVE  [T!TransportNext]_T!connection_vars
  BY <1>4, TransportIdle DEF ReceiveAuth, T!TransportNext
<1>5. ASSUME NEW t \in Tasks,
             Respond(t) \/ OpenChannel(t) \/ ReceiveSpawn(t) \/ PumpFails(t) \/ ReceiveReap(t)
      PROVE  [T!TransportNext]_T!connection_vars
  <2>1. UNCHANGED transport_vars \/ T!Served(t)
    BY <1>5 DEF Respond, OpenChannel, ReceiveSpawn, PumpFails, ReceiveReap, Return
  <2> QED
    BY <2>1, TransportIdle DEF T!TransportNext
<1>6. ASSUME NEW t \in Tasks,
             SendAuth(t) \/ SendSpawn(t) \/ ForwardSignal(t) \/ SendSession(t)
               \/ ReceiveSignal(t) \/ PumpEnds(t)
      PROVE  UNCHANGED T!connection_vars
  <2>1. UNCHANGED transport_vars
    BY <1>6 DEF SendAuth, SendSpawn, ForwardSignal, SendSession, ReceiveSignal, PumpEnds, Send
  <2> QED
    BY <2>1, TransportIdle
<1>7. ASSUME NEW c \in Conns, SendClose(c)
      PROVE  UNCHANGED T!connection_vars
  <2>1. UNCHANGED transport_vars
    BY <1>7 DEF SendClose, Send
  <2> QED
    BY <2>1, TransportIdle
<1>8. ASSUME NEW ip \in Ips, Ages(ip)
      PROVE  T!TransportNext
  BY <1>8 DEF Ages, T!TransportNext
<1>9. CASE (M!MonitorStep \/ M!WorldStep) /\ UNCHANGED <<transport_vars, rpc_vars, task_vars>>
  BY <1>9, TransportIdle
<1> QED
  BY <1>1, <1>2, <1>3, <1>4, <1>5, <1>6, <1>7, <1>8, <1>9
     DEF Next, WorkerStep, ClientStep, TaskStep, CloseStep

\* The worker drives the accept path as Transport says: whatever its backend
\* does with the monitor, a connection or a request only ever takes the steps
\* of transport.rs.
THEOREM ServerRefinesTransport == Spec => RefinesTransport
<1>1. Init => T!TransportInit
  BY DEF Init
<1>2. [Next]_vars => [T!TransportNext]_T!connection_vars
  BY TransportStep, TransportIdle DEF vars
<1> QED
  BY <1>1, <1>2, PTL DEF Spec, RefinesTransport, T!TransportSpec

\* So the limiter's count stays exact and failures stay bounded in the server.
THEOREM ServerKeepsTransport ==
  Spec => [](T!TransportTypeOK /\ T!SlotPerConnection /\ T!FailsBounded)
BY ServerRefinesTransport, TransportKeeps, PTL DEF RefinesTransport

-----------------------------------------------------------------------------
(* The monitor's end of the socket                                         *)

\* The monitor answers the request at the head of the socket with m.
Answers(m) ==
  LET r == Head(to_monitor)
  IN /\ serving
     /\ to_monitor # <<>>
     /\ to_monitor' = Tail(to_monitor)
     /\ to_worker' = Append(to_worker, m)
     /\ m.id = r.id
     /\ m.kind = "Allow" => m.id \in granted'
     /\ m.kind = "Spawned" => /\ next_session < MaxSession
                              /\ m.arg = next_session + 1
                              /\ next_session' = next_session + 1
                              /\ conn_sessions' = [conn_sessions EXCEPT ![r.conn] = @ \cup {m.arg}]
     /\ r.op = "Reap" => \/ proc' = [s \in M!SessionIds |->
                                       IF s \in {r.sid} THEN "reaped" ELSE proc[s]]
                         \/ r.sid \notin sessions /\ proc' = proc

\* It takes a request it cannot decode off the socket and answers nothing.
Skips ==
  /\ to_monitor # <<>>
  /\ to_monitor' = Tail(to_monitor)
  /\ to_worker' = to_worker

\* Every step of the monitor or of the world answers one request, skips one or
\* leaves the socket alone; verdicts are never taken back.
LEMMA MonitorAnswers ==
  ASSUME M!MonitorStep \/ M!WorldStep
  PROVE  /\ next_req' = next_req
         /\ granted \subseteq granted'
         /\ worker_alive' => worker_alive
         /\ \/ UNCHANGED <<to_monitor, to_worker>>
            \/ Skips
            \/ \E m : Answers(m)
<1> DEFINE Goal == /\ next_req' = next_req
                   /\ granted \subseteq granted'
                   /\ worker_alive' => worker_alive
                   /\ \/ UNCHANGED <<to_monitor, to_worker>>
                      \/ Skips
                      \/ \E m : Answers(m)
           r == Head(to_monitor)
<1>1. CASE M!Authenticate
  <2> DEFINE v == M!verdict(r.cred, r.binding, M!Take(r.conn, r.answer))
             m == [id |-> r.id, kind |-> v.kind,
                   arg |-> IF v.kind = "Challenge" THEN r.id ELSE 0, fds |-> 0]
  <2>1. v.kind # "Spawned"
    BY DEF M!verdict, M!dispatch, M!Deny, M!Allow, M!Challenge, M!pubkey_authenticate,
           M!pam_authenticate, M!oidc_authenticate, M!totp_authenticate, M!totp_complete
  <2>2. /\ serving /\ to_monitor # <<>> /\ r.op = "Authenticate"
        /\ to_monitor' = Tail(to_monitor)
        /\ to_worker' = Append(to_worker, m)
        /\ granted' = IF v.kind = "Allow" THEN granted \cup {r.id} ELSE granted
        /\ UNCHANGED <<worker_alive, next_req>>
    BY <1>1 DEF M!Authenticate, M!Receives, M!Reply
  <2> HIDE DEF v
  <2>3. Answers(m)
    BY <2>1, <2>2 DEF Answers
  <2> QED
    BY <2>2, <2>3
<1>2. ASSUME NEW op, NEW fds, M!Spawn(op, fds), op # "Reap" PROVE Goal
  <2> DEFINE m1 == [id |-> r.id, kind |-> "Spawned", arg |-> next_session + 1, fds |-> fds]
             m2 == [id |-> r.id, kind |-> "Failed", arg |-> 0, fds |-> 0]
  <2>1. /\ serving /\ to_monitor # <<>> /\ r.op # "Reap"
        /\ to_monitor' = Tail(to_monitor)
        /\ UNCHANGED <<granted, worker_alive, next_req>>
    BY <1>2 DEF M!Spawn, M!Receives, M!aux_vars
  <2>2. \/ /\ next_session < MaxSession
           /\ next_session' = next_session + 1
           /\ conn_sessions' = [conn_sessions EXCEPT ![r.conn] = @ \cup {next_session + 1}]
           /\ to_worker' = Append(to_worker, m1)
        \/ to_worker' = Append(to_worker, m2)
    BY <1>2 DEF M!Spawn, M!Alloc, M!Reply
  <2>3. Answers(m1) \/ Answers(m2)
    BY <2>1, <2>2 DEF Answers
  <2> QED
    BY <2>1, <2>3
<1>3. CASE M!Reap
  <2> DEFINE m1 == [id |-> r.id, kind |-> "Exited", arg |-> r.sid, fds |-> 0]
             m2 == [id |-> r.id, kind |-> "Failed", arg |-> 0, fds |-> 0]
  <2>1. /\ serving /\ to_monitor # <<>>
        /\ to_monitor' = Tail(to_monitor)
        /\ UNCHANGED <<granted, worker_alive, next_req>>
    BY <1>3 DEF M!Reap, M!Receives, M!aux_vars
  <2>2. \/ /\ proc' = [s \in M!SessionIds |-> IF s \in {r.sid} THEN "reaped" ELSE proc[s]]
           /\ to_worker' = Append(to_worker, m1)
        \/ /\ r.sid \notin sessions /\ proc' = proc
           /\ to_worker' = Append(to_worker, m2)
    BY <1>3 DEF M!Reap, M!Reply, M!ReapChildren
  <2>3. Answers(m1) \/ Answers(m2)
    BY <2>1, <2>2 DEF Answers
  <2> QED
    BY <2>1, <2>3
<1>4. CASE M!Close \/ M!Signal
  <2> DEFINE m == [id |-> r.id, kind |-> "Closed", arg |-> 0, fds |-> 0]
  <2>1. /\ serving /\ to_monitor # <<>> /\ r.op # "Reap"
        /\ to_monitor' = Tail(to_monitor)
        /\ to_worker' = Append(to_worker, m)
        /\ UNCHANGED <<granted, worker_alive, next_req>>
    BY <1>4 DEF M!Close, M!Signal, M!Receives, M!Reply, M!monitor_vars, M!aux_vars
  <2>2. Answers(m)
    BY <2>1 DEF Answers
  <2> QED
    BY <2>1, <2>2
<1>5. CASE M!SkipBad
  BY <1>5 DEF M!SkipBad, M!Receives, M!monitor_vars, M!aux_vars, Skips
<1>6. CASE M!ControlClosed \/ M!WorldStep
  BY <1>6 DEF M!ControlClosed, M!WorldStep, M!ChildExits, M!ChallengeExpires, M!WorkerDies,
              M!socket_vars, M!aux_vars, M!monitor_vars
<1> QED
  BY <1>1, <1>2, <1>3, <1>4, <1>5, <1>6
     DEF M!MonitorStep, M!SpawnShell, M!SpawnExec, M!SpawnTransfer,
         M!SpawnTransferWrite, M!SpawnMkdir

-----------------------------------------------------------------------------
(* The worker's end of the socket                                          *)

\* The phases of a request task in each state of the accept path.
PhasesAt(p) ==
  CASE p = "auth"    -> {"auth", "deny", "challenge"}
    [] p = "serving" -> {"granted", "open", "spawn", "running", "signal", "reap"}
    [] p = "done"    -> {"none", "failed"}
    [] OTHER         -> {"none"}

\* What the worker needs in order to send only requests Monitor allows for,
\* deadline or not: tasks are where their accept path says, a channel about to
\* spawn has a spawning kind, every session id in flight is one, and the
\* socket never holds more messages than requests were sent.
TasksWired ==
  /\ \A t \in Tasks : phase[t] \in PhasesAt(pc[t])
  /\ \A t \in Tasks : phase[t] = "spawn" => kind[t] \in M!SpawnOps

SocketWired ==
  /\ \A i \in 1..Len(to_worker) :
       to_worker[i].kind = "Spawned" => to_worker[i].arg \in M!SessionIds
  /\ Len(to_monitor) + Len(to_worker) <= next_req

Wired == TasksWired /\ SocketWired

\* The types of what the tasks keep.
TaskTypes ==
  /\ call \in 0..MaxRequests
  /\ phase \in [Tasks -> Phases]
  /\ kind \in [Tasks -> M!SpawnOps \cup {"none"}]
  /\ sess \in [Tasks -> 0..MaxSession]
  /\ \A t \in Tasks : phase[t] \in {"running", "signal", "reap"} => sess[t] # 0
  /\ rid \in [Tasks -> 0..MaxRequests]

\* The steps that touch neither the monitor nor the socket.
LEMMA MonitorIdle ==
  ASSUME UNCHANGED <<monitor_vars, socket_vars>>
  PROVE  UNCHANGED M!vars
BY DEF monitor_vars, socket_vars, M!vars, M!monitor_vars, M!state_vars, M!os_vars,
       M!aux_vars, M!socket_vars

\* Sending is one of Monitor's WorkerSends, receiving its WorkerReceives.
LEMMA SendRefines ==
  ASSUME M!TypeOK, Wired, worker_alive,
         NEW x, NEW r \in M!RequestsNumbered(next_req + 1), Send(x, r)
  PROVE  M!WorkerSends
<1>1. Len(to_monitor) + Len(to_worker) < MaxInFlight
  <2>1. /\ Len(to_monitor) \in Nat /\ Len(to_worker) \in Nat /\ next_req \in Nat
        /\ MaxRequests \in Nat /\ MaxInFlight \in Nat /\ MaxInFlight >= MaxRequests
    BY PartsAssumption, ServerAssumption DEF M!TypeOK
  <2>2. Len(to_monitor) + Len(to_worker) <= next_req /\ next_req < MaxRequests
    BY DEF Wired, SocketWired, Send
  <2> QED
    BY <2>1, <2>2
<1>2. UNCHANGED <<M!monitor_vars, worker_alive, to_worker>>
  BY DEF Send, monitor_vars, M!monitor_vars, M!state_vars, M!os_vars, M!aux_vars
<1> QED
  BY <1>1, <1>2 DEF Send, M!WorkerSends

LEMMA ReceiveRefines ==
  ASSUME worker_alive, NEW x, Receive(x)
  PROVE  M!WorkerReceives
BY DEF Receive, M!WorkerReceives, monitor_vars, M!monitor_vars, M!state_vars, M!os_vars,
       M!aux_vars

\* What each caller sends is a request in Monitor's sense.
LEMMA RequestsAllowed ==
  ASSUME M!TypeOK, T!TransportTypeOK, TaskTypes, Wired
  PROVE  /\ \A t \in Tasks : phase[t] = "auth" =>
              AuthRequests(next_req + 1, on[t]) \subseteq M!RequestsNumbered(next_req + 1)
         /\ \A t \in Tasks : phase[t] = "spawn" =>
              [id |-> next_req + 1, op |-> kind[t], conn |-> on[t]]
                \in M!RequestsNumbered(next_req + 1)
         /\ \A t \in Tasks, op \in {"Reap", "Signal"} : phase[t] \in {"signal", "reap"} =>
              [id |-> next_req + 1, sid |-> sess[t], op |-> op]
                \in M!RequestsNumbered(next_req + 1)
         /\ \A c \in Conns :
              [id |-> next_req + 1, op |-> "Close", conn |-> c]
                \in M!RequestsNumbered(next_req + 1)
<1>1. \A t \in Tasks : phase[t] # "none" => on[t] \in Conns
  BY DEF Wired, TasksWired, PhasesAt, T!TransportTypeOK, T!PCs
<1>2. \A t \in Tasks : phase[t] \in {"signal", "reap"} => sess[t] \in M!SessionIds
  BY PartsAssumption DEF TaskTypes, M!SessionIds
<1>3. \A t \in Tasks : phase[t] = "spawn" => kind[t] \in M!SpawnOps /\ on[t] \in Conns
  BY <1>1 DEF Wired, TasksWired
<1> QED
  BY <1>2, <1>3 DEF AuthRequests, M!RequestsNumbered

\* Every step of the server is a step of Monitor, or none.
LEMMA MonitorStepOf ==
  ASSUME M!TypeOK, T!TransportTypeOK, TaskTypes, Wired, [Next]_vars
  PROVE  [M!Next]_M!vars
<1>1. ASSUME worker_alive, NEW c \in Conns, Accept(c) \/ ConnEnds(c)
      PROVE  [M!Next]_M!vars
  BY <1>1, MonitorIdle DEF Accept, ConnEnds
<1>2. ASSUME worker_alive, NEW t \in Tasks,
             \/ \E c \in Conns : AcceptRequest(t, c)
             \/ Gate(t) \/ StartAuth(t) \/ FloorOver(t) \/ Deadline(t)
             \/ Respond(t) \/ OpenChannel(t) \/ ForwardSignal(t) \/ PumpEnds(t)
             \/ PumpFails(t)
      PROVE  [M!Next]_M!vars
  <2>1. UNCHANGED <<monitor_vars, socket_vars>>
    BY <1>2 DEF AcceptRequest, Gate, StartAuth, FloorOver, Deadline, Respond, OpenChannel,
                ForwardSignal, PumpEnds, PumpFails
  <2> QED
    BY <2>1, MonitorIdle
<1>3. ASSUME worker_alive, NEW t \in Tasks,
             \/ ReceiveAuth(t) \/ ReceiveSpawn(t) \/ ReceiveSignal(t) \/ ReceiveReap(t)
      PROVE  M!Next
  <2>1. Receive(t)
    BY <1>3 DEF ReceiveAuth, ReceiveSpawn, ReceiveSignal, ReceiveReap
  <2> QED
    BY <1>3, <2>1, ReceiveRefines DEF M!Next
<1>4. ASSUME worker_alive, NEW t \in Tasks, SendAuth(t)
      PROVE  M!Next
  BY <1>4, RequestsAllowed, SendRefines DEF SendAuth, M!Next
<1>5. ASSUME worker_alive, NEW t \in Tasks, SendSpawn(t)
      PROVE  M!Next
  BY <1>5, RequestsAllowed, SendRefines DEF SendSpawn, M!Next
<1>6. ASSUME worker_alive, NEW t \in Tasks, SendSession(t)
      PROVE  M!Next
  <2> DEFINE op == IF phase[t] = "reap" THEN "Reap" ELSE "Signal"
             r == [id |-> next_req + 1, sid |-> sess[t], op |-> op]
  <2>1. Send(t, r) /\ phase[t] \in {"signal", "reap"}
    BY <1>6 DEF SendSession
  <2>2. r \in M!RequestsNumbered(next_req + 1)
    BY <2>1, RequestsAllowed
  <2> QED
    BY <1>6, <2>1, <2>2, SendRefines DEF M!Next
<1>7. ASSUME worker_alive, NEW c \in Conns, SendClose(c) \/ ReceiveClose(c)
      PROVE  M!Next
  BY <1>7, RequestsAllowed, SendRefines, ReceiveRefines DEF SendClose, ReceiveClose, M!Next
<1>8. ASSUME NEW ip \in Ips, Ages(ip)
      PROVE  [M!Next]_M!vars
  BY <1>8, MonitorIdle DEF Ages
<1>9. CASE (M!MonitorStep \/ M!WorldStep) /\ UNCHANGED <<transport_vars, rpc_vars, task_vars>>
  BY <1>9 DEF M!Next
<1>10. CASE UNCHANGED vars
  BY <1>10, MonitorIdle DEF vars
<1> QED
  BY <1>1, <1>2, <1>3, <1>4, <1>5, <1>6, <1>7, <1>8, <1>9, <1>10
     DEF Next, WorkerStep, ClientStep, TaskStep, CloseStep

\* Whatever moves in the socket, the ids in flight stay ids and the requests
\* sent stay ahead of the messages held.
LEMMA SocketWiredStep ==
  ASSUME M!TypeOK, SocketWired, Next
  PROVE  SocketWired'
<1>0. /\ to_monitor \in Seq(M!Requests) /\ to_worker \in Seq(M!Replies)
      /\ Len(to_monitor) \in Nat /\ Len(to_worker) \in Nat /\ next_req \in Nat
      /\ next_session \in Nat
  BY DEF M!TypeOK
<1>1. ASSUME NEW x, NEW r, Send(x, r)
      PROVE  SocketWired'
  <2>1. Len(to_monitor') = Len(to_monitor) + 1 /\ next_req' = next_req + 1
        /\ to_worker' = to_worker
    BY <1>0, <1>1 DEF Send
  <2> QED
    BY <1>0, <2>1 DEF SocketWired
<1>2. ASSUME NEW x, Receive(x)
      PROVE  SocketWired'
  <2>1. /\ to_worker # <<>> /\ to_worker' = Tail(to_worker)
        /\ UNCHANGED <<to_monitor, next_req>>
    BY <1>2 DEF Receive
  <2>2. /\ Len(to_worker') = Len(to_worker) - 1
        /\ \A i \in 1..Len(to_worker') : /\ i + 1 \in 1..Len(to_worker)
                                          /\ to_worker'[i] = to_worker[i + 1]
    BY <1>0, <2>1
  <2> QED
    BY <1>0, <2>1, <2>2 DEF SocketWired
<1>3. CASE M!MonitorStep \/ M!WorldStep
  <2>1. CASE Skips /\ next_req' = next_req
    <3>1. Len(to_monitor') = Len(to_monitor) - 1 /\ to_worker' = to_worker
      BY <1>0, <2>1 DEF Skips
    <3> QED
      BY <1>0, <2>1, <3>1 DEF SocketWired
  <2>2. ASSUME NEW m, Answers(m), next_req' = next_req
        PROVE  SocketWired'
    <3>1. /\ Len(to_monitor') = Len(to_monitor) - 1
          /\ to_worker' = Append(to_worker, m)
      BY <1>0, <2>2 DEF Answers
    <3>2. m.kind = "Spawned" => m.arg \in M!SessionIds
      BY <1>0, <2>2, PartsAssumption DEF Answers, M!SessionIds
    <3>3. /\ Len(to_worker') = Len(to_worker) + 1
          /\ \A i \in 1..Len(to_worker') :
               \/ i \in 1..Len(to_worker) /\ to_worker'[i] = to_worker[i]
               \/ to_worker'[i] = m
      BY <1>0, <3>1
    <3> QED
      BY <1>0, <2>2, <3>1, <3>2, <3>3 DEF SocketWired
  <2>3. CASE UNCHANGED <<to_monitor, to_worker, next_req>>
    BY <2>3 DEF SocketWired
  <2> QED
    BY <1>3, <2>1, <2>2, <2>3, MonitorAnswers
<1>4. ASSUME NEW t \in Tasks, TaskStep(t) PROVE SocketWired'
  <2>1. \/ UNCHANGED socket_vars
        \/ \E x, r : Send(x, r)
        \/ Receive(t)
    BY <1>4 DEF TaskStep, Gate, StartAuth, FloorOver, Deadline, Respond, SendAuth, SendSpawn,
                SendSession, ReceiveAuth, ReceiveSpawn, ReceiveSignal, ReceiveReap
  <2> QED
    BY <1>1, <1>2, <2>1 DEF socket_vars, SocketWired
<1>5. ASSUME NEW c \in Conns, CloseStep(c) PROVE SocketWired'
  BY <1>1, <1>2, <1>5 DEF CloseStep, SendClose, ReceiveClose
<1>6. CASE ClientStep \/ \E ip \in Ips : Ages(ip)
  <2>1. UNCHANGED socket_vars
    BY <1>6 DEF ClientStep, Accept, ConnEnds, AcceptRequest, OpenChannel, ForwardSignal,
                PumpEnds, PumpFails, Ages
  <2> QED
    BY <2>1 DEF socket_vars, SocketWired
<1> QED
  BY <1>3, <1>4, <1>5, <1>6 DEF Next, WorkerStep

\* A step that changes no task's place and no channel's kind.
LEMMA TasksStable ==
  ASSUME TaskTypes, TasksWired, UNCHANGED <<phase, kind, sess, pc>>,
         call' \in 0..MaxRequests, rid' \in [Tasks -> 0..MaxRequests]
  PROVE  TaskTypes' /\ TasksWired'
BY DEF TaskTypes, TasksWired

\* A step that moves one task: the accept path and the phase agree again.
LEMMA TaskMoves ==
  ASSUME TaskTypes, TasksWired, T!TransportTypeOK, NEW t \in Tasks,
         NEW p \in Phases, NEW q \in T!PCs, p \in PhasesAt(q), p # "spawn",
         phase' = [phase EXCEPT ![t] = p], pc' = [pc EXCEPT ![t] = q],
         UNCHANGED <<kind, sess, rid>>, call' \in {0, call},
         p \in {"running", "signal", "reap"} => sess[t] # 0
  PROVE  TaskTypes' /\ TasksWired'
BY PartsAssumption DEF TaskTypes, TasksWired, T!TransportTypeOK

\* The same when the accept path stays where it is.
LEMMA TaskTurns ==
  ASSUME TaskTypes, TasksWired, T!TransportTypeOK, NEW t \in Tasks,
         NEW p \in Phases, p \in PhasesAt(pc[t]), p # "spawn",
         phase' = [phase EXCEPT ![t] = p], pc' = pc,
         UNCHANGED <<kind, sess, rid>>, call' \in {0, call},
         p \in {"running", "signal", "reap"} => sess[t] # 0
  PROVE  TaskTypes' /\ TasksWired'
BY PartsAssumption DEF TaskTypes, TasksWired, T!TransportTypeOK

\* Phases and the accept path agree after every step, and every session a task
\* takes over has an id.
LEMMA TasksStep ==
  ASSUME M!TypeOK, T!TransportTypeOK, TaskTypes, Wired, Next
  PROVE  TaskTypes' /\ TasksWired'
<1>0. /\ TasksWired /\ SocketWired
      /\ call \in 0..MaxRequests /\ rid \in [Tasks -> 0..MaxRequests]
      /\ next_req \in Nat /\ MaxRequests \in Nat
      /\ \A t \in Tasks : phase[t] \in PhasesAt(pc[t])
      /\ \A t \in Tasks : phase[t] \in {"running", "signal", "reap"} => sess[t] # 0
  BY PartsAssumption DEF TaskTypes, Wired, TasksWired, M!TypeOK
<1>1. ASSUME NEW x, NEW r, Send(x, r)
      PROVE  call' \in 0..MaxRequests /\ next_req + 1 \in 0..MaxRequests
             /\ UNCHANGED pc
  BY <1>0, <1>1 DEF Send, transport_vars
<1>2. ASSUME NEW c \in Conns, Accept(c) \/ ConnEnds(c) \/ SendClose(c) \/ ReceiveClose(c)
      PROVE  TaskTypes' /\ TasksWired'
  <2>1. UNCHANGED <<phase, kind, sess, rid, pc>>
    BY <1>2 DEF Accept, ConnEnds, SendClose, ReceiveClose, task_vars, Send, transport_vars,
                T!Accept, T!ConnEnds, T!Closed
  <2>2. call' \in 0..MaxRequests
    BY <1>0, <1>1, <1>2 DEF Accept, ConnEnds, SendClose, ReceiveClose, rpc_vars, Receive
  <2> QED
    BY <1>0, <2>1, <2>2, TasksStable
<1>3. ASSUME NEW t \in Tasks,
             \/ \E c \in Conns : AcceptRequest(t, c)
             \/ Gate(t)
      PROVE  TaskTypes' /\ TasksWired'
  <2>1. PICK q \in {"accepted", "backoff", "done"} : pc' = [pc EXCEPT ![t] = q]
    BY <1>3 DEF AcceptRequest, Gate, T!AcceptRequest, T!Gate
  <2>2. UNCHANGED <<phase, kind, sess, rid, call>> /\ pc[t] \in {"idle", "accepted"}
    BY <1>3 DEF AcceptRequest, Gate, T!AcceptRequest, T!Gate, task_vars, rpc_vars
  <2>3. \A u \in Tasks : phase'[u] \in PhasesAt(pc'[u])
    BY <1>0, <2>1, <2>2 DEF PhasesAt, T!TransportTypeOK
  <2> QED
    BY <1>0, <2>2, <2>3 DEF TaskTypes, TasksWired
<1>4. ASSUME NEW t \in Tasks, StartAuth(t)
      PROVE  TaskTypes' /\ TasksWired'
  BY <1>0, <1>4, TaskMoves DEF StartAuth, T!StartAuth, Goto, PhasesAt, Phases, T!PCs
<1>5. ASSUME NEW t \in Tasks, SendAuth(t)
      PROVE  TaskTypes' /\ TasksWired'
  <2>1. rid' = [rid EXCEPT ![t] = next_req + 1] /\ UNCHANGED <<phase, kind, sess>>
    BY <1>5 DEF SendAuth
  <2>2. call' \in 0..MaxRequests /\ next_req + 1 \in 0..MaxRequests /\ UNCHANGED pc
    BY <1>1, <1>5 DEF SendAuth
  <2> QED
    BY <1>0, <2>1, <2>2, TasksStable
<1>6. ASSUME NEW t \in Tasks, ReceiveAuth(t)
      PROVE  TaskTypes' /\ TasksWired'
  <2>1. phase[t] = "auth" /\ call' = 0 /\ UNCHANGED <<kind, sess, rid>>
    BY <1>6 DEF ReceiveAuth, Receive
  <2>2. pc[t] = "auth"
    BY <1>0, <2>1 DEF PhasesAt
  <2>3. CASE T!Allowed(t) /\ Goto(t, "granted")
    BY <1>0, <2>1, <2>3, TaskMoves DEF T!Allowed, Goto, PhasesAt, Phases, T!PCs
  <2>4. CASE Goto(t, "challenge") /\ UNCHANGED transport_vars
    BY <1>0, <2>1, <2>2, <2>4, TaskTurns DEF Goto, PhasesAt, Phases, transport_vars
  <2>5. CASE Goto(t, "deny") /\ UNCHANGED transport_vars
    BY <1>0, <2>1, <2>2, <2>5, TaskTurns DEF Goto, PhasesAt, Phases, transport_vars
  <2> QED
    BY <1>6, <2>3, <2>4, <2>5 DEF ReceiveAuth
<1>7. ASSUME NEW t \in Tasks, FloorOver(t) \/ Deadline(t)
      PROVE  TaskTypes' /\ TasksWired'
  <2>1. /\ pc' = [pc EXCEPT ![t] = "done"] /\ phase' = [phase EXCEPT ![t] = "none"]
        /\ UNCHANGED <<kind, sess, rid>> /\ call' \in {0, call}
    BY <1>7 DEF FloorOver, Deadline, Goto, T!Denied, T!Challenged, Abandon, rpc_vars
  <2> QED
    BY <1>0, <2>1, TaskMoves DEF PhasesAt, Phases, T!PCs
<1>8. ASSUME NEW t \in Tasks, Return(t), UNCHANGED <<kind, sess, rid>>, call' \in {0, call}
      PROVE  TaskTypes' /\ TasksWired'
  BY <1>0, <1>8, TaskMoves DEF Return, T!Served, Goto, PhasesAt, Phases, T!PCs
<1>9. ASSUME NEW t \in Tasks, Respond(t)
      PROVE  TaskTypes' /\ TasksWired'
  <2>1. phase[t] = "granted" /\ UNCHANGED <<kind, sess, rid, call>>
    BY <1>9 DEF Respond, rpc_vars
  <2>2. pc[t] = "serving"
    BY <1>0, <2>1 DEF PhasesAt
  <2>3. CASE Goto(t, "open") /\ UNCHANGED transport_vars
    BY <1>0, <2>1, <2>2, <2>3, TaskTurns DEF Goto, PhasesAt, Phases, transport_vars
  <2> QED
    BY <1>8, <1>9, <2>1, <2>3 DEF Respond
<1>10. ASSUME NEW t \in Tasks, OpenChannel(t)
       PROVE  TaskTypes' /\ TasksWired'
  <2>1. phase[t] = "open" /\ UNCHANGED <<sess, rid, call>>
    BY <1>10 DEF OpenChannel
  <2>2. pc[t] = "serving"
    BY <1>0, <2>1 DEF PhasesAt
  <2>3. ASSUME NEW k \in SpawnKinds, Goto(t, "spawn"), kind' = [kind EXCEPT ![t] = k],
               UNCHANGED transport_vars
        PROVE  TaskTypes' /\ TasksWired'
    <3>1. k \in M!SpawnOps
      BY PartsAssumption
    <3>2. phase' = [phase EXCEPT ![t] = "spawn"] /\ pc' = pc
      BY <2>3 DEF Goto, transport_vars
    <3>3. TaskTypes'
      BY <2>1, <2>3, <3>1, <3>2 DEF TaskTypes, Phases
    <3>4. TasksWired'
      BY <1>0, <2>2, <2>3, <3>1, <3>2 DEF TaskTypes, TasksWired, PhasesAt
    <3> QED
      BY <3>3, <3>4
  <2> QED
    BY <1>8, <1>10, <2>1, <2>3 DEF OpenChannel
<1>11. ASSUME NEW t \in Tasks, SendSpawn(t) \/ SendSession(t)
       PROVE  TaskTypes' /\ TasksWired'
  <2>1. UNCHANGED <<phase, kind, sess, rid, pc>> /\ call' \in 0..MaxRequests
    BY <1>1, <1>11 DEF SendSpawn, SendSession, task_vars
  <2> QED
    BY <1>0, <2>1, TasksStable
<1>12. ASSUME NEW t \in Tasks, ReceiveSpawn(t)
       PROVE  TaskTypes' /\ TasksWired'
  <2> DEFINE m == Head(to_worker)
  <2>1. /\ phase[t] = "spawn" /\ call' = 0 /\ UNCHANGED <<kind, rid>>
        /\ to_worker # <<>>
    BY <1>12 DEF ReceiveSpawn, Receive
  <2>2. pc[t] = "serving"
    BY <1>0, <2>1 DEF PhasesAt
  <2>3. CASE /\ m.kind = "Spawned" /\ sess' = [sess EXCEPT ![t] = m.arg]
             /\ Goto(t, "running") /\ UNCHANGED transport_vars
    <3>1. 1 \in 1..Len(to_worker) /\ m = to_worker[1]
      BY <2>1 DEF M!TypeOK
    <3>2. m.arg \in 1..MaxSession
      BY <1>0, <2>3, <3>1 DEF SocketWired, M!SessionIds
    <3>3. phase' = [phase EXCEPT ![t] = "running"] /\ pc' = pc
      BY <2>3 DEF Goto, transport_vars
    <3>4. TaskTypes'
      BY <2>1, <2>3, <3>2, <3>3, PartsAssumption DEF TaskTypes, Phases
    <3>5. TasksWired'
      BY <1>0, <2>1, <2>2, <3>3 DEF TaskTypes, TasksWired, PhasesAt
    <3> QED
      BY <3>4, <3>5
  <2> QED
    BY <1>8, <1>12, <2>1, <2>3 DEF ReceiveSpawn
<1>13. ASSUME NEW t \in Tasks, ForwardSignal(t) \/ PumpEnds(t) \/ ReceiveSignal(t)
       PROVE  TaskTypes' /\ TasksWired'
  <2>1. /\ phase[t] \in {"running", "signal"} /\ call' \in {0, call}
        /\ UNCHANGED <<kind, sess, rid, pc>>
    BY <1>13 DEF ForwardSignal, PumpEnds, ReceiveSignal, Receive, transport_vars
  <2>2. PICK p \in {"running", "signal", "reap"} : phase' = [phase EXCEPT ![t] = p]
    BY <1>13 DEF ForwardSignal, PumpEnds, ReceiveSignal, Goto
  <2>3. p \in PhasesAt(pc[t]) /\ p \in Phases
    BY <1>0, <2>1 DEF PhasesAt, Phases
  <2> QED
    BY <1>0, <2>1, <2>2, <2>3, TaskTurns
<1>14. ASSUME NEW t \in Tasks, PumpFails(t) \/ ReceiveReap(t)
       PROVE  TaskTypes' /\ TasksWired'
  <2>1. CASE PumpFails(t)
    <3>1. /\ pc' = [pc EXCEPT ![t] = "done"] /\ phase' = [phase EXCEPT ![t] = "failed"]
          /\ UNCHANGED <<kind, sess, rid, call>>
      BY <2>1 DEF PumpFails, Goto, T!Served, rpc_vars
    <3> QED
      BY <1>0, <3>1, TaskMoves DEF PhasesAt, Phases, T!PCs
  <2>2. CASE ReceiveReap(t)
    BY <1>8, <2>2 DEF ReceiveReap, Receive
  <2> QED
    BY <1>14, <2>1, <2>2
<1>15. CASE \/ \E ip \in Ips : Ages(ip)
            \/ (M!MonitorStep \/ M!WorldStep) /\ UNCHANGED <<transport_vars, rpc_vars, task_vars>>
  <2>1. UNCHANGED <<phase, kind, sess, rid, pc, call>>
    BY <1>15 DEF Ages, T!Ages, transport_vars, rpc_vars, task_vars
  <2> QED
    BY <1>0, <2>1, TasksStable
<1> QED
  BY <1>2, <1>3, <1>4, <1>5, <1>6, <1>7, <1>9, <1>10, <1>11, <1>12, <1>13, <1>14, <1>15
     DEF Next, WorkerStep, ClientStep, TaskStep, CloseStep

\* The invariant that holds with and without the deadline.
Joined == M!TypeOK /\ TaskTypes /\ Wired

LEMMA JoinedHolds == Spec => []Joined
<1>1. Init => Joined
  BY PartsAssumption
     DEF Init, M!Init, T!TransportInit, Joined, M!TypeOK, TaskTypes, Wired, TasksWired, SocketWired,
         Phases, PhasesAt, M!Proved, M!ChallengeStates, M!SessionIds, M!RequestIds
<1>2. Joined /\ T!TransportTypeOK /\ [Next]_vars => Joined'
  <2> SUFFICES ASSUME Joined, T!TransportTypeOK, [Next]_vars PROVE Joined'
    OBVIOUS
  <2>1. (M!TypeOK)'
    BY MonitorStepOf, MonitorTypeStep DEF Joined
  <2>2. CASE Next
    BY <2>1, <2>2, TasksStep, SocketWiredStep DEF Joined, Wired
  <2>3. CASE UNCHANGED vars
    <3>1. UNCHANGED <<phase, kind, sess, rid, pc, call, to_monitor, to_worker, next_req>>
      BY <2>3 DEF vars, socket_vars, transport_vars, rpc_vars, task_vars
    <3> QED
      BY <2>1, <3>1 DEF Joined, TaskTypes, Wired, TasksWired, SocketWired
  <2> QED
    BY <2>2, <2>3
<1>3. Spec => []T!TransportTypeOK
  BY ServerKeepsTransport, PTL
<1> QED
  BY <1>1, <1>2, <1>3, PTL DEF Spec

\* The worker only ever sends what Monitor allows a worker to send, and takes
\* replies only off the head of the socket: the server is one of the behaviours
\* MonitorProofs is about.
THEOREM ServerRefinesMonitor == Spec => RefinesMonitor
<1>1. Init => M!Init
  BY DEF Init
<1>2. Joined /\ T!TransportTypeOK /\ [Next]_vars => [M!Next]_M!vars
  BY MonitorStepOf DEF Joined
<1>3. Spec => []T!TransportTypeOK
  BY ServerKeepsTransport, PTL
<1> QED
  BY <1>1, <1>2, <1>3, JoinedHolds, PTL DEF Spec, RefinesMonitor, M!Spec

\* In the running server too, deadline or not, the monitor's tables agree with
\* its children, every session was earned on its own connection, and a parked
\* challenge is good for one code.
THEOREM ServerKeepsMonitor ==
  Spec => [](M!TypeOK /\ M!Bookkeeping /\ M!SessionEarned /\ M!OneGuess)
BY ServerRefinesMonitor, MonitorKeeps, PTL DEF RefinesMonitor

-----------------------------------------------------------------------------
(* The lock of MonitorClient                                               *)

Calling == {"auth", "spawn", "signal", "reap"}

\* x is inside MonitorClient::call.
Waiting(x) == \/ x \in Conns /\ conn[x] = "closing"
              \/ x \in Tasks /\ phase[x] \in Calling

\* The queue holds callers, each once.  It is where a dropped call shows: the
\* deadline is the only way out of the queue other than a reply.
Queue ==
  /\ lockq \in Seq(Tasks \cup Conns)
  /\ \A i, j \in 1..Len(lockq) : lockq[i] = lockq[j] => i = j
  /\ \A i \in 1..Len(lockq) : Waiting(lockq[i])
  /\ \A x \in Tasks \cup Conns : Waiting(x) => \E i \in 1..Len(lockq) : lockq[i] = x

LEMMA QueueStable ==
  ASSUME Queue, lockq' = lockq,
         \A x \in Tasks \cup Conns : Waiting(x)' <=> Waiting(x)
  PROVE  Queue'
<1>1. \A i \in 1..Len(lockq) : lockq[i] \in Tasks \cup Conns
  BY DEF Queue
<1>2. \A i \in 1..Len(lockq) : Waiting(lockq[i])'
  BY <1>1 DEF Queue, Waiting
<1> QED
  BY <1>2 DEF Queue, Waiting

LEMMA QueueJoins ==
  ASSUME Queue, NEW x \in Tasks \cup Conns, lockq' = Append(lockq, x),
         ~Waiting(x), Waiting(x)',
         \A y \in (Tasks \cup Conns) \ {x} : Waiting(y)' <=> Waiting(y)
  PROVE  Queue'
<1>1. /\ lockq' \in Seq(Tasks \cup Conns) /\ Len(lockq') = Len(lockq) + 1 /\ Len(lockq) \in Nat
      /\ \A i \in 1..Len(lockq) : lockq'[i] = lockq[i]
      /\ lockq'[Len(lockq) + 1] = x
  BY DEF Queue
<1>2. \A i \in 1..Len(lockq) : lockq[i] \in Tasks \cup Conns /\ Waiting(lockq[i]) /\ lockq[i] # x
  BY DEF Queue
<1>3. \A i \in 1..Len(lockq') : i \in 1..Len(lockq) \/ i = Len(lockq) + 1
  BY <1>1
<1>4. \A i \in 1..Len(lockq') : (Waiting(lockq[i]))'
  BY <1>1, <1>2, <1>3 DEF Waiting
<1>5. \A i, j \in 1..Len(lockq') : lockq'[i] = lockq'[j] => i = j
  BY <1>1, <1>2, <1>3 DEF Queue
<1> QED
  BY <1>1, <1>4, <1>5 DEF Queue, Waiting

LEMMA QueueLeaves ==
  ASSUME Queue, lockq # <<>>, lockq' = Tail(lockq), NEW x, x = Head(lockq), ~Waiting(x)',
         \A y \in (Tasks \cup Conns) \ {x} : Waiting(y)' <=> Waiting(y)
  PROVE  Queue'
<1>1. /\ lockq' \in Seq(Tasks \cup Conns) /\ Len(lockq') = Len(lockq) - 1 /\ Len(lockq) \in Nat
      /\ \A i \in 1..Len(lockq') : i + 1 \in 1..Len(lockq) /\ lockq'[i] = lockq[i + 1]
      /\ x = lockq[1] /\ 1 \in 1..Len(lockq)
  BY DEF Queue
<1>2. \A i \in 1..Len(lockq) : lockq[i] \in Tasks \cup Conns /\ Waiting(lockq[i])
  BY DEF Queue
<1>3. \A i \in 1..Len(lockq') : lockq'[i] # x
  BY <1>1 DEF Queue
<1>4. \A i \in 1..Len(lockq') : (Waiting(lockq[i]))'
  BY <1>1, <1>2, <1>3 DEF Waiting
<1>5. \A i, j \in 1..Len(lockq') : lockq'[i] = lockq'[j] => i = j
  BY <1>1 DEF Queue
<1>6. ASSUME NEW y \in Tasks \cup Conns, Waiting(y)'
      PROVE  \E i \in 1..Len(lockq') : lockq'[i] = y
  <2>1. PICK i \in 1..Len(lockq) : lockq[i] = y
    BY <1>6 DEF Queue
  <2>2. i - 1 \in 1..Len(lockq') /\ lockq'[i - 1] = y
    BY <1>1, <1>6, <2>1
  <2> QED
    BY <2>2
<1> QED
  BY <1>1, <1>4, <1>5, <1>6 DEF Queue, Waiting

\* The members of q are different; y is one of them.
Once(q) == \A i, j \in 1..Len(q) : q[i] = q[j] => i = j
In(y, q) == \E i \in 1..Len(q) : q[i] = y

\* A queue without one of its members, or without somebody who is not in it.
LEMMA WithoutOne ==
  ASSUME NEW S, NEW q \in Seq(S), NEW x, Once(q)
  PROVE  /\ Without(q, x) \in Seq(S)
         /\ Once(Without(q, x))
         /\ \A y : In(y, Without(q, x)) <=> y # x /\ In(y, q)
<1> USE DEF Once, In
<1>1. CASE ~\E i \in 1..Len(q) : q[i] = x
  <2>1. Without(q, x) = q
    BY <1>1 DEF Without
  <2> QED
    BY <1>1, <2>1
<1>2. CASE \E i \in 1..Len(q) : q[i] = x
  <2> DEFINE l == Len(q)
             m == CHOOSE i \in 1..l : q[i] = x
             a == SubSeq(q, 1, m - 1)
             b == SubSeq(q, m + 1, l)
             w == a \o b
  <2>1. m \in 1..l /\ q[m] = x
    BY <1>2
  <2>2. Without(q, x) = w
    BY <1>2 DEF Without
  <2>3. l \in Nat /\ \A i \in 1..l : q[i] \in S
    BY LenProperties, ElementOfSeq
  <2>4. m \in Nat /\ m >= 1 /\ m <= l
    BY <2>1, <2>3
  <2> HIDE DEF m, l
  <2>5. a \in Seq(S) /\ Len(a) = m - 1 /\ \A i \in 1..(m - 1) : a[i] = q[i]
    <3>1. \A i \in 1..(m - 1) : q[i] \in S
      BY <2>3, <2>4
    <3>2. /\ a \in Seq(S) /\ Len(a) = IF 1 <= m - 1 THEN (m - 1) - 1 + 1 ELSE 0
          /\ \A i \in 1..((m - 1) - 1 + 1) : a[i] = q[1 + i - 1]
      BY <2>4, <3>1, SubSeqProperties
    <3>3. /\ (m - 1) - 1 + 1 = m - 1
          /\ (IF 1 <= m - 1 THEN (m - 1) - 1 + 1 ELSE 0) = m - 1
          /\ \A i \in 1..(m - 1) : 1 + i - 1 = i
      BY <2>4
    <3> HIDE DEF a
    <3>4. a \in Seq(S) /\ Len(a) = m - 1
      BY <3>2, <3>3
    <3>5. \A i \in 1..(m - 1) : a[i] = q[i]
      BY <3>2, <3>3
    <3> QED
      BY <3>4, <3>5
  <2>6. b \in Seq(S) /\ Len(b) = l - m /\ \A i \in 1..(l - m) : b[i] = q[i + m]
    <3>1. \A i \in (m + 1)..l : q[i] \in S
      BY <2>3, <2>4
    <3>2. /\ b \in Seq(S) /\ Len(b) = IF m + 1 <= l THEN l - (m + 1) + 1 ELSE 0
          /\ \A i \in 1..(l - (m + 1) + 1) : b[i] = q[(m + 1) + i - 1]
      BY <2>3, <2>4, <3>1, SubSeqProperties
    <3>3. /\ l - (m + 1) + 1 = l - m
          /\ (IF m + 1 <= l THEN l - (m + 1) + 1 ELSE 0) = l - m
          /\ \A i \in 1..(l - m) : (m + 1) + i - 1 = i + m
      BY <2>3, <2>4
    <3> HIDE DEF b
    <3>4. b \in Seq(S) /\ Len(b) = l - m
      BY <3>2, <3>3
    <3>5. \A i \in 1..(l - m) : b[i] = q[i + m]
      BY <3>2, <3>3
    <3> QED
      BY <3>4, <3>5
  <2> HIDE DEF a, b
  <2>7. /\ w \in Seq(S) /\ Len(w) = l - 1
        /\ \A i \in 1..(l - 1) : w[i] = IF i < m THEN q[i] ELSE q[i + 1]
    <3>1. /\ w \in Seq(S) /\ Len(w) = Len(a) + Len(b)
          /\ \A i \in 1..(Len(a) + Len(b)) : w[i] = IF i <= Len(a) THEN a[i] ELSE b[i - Len(a)]
      BY <2>5, <2>6, ConcatProperties
    <3> HIDE DEF w
    <3>2. Len(a) + Len(b) = l - 1
      BY <2>3, <2>4, <2>5, <2>6
    <3>3. ASSUME NEW i \in 1..(l - 1), i < m
          PROVE  w[i] = q[i]
      <4>1. i \in 1..(m - 1) /\ i <= Len(a)
        BY <2>3, <2>4, <2>5, <3>3
      <4> QED
        BY <2>5, <3>1, <3>2, <4>1
    <3>4. ASSUME NEW i \in 1..(l - 1), ~(i < m)
          PROVE  w[i] = q[i + 1]
      <4>1. i - (m - 1) \in 1..(l - m) /\ ~(i <= m - 1) /\ (i - (m - 1)) + m = i + 1
        BY <2>3, <2>4, <3>4
      <4>2. w[i] = b[i - (m - 1)]
        BY <2>5, <3>1, <3>2, <4>1
      <4> QED
        BY <2>6, <4>1, <4>2
    <3> QED
      BY <3>1, <3>2, <3>3, <3>4
  <2> HIDE DEF w
  <2>8. \A i, j \in 1..l : q[i] = q[j] => i = j
    BY DEF l
  <2>9. \A i, j \in 1..(l - 1) : w[i] = w[j] => i = j
    <3>1. TAKE i, j \in 1..(l - 1)
    <3> DEFINE p == IF i < m THEN i ELSE i + 1
               r == IF j < m THEN j ELSE j + 1
    <3>2. p \in 1..l /\ r \in 1..l /\ w[i] = q[p] /\ w[j] = q[r] /\ (p = r => i = j)
      BY <2>3, <2>4, <2>7
    <3> HIDE DEF p, r
    <3> QED
      BY <3>2, <2>8
  <2>10. \A i \in 1..(l - 1) : w[i] # x /\ \E j \in 1..l : q[j] = w[i]
    <3>1. TAKE i \in 1..(l - 1)
    <3> DEFINE p == IF i < m THEN i ELSE i + 1
    <3>2. p \in 1..l /\ w[i] = q[p] /\ p # m
      BY <2>3, <2>4, <2>7
    <3> HIDE DEF p
    <3> QED
      BY <3>2, <2>1, <2>8
  <2>11. ASSUME NEW j \in 1..l, q[j] # x
         PROVE  \E i \in 1..(l - 1) : w[i] = q[j]
    <3>1. j # m
      BY <2>1, <2>11
    <3> DEFINE i == IF j < m THEN j ELSE j - 1
    <3>2. i \in 1..(l - 1) /\ w[i] = q[j]
      BY <2>3, <2>4, <2>7, <3>1
    <3> QED
      BY <3>2
  <2>12. \A y : (\E i \in 1..(l - 1) : w[i] = y) <=> y # x /\ \E i \in 1..l : q[i] = y
    BY <2>10, <2>11
  <2>13. Without(q, x) \in Seq(S) /\ 1..Len(Without(q, x)) = 1..(l - 1)
    BY <2>2, <2>7
  <2> QED
    BY <2>2, <2>9, <2>12, <2>13, Zenon DEF l
<1> QED
  BY <1>1, <1>2

LEMMA QueueDrops ==
  ASSUME Queue, NEW x, lockq' = Without(lockq, x), ~Waiting(x)',
         \A y \in (Tasks \cup Conns) \ {x} : Waiting(y)' <=> Waiting(y)
  PROVE  Queue'
<1> DEFINE w == Without(lockq, x)
<1>1. /\ w \in Seq(Tasks \cup Conns)
      /\ \A i, j \in 1..Len(w) : w[i] = w[j] => i = j
      /\ \A y : (\E i \in 1..Len(w) : w[i] = y) <=> y # x /\ \E i \in 1..Len(lockq) : lockq[i] = y
  <2>1. /\ lockq \in Seq(Tasks \cup Conns)
        /\ \A i, j \in 1..Len(lockq) : lockq[i] = lockq[j] => i = j
    BY DEF Queue
  <2> DEFINE S == Tasks \cup Conns
             q == lockq
  <2>2. q \in Seq(S) /\ \A i, j \in 1..Len(q) : q[i] = q[j] => i = j
    BY <2>1
  <2> HIDE DEF S, q
  <2>3. Once(q)
    BY <2>2 DEF Once
  <2>4. /\ Without(q, x) \in Seq(S) /\ Once(Without(q, x))
        /\ \A y : In(y, Without(q, x)) <=> y # x /\ In(y, q)
    BY <2>2, <2>3, WithoutOne
  <2> QED
    BY <2>4, Zenon DEF S, q, Once, In
<1>2. lockq' = w
  OBVIOUS
<1> HIDE DEF w
<1>3. \A i \in 1..Len(lockq) : lockq[i] \in Tasks \cup Conns /\ Waiting(lockq[i])
  BY DEF Queue
<1>4. ASSUME NEW y, \E i \in 1..Len(w) : w[i] = y
      PROVE  Waiting(y)'
  <2>1. y # x /\ y \in Tasks \cup Conns /\ Waiting(y)
    BY <1>1, <1>3, <1>4
  <2> QED
    BY <2>1
<1>5. \A i \in 1..Len(lockq') : (Waiting(lockq[i]))'
  <2>1. \A i \in 1..Len(w) : \/ w[i] \in Conns /\ conn'[w[i]] = "closing"
                             \/ w[i] \in Tasks /\ phase'[w[i]] \in Calling
    BY <1>4 DEF Waiting, Calling
  <2> QED
    BY <1>2, <2>1 DEF Waiting, Calling
<1>6. ASSUME NEW y \in Tasks \cup Conns, Waiting(y)'
      PROVE  \E i \in 1..Len(w) : w[i] = y
  <2>1. y # x /\ Waiting(y)
    BY <1>6
  <2> QED
    BY <1>1, <2>1 DEF Queue
<1> QED
  BY <1>1, <1>2, <1>5, <1>6 DEF Queue, Waiting

\* One task moves, the others and the connections stay as they are.
LEMMA OthersWait ==
  ASSUME TaskTypes, NEW t \in Tasks, NEW p, phase' = [phase EXCEPT ![t] = p], conn' = conn
  PROVE  /\ \A y \in (Tasks \cup Conns) \ {t} : Waiting(y)' <=> Waiting(y)
         /\ Waiting(t)' <=> p \in Calling
BY ServerAssumption DEF TaskTypes, Waiting

\* A caller leaves the queue with its reply, or when the deadline drops its call.
LEMMA QueueStep ==
  ASSUME T!TransportTypeOK, TaskTypes, Wired, Queue, Next
  PROVE  Queue'
<1>0. \A t \in Tasks : phase[t] \in PhasesAt(pc[t])
  BY DEF Wired, TasksWired
<1>1. ASSUME NEW c \in Conns, Accept(c)
      PROVE  Queue'
  <2>1. conn[c] = "new" /\ UNCHANGED <<lockq, phase>>
    BY <1>1 DEF Accept, T!Accept, rpc_vars, task_vars
  <2>2. \A d \in Conns : conn[d] = "closing" <=> conn'[d] = "closing"
    BY <1>1, <2>1 DEF Accept, T!Accept, T!TransportTypeOK
  <2> QED
    BY <2>1, <2>2, QueueStable DEF Waiting
<1>2. ASSUME NEW c \in Conns, ConnEnds(c)
      PROVE  Queue'
  <2>1. /\ conn[c] = "open" /\ conn' = [conn EXCEPT ![c] = "closing"]
        /\ lockq' = Append(lockq, c) /\ phase' = phase
    BY <1>2 DEF ConnEnds, T!ConnEnds, Lock, task_vars
  <2>2. /\ ~Waiting(c) /\ Waiting(c)'
        /\ \A y \in (Tasks \cup Conns) \ {c} : Waiting(y)' <=> Waiting(y)
    BY <2>1, ServerAssumption DEF Waiting, T!TransportTypeOK
  <2> QED
    BY <2>1, <2>2, QueueJoins
<1>3. ASSUME NEW c \in Conns, SendClose(c)
      PROVE  Queue'
  BY <1>3, QueueStable DEF SendClose, Send, transport_vars, task_vars, Waiting
<1>4. ASSUME NEW c \in Conns, ReceiveClose(c)
      PROVE  Queue'
  <2>1. /\ lockq # <<>> /\ Head(lockq) = c /\ lockq' = Tail(lockq)
        /\ conn' = [conn EXCEPT ![c] = "closed"] /\ phase' = phase
    BY <1>4 DEF ReceiveClose, Receive, Holds, T!Closed, task_vars
  <2>2. ~Waiting(c)' /\ \A y \in (Tasks \cup Conns) \ {c} : Waiting(y)' <=> Waiting(y)
    BY <2>1, ServerAssumption DEF Waiting, T!TransportTypeOK
  <2> QED
    BY <2>1, <2>2, QueueLeaves
<1>5. ASSUME NEW t \in Tasks,
             \/ \E c \in Conns : AcceptRequest(t, c)
             \/ Gate(t) \/ SendAuth(t) \/ SendSpawn(t) \/ SendSession(t)
      PROVE  Queue'
  <2>1. UNCHANGED <<lockq, phase, conn>>
    BY <1>5 DEF AcceptRequest, Gate, SendAuth, SendSpawn, SendSession, Send, T!AcceptRequest,
                T!Gate, transport_vars, rpc_vars, task_vars
  <2> QED
    BY <2>1, QueueStable DEF Waiting
<1>6. ASSUME NEW t \in Tasks, NEW p \in Calling, phase[t] \notin Calling,
             phase' = [phase EXCEPT ![t] = p], conn' = conn, Lock(t)
      PROVE  Queue'
  <2>1. ~Waiting(t) /\ lockq' = Append(lockq, t)
    BY <1>6, ServerAssumption DEF Waiting, Lock
  <2>2. Waiting(t)' /\ \A y \in (Tasks \cup Conns) \ {t} : Waiting(y)' <=> Waiting(y)
    BY <1>6, <2>1, OthersWait
  <2> QED
    BY <2>1, <2>2, QueueJoins
<1>7. ASSUME NEW t \in Tasks, StartAuth(t)
      PROVE  Queue'
  <2>1. pc[t] = "backoff" /\ conn' = conn /\ Lock(t) /\ phase' = [phase EXCEPT ![t] = "auth"]
    BY <1>7 DEF StartAuth, T!StartAuth, Goto
  <2>2. phase[t] = "none"
    BY <1>0, <2>1 DEF PhasesAt
  <2> QED
    BY <1>6, <2>1, <2>2 DEF Calling
<1>8. ASSUME NEW t \in Tasks, ForwardSignal(t) \/ PumpEnds(t)
      PROVE  Queue'
  <2>1. phase[t] = "running" /\ conn' = conn /\ Lock(t)
    BY <1>8 DEF ForwardSignal, PumpEnds, transport_vars
  <2>2. PICK p \in {"signal", "reap"} : phase' = [phase EXCEPT ![t] = p]
    BY <1>8 DEF ForwardSignal, PumpEnds, Goto
  <2> QED
    BY <1>6, <2>1, <2>2 DEF Calling
<1>9. ASSUME NEW t \in Tasks, NEW p, p \notin Calling, phase[t] \notin Calling,
             phase' = [phase EXCEPT ![t] = p], conn' = conn, lockq' = lockq
      PROVE  Queue'
  <2>1. ~Waiting(t)
    BY <1>9, ServerAssumption DEF Waiting
  <2> QED
    BY <1>9, <2>1, OthersWait, QueueStable
<1>10. ASSUME NEW t \in Tasks, FloorOver(t)
       PROVE  Queue'
  <2>1. phase[t] \in {"deny", "challenge"} /\ conn' = conn /\ lockq' = lockq
        /\ phase' = [phase EXCEPT ![t] = "none"]
    BY <1>10 DEF FloorOver, T!Denied, T!Challenged, Goto, rpc_vars
  <2> QED
    BY <1>9, <2>1 DEF Calling
<1>11. ASSUME NEW t \in Tasks, Respond(t) \/ PumpFails(t)
       PROVE  Queue'
  <2>1. phase[t] \in {"granted", "running"} /\ conn' = conn /\ lockq' = lockq
    BY <1>11 DEF Respond, PumpFails, Return, T!Served, transport_vars, rpc_vars
  <2>2. PICK p \in {"open", "none", "failed"} : phase' = [phase EXCEPT ![t] = p]
    BY <1>11 DEF Respond, PumpFails, Return, Goto
  <2> QED
    BY <1>9, <2>1, <2>2 DEF Calling
<1>12. ASSUME NEW t \in Tasks, OpenChannel(t)
       PROVE  Queue'
  <2>1. phase[t] = "open" /\ conn' = conn
    BY <1>12 DEF OpenChannel, Return, T!Served, transport_vars
  <2>2. CASE Goto(t, "spawn") /\ Lock(t)
    BY <1>6, <2>1, <2>2 DEF Goto, Calling
  <2>3. CASE Return(t) /\ lockq' = lockq
    BY <1>9, <2>1, <2>3 DEF Return, Goto, Calling
  <2> QED
    BY <1>12, <2>2, <2>3 DEF OpenChannel
<1>13. ASSUME NEW t \in Tasks,
              ReceiveAuth(t) \/ ReceiveSpawn(t) \/ ReceiveSignal(t) \/ ReceiveReap(t)
       PROVE  Queue'
  <2>1. lockq # <<>> /\ Head(lockq) = t /\ lockq' = Tail(lockq)
    BY <1>13 DEF ReceiveAuth, ReceiveSpawn, ReceiveSignal, ReceiveReap, Receive, Holds
  <2>2. conn' = conn
    BY <1>13 DEF ReceiveAuth, ReceiveSpawn, ReceiveSignal, ReceiveReap, Return, T!Served,
                 T!Allowed, transport_vars
  <2>3. PICK p : p \notin Calling /\ phase' = [phase EXCEPT ![t] = p]
    BY <1>13 DEF ReceiveAuth, ReceiveSpawn, ReceiveSignal, ReceiveReap, Return, Goto, Calling
  <2> QED
    BY <2>1, <2>2, <2>3, OthersWait, QueueLeaves
<1>14. CASE \/ \E ip \in Ips : Ages(ip)
            \/ (M!MonitorStep \/ M!WorldStep) /\ UNCHANGED <<transport_vars, rpc_vars, task_vars>>
  <2>1. UNCHANGED <<lockq, phase, conn>>
    BY <1>14 DEF Ages, T!Ages, transport_vars, rpc_vars, task_vars
  <2> QED
    BY <2>1, QueueStable DEF Waiting
<1>15. ASSUME NEW t \in Tasks, Deadline(t)
       PROVE  Queue'
  <2>1. conn' = conn /\ phase' = [phase EXCEPT ![t] = "none"] /\ lockq' = Without(lockq, t)
    BY <1>15 DEF Deadline, T!Denied, Abandon, Goto
  <2>2. \A y \in (Tasks \cup Conns) \ {t} : Waiting(y)' <=> Waiting(y)
    BY <2>1, OthersWait
  <2>3. ~Waiting(t)'
    BY <2>1, ServerAssumption DEF TaskTypes, Waiting, Calling
  <2> QED
    BY <2>1, <2>2, <2>3, QueueDrops
<1> QED
  BY <1>1, <1>2, <1>3, <1>4, <1>5, <1>7, <1>8, <1>10, <1>11, <1>12, <1>13, <1>14, <1>15
     DEF Next, WorkerStep, ClientStep, TaskStep, CloseStep

\* No connection is closing and no task has called yet.
LEMMA QueueStarts == Init => Queue
BY ServerAssumption DEF Init, T!TransportInit, Queue, Waiting, Calling

\* Whatever the deadlines do (transport.rs:390-395), the callers inside
\* MonitorClient::call are those in the queue of its lock, each once: a dropped
\* call takes itself out of the queue and nobody else.
THEOREM LockQueueExact == Spec => []Queue
<1>1. Init => Queue
  BY QueueStarts
<1>2. Joined /\ T!TransportTypeOK /\ Queue /\ [Next]_vars => Queue'
  <2>1. CASE UNCHANGED vars
    <3>1. UNCHANGED <<lockq, phase, conn>>
      BY <2>1 DEF vars, transport_vars, rpc_vars, task_vars
    <3> QED
      BY <3>1, QueueStable DEF Waiting
  <2> QED
    BY <2>1, QueueStep DEF Joined
<1>3. Spec => []T!TransportTypeOK
  BY ServerKeepsTransport, PTL
<1> QED
  BY <1>1, <1>2, <1>3, JoinedHolds, PTL DEF Spec

\* A channel forwards at most MaxSignals signals (the model's bound).
SignalsTyped == signals \in [Tasks -> 0..MaxSignals]

LEMMA SignalsStep ==
  ASSUME SignalsTyped, [Next]_vars
  PROVE  SignalsTyped'
<1>1. CASE UNCHANGED signals
  BY <1>1 DEF SignalsTyped
<1>2. ASSUME NEW t \in Tasks, ForwardSignal(t)
      PROVE  SignalsTyped'
  BY <1>2, ServerAssumption DEF ForwardSignal, SignalsTyped
<1>3. SUFFICES ASSUME Next
               PROVE  UNCHANGED signals \/ \E t \in Tasks : ForwardSignal(t)
  BY <1>1, <1>2 DEF vars, task_vars
<1> QED
  BY <1>3 DEF Next, WorkerStep, ClientStep, TaskStep, CloseStep, Accept, ConnEnds, SendClose,
       ReceiveClose, AcceptRequest, Gate, StartAuth, SendAuth, ReceiveAuth, FloorOver, Deadline,
       Respond, OpenChannel, SendSpawn, ReceiveSpawn, PumpFails, PumpEnds, SendSession,
       ReceiveSignal, ReceiveReap, Ages, task_vars

\* Type correctness of worker and monitor together, deadline or not: among it,
\* that a channel which pumps, signals or reaps has a session (worker.rs:291-364).
THEOREM ServerTyped == Spec => []TypeOK
<1>1. Init => SignalsTyped
  BY ServerAssumption DEF Init, SignalsTyped
<1>2. SignalsTyped /\ [Next]_vars => SignalsTyped'
  BY SignalsStep
<1>3. Joined /\ T!TransportTypeOK /\ Queue /\ SignalsTyped => TypeOK
  BY DEF Joined, TaskTypes, Queue, SignalsTyped, TypeOK
<1>4. Spec => []T!TransportTypeOK
  BY ServerKeepsTransport, PTL
<1> QED
  BY <1>1, <1>2, <1>3, <1>4, JoinedHolds, LockQueueExact, PTL DEF Spec

-----------------------------------------------------------------------------
(* Sessions, as the monitor changes them                                   *)

\* Ids the monitor has not handed out name no child (IdsFresh of MonitorProofs).
Fresh == \A s \in M!SessionIds : s > next_session => proc[s] = "none"

LEMMA ServerFresh == Spec => []Fresh
<1>1. MP!Spec => []MP!Inductive
  BY PartsAssumption, MP!InductiveHolds
<1>2. MP!Inductive => Fresh
  BY DEF MP!Inductive, MP!IdsFresh, Fresh, MP!SessionIds, M!SessionIds
<1> QED
  BY <1>1, <1>2, MonitorAgrees, ServerRefinesMonitor, PTL DEF RefinesMonitor, M!Spec, MP!Spec

\* A session that was handed out stays on its connection's list until it is
\* collected, moves to no other list, and stays collected.
Persists(s) ==
  /\ \A c \in Conns : s \in conn_sessions'[c] => s \in conn_sessions[c]
  /\ \A c \in Conns : serving' /\ s \in conn_sessions[c]
                        => s \in conn_sessions'[c] \/ proc'[s] = "reaped"
  /\ proc[s] = "reaped" => proc'[s] = "reaped"

LEMMA SessionsPersist ==
  ASSUME M!TypeOK, M!Bookkeeping, M!MonitorStep \/ M!WorldStep
  PROVE  /\ next_session <= next_session'
         /\ serving' => serving
         /\ ~worker_alive' \/ serving' = serving
         /\ \A s \in 1..next_session : Persists(s)
<1> DEFINE Goal == /\ next_session <= next_session'
                   /\ serving' => serving
                   /\ ~worker_alive' \/ serving' = serving
                   /\ \A s \in 1..next_session : Persists(s)
<1>0. /\ next_session \in Nat /\ MaxSession \in Nat /\ next_session <= MaxSession
      /\ conn_sessions \in [Conns -> SUBSET M!SessionIds]
      /\ proc \in [M!SessionIds -> {"none", "running", "exited", "reaped"}]
      /\ \A s \in 1..next_session : s \in M!SessionIds
  BY PartsAssumption DEF M!TypeOK, M!SessionIds
<1>1. ASSUME UNCHANGED <<next_session, serving, conn_sessions, proc>> PROVE Goal
  BY <1>0, <1>1 DEF Persists
<1>2. CASE \/ M!Authenticate \/ M!Signal \/ M!SkipBad \/ M!WorkerDies
           \/ \E c \in Conns : M!ChallengeExpires(c)
  BY <1>1, <1>2 DEF M!Authenticate, M!Signal, M!SkipBad, M!WorkerDies, M!ChallengeExpires,
                    M!monitor_vars, M!state_vars, M!os_vars
<1>3. ASSUME NEW op, NEW fds, M!Spawn(op, fds) PROVE Goal
  <2> DEFINE r == Head(to_monitor)
  <2>1. serving' = serving
    BY <1>3 DEF M!Spawn
  <2>2. CASE M!Alloc(r.conn, users[r.conn])
    <3>1. /\ next_session' = next_session + 1
          /\ conn_sessions' = [conn_sessions EXCEPT ![r.conn] = @ \cup {next_session + 1}]
          /\ proc' = [proc EXCEPT ![next_session + 1] = "running"]
      BY <2>2 DEF M!Alloc
    <3>2. ASSUME NEW s \in 1..next_session PROVE Persists(s)
      BY <1>0, <3>1 DEF Persists
    <3> QED
      BY <1>0, <2>1, <3>1, <3>2
  <2>3. CASE UNCHANGED <<sessions, conn_sessions, next_session, pam_sessions, M!os_vars>>
    BY <1>1, <2>1, <2>3 DEF M!os_vars
  <2> QED
    BY <1>3, <2>2, <2>3 DEF M!Spawn
<1>4. CASE M!Reap
  <2> DEFINE sid == Head(to_monitor).sid
  <2>1. UNCHANGED <<next_session, serving>>
    BY <1>4 DEF M!Reap
  <2>2. CASE M!Forget(sid) /\ M!ReapChildren({sid})
    <3>1. ASSUME NEW s \in 1..next_session PROVE Persists(s)
      BY <1>0, <2>2 DEF M!Forget, M!ReapChildren, Persists
    <3> QED
      BY <1>0, <2>1, <3>1
  <2>3. CASE UNCHANGED <<sessions, conn_sessions, proc, pam_sessions>>
    BY <1>1, <2>1, <2>3
  <2> QED
    BY <1>4, <2>2, <2>3 DEF M!Reap
<1>5. CASE M!Close
  <2> DEFINE c == Head(to_monitor).conn
  <2>1. /\ serving /\ UNCHANGED <<next_session, serving>>
        /\ conn_sessions' = [conn_sessions EXCEPT ![c] = {}]
        /\ proc' = [s \in M!SessionIds |->
                      IF s \in conn_sessions[c] \cap sessions THEN "reaped" ELSE proc[s]]
    BY <1>5 DEF M!Close, M!ReapChildren, M!Receives
  <2>2. \A d \in Conns : \A s \in conn_sessions[d] : s \in sessions
    BY <1>0, <2>1 DEF M!Bookkeeping
  <2>3. ASSUME NEW s \in 1..next_session PROVE Persists(s)
    BY <1>0, <2>1, <2>2 DEF Persists
  <2> QED
    BY <1>0, <2>1, <2>3
<1>6. CASE M!ControlClosed
  <2>1. /\ ~worker_alive /\ serving' = FALSE /\ UNCHANGED <<next_session, proc, worker_alive>>
        /\ conn_sessions' = [c \in Conns |-> {}]
    BY <1>6 DEF M!ControlClosed, M!os_vars, M!socket_vars
  <2>2. ASSUME NEW s \in 1..next_session PROVE Persists(s)
    BY <2>1 DEF Persists
  <2> QED
    BY <1>0, <2>1, <2>2
<1>7. ASSUME NEW z \in M!SessionIds, M!ChildExits(z) PROVE Goal
  <2>1. /\ UNCHANGED <<next_session, serving, conn_sessions>>
        /\ proc[z] = "running" /\ proc' = [proc EXCEPT ![z] = "exited"]
    BY <1>7 DEF M!ChildExits, M!state_vars
  <2>2. ASSUME NEW s \in 1..next_session PROVE Persists(s)
    BY <1>0, <2>1 DEF Persists
  <2> QED
    BY <1>0, <2>1, <2>2
<1> QED
  BY <1>2, <1>3, <1>4, <1>5, <1>6, <1>7
     DEF M!MonitorStep, M!WorldStep, M!SpawnShell, M!SpawnExec, M!SpawnTransfer,
         M!SpawnTransferWrite, M!SpawnMkdir

-----------------------------------------------------------------------------
(* One call at a time                                                      *)

\* r is the request the caller x sends in its phase.
Asked(x, r) ==
  \/ x \in Conns
  \/ /\ x \in Tasks
     /\ \/ phase[x] = "auth" /\ r.id = rid[x]
        \/ phase[x] = "spawn" /\ r.op = kind[x] /\ r.conn = on[x]
        \/ phase[x] = "signal"
        \/ phase[x] = "reap" /\ r.op = "Reap" /\ r.sid = sess[x]

\* While the monitor runs, the session is on the list of c or was collected.
Kept(s, c) == serving => s \in conn_sessions[c] \/ proc[s] = "reaped"

\* A session that no task has taken over yet, started for c.
NewSession(s, c) ==
  /\ s \in 1..next_session
  /\ \A u \in Tasks : sess[u] # s
  /\ \A d \in Conns \ {c} : s \notin conn_sessions[d]
  /\ Kept(s, c)

\* m is what the monitor can have answered the caller x.
Answered(x, m) ==
  \/ x \in Conns
  \/ /\ x \in Tasks
     /\ \/ phase[x] = "auth" /\ m.id = rid[x] /\ (m.kind = "Allow" => m.id \in granted)
        \/ phase[x] = "spawn" /\ (m.kind = "Spawned" => NewSession(m.arg, on[x]))
        \/ phase[x] = "signal"
        \/ phase[x] = "reap" /\ (serving => proc[sess[x]] = "reaped")

\* The lock at work: nothing is in the socket unless a call is under way, and
\* then at most one message, the holder's request or the reply to it.
InStep ==
  /\ call = 0 => to_monitor = <<>> /\ to_worker = <<>>
  /\ call # 0 =>
       /\ lockq # <<>>
       /\ Len(to_monitor) + Len(to_worker) <= 1
       /\ to_monitor # <<>> => /\ Head(to_monitor).id = call
                               /\ Asked(Head(lockq), Head(to_monitor))
       /\ to_worker # <<>> => /\ Head(to_worker).id = call
                              /\ Answered(Head(lockq), Head(to_worker))

\* The pump failed, and `?` left before the reap.
GaveUp(t) == phase[t] = "failed" /\ kind[t] # "SpawnTransferWrite"

\* Every session a task has taken over is its own, started for its connection,
\* and not lost before it is collected.
Owned ==
  \A t \in Tasks : sess[t] # 0 =>
    /\ sess[t] <= next_session
    /\ \A u \in Tasks \ {t} : sess[u] # sess[t]
    /\ \A c \in Conns \ {on[t]} : sess[t] \notin conn_sessions[c]
    /\ Kept(sess[t], on[t])
    /\ phase[t] \in {"running", "signal", "reap"} \/ pc[t] = "done"
    /\ pc[t] = "done" /\ serving => proc[sess[t]] = "reaped" \/ GaveUp(t)

\* The monitor's answer to what the caller asked.
LEMMA AnswerFits ==
  ASSUME M!TypeOK, M!Bookkeeping, Fresh, T!TransportTypeOK, TaskTypes, Wired, Owned,
         UNCHANGED <<transport_vars, task_vars>>, serving' => serving,
         NEW m, Answers(m), NEW x, Asked(x, Head(to_monitor))
  PROVE  Answered(x, m)'
<1> DEFINE r == Head(to_monitor)
<1>0. /\ next_session \in Nat /\ MaxSession \in Nat
      /\ conn_sessions \in [Conns -> SUBSET M!SessionIds]
      /\ proc \in [M!SessionIds -> {"none", "running", "exited", "reaped"}]
      /\ UNCHANGED <<phase, rid, sess, on, kind>>
      /\ serving
  BY PartsAssumption DEF M!TypeOK, transport_vars, task_vars, Answers
<1>1. CASE x \in Conns
  BY <1>1 DEF Answered
<1>2. CASE x \in Tasks /\ phase[x] = "auth" /\ r.id = rid[x]
  BY <1>0, <1>2 DEF Answers, Answered
<1>3. CASE x \in Tasks /\ phase[x] = "spawn" /\ r.conn = on[x]
  <2>1. on[x] \in Conns
    BY <1>3 DEF Wired, TasksWired, PhasesAt, T!TransportTypeOK, T!PCs
  <2>2. ASSUME m.kind = "Spawned" PROVE NewSession(m.arg, on[x])'
    <3>1. /\ m.arg = next_session + 1 /\ next_session' = next_session + 1
          /\ next_session < MaxSession
          /\ conn_sessions' = [conn_sessions EXCEPT ![on[x]] = @ \cup {m.arg}]
      BY <1>3, <2>2 DEF Answers
    <3>2. m.arg \in M!SessionIds /\ m.arg > next_session
      BY <1>0, <3>1 DEF M!SessionIds
    <3>3. \A d \in Conns : m.arg \notin conn_sessions[d]
      BY <1>0, <3>2 DEF Fresh, M!Bookkeeping
    <3>4. \A u \in Tasks : sess'[u] # m.arg
      BY <1>0, <3>1 DEF Owned, TaskTypes
    <3>5. \A d \in Conns \ {on'[x]} : m.arg \notin conn_sessions'[d]
      BY <1>0, <3>1, <3>3
    <3>6. m.arg \in conn_sessions'[on'[x]]
      BY <1>0, <2>1, <3>1
    <3>7. m.arg \in 1..next_session'
      BY <1>0, <3>1
    <3> QED
      BY <3>4, <3>5, <3>6, <3>7 DEF NewSession, Kept
  <2> QED
    BY <1>0, <1>3, <2>2 DEF Answered
<1>4. CASE x \in Tasks /\ phase[x] = "signal"
  BY <1>0, <1>4 DEF Answered
<1>5. CASE x \in Tasks /\ phase[x] = "reap" /\ r.op = "Reap" /\ r.sid = sess[x]
  <2>1. sess[x] # 0 /\ sess[x] \in M!SessionIds /\ on[x] \in Conns
    <3>1. on[x] \in Conns
      BY <1>5 DEF Wired, TasksWired, PhasesAt, T!TransportTypeOK, T!PCs
    <3>2. sess[x] # 0 /\ sess[x] \in 0..MaxSession
      BY <1>5 DEF TaskTypes
    <3> QED
      BY <1>0, <3>1, <3>2 DEF M!SessionIds
  <2>2. sess[x] \in conn_sessions[on[x]] \/ proc[sess[x]] = "reaped"
    BY <1>0, <1>5, <2>1 DEF Owned, Kept
  <2>3. sess[x] \in conn_sessions[on[x]] => sess[x] \in sessions
    BY <1>0, <2>1 DEF M!Bookkeeping
  <2>4. proc'[sess[x]] = "reaped"
    BY <1>0, <1>5, <2>1, <2>2, <2>3 DEF Answers
  <2> QED
    BY <1>0, <1>5, <2>4 DEF Answered
<1> QED
  BY <1>1, <1>2, <1>3, <1>4, <1>5 DEF Asked

\* A reply that waits in the socket stays a fitting one.
LEMMA AnswerPersists ==
  ASSUME M!TypeOK, TaskTypes, Owned, UNCHANGED <<transport_vars, task_vars>>,
         granted \subseteq granted', next_session <= next_session',
         next_session' \in Nat, serving' => serving, \A s \in 1..next_session : Persists(s),
         T!TransportTypeOK, Wired, NEW x, NEW m, Answered(x, m)
  PROVE  Answered(x, m)'
<1>0. UNCHANGED <<phase, rid, sess, on>> /\ next_session \in Nat
  BY DEF transport_vars, task_vars, M!TypeOK
<1>1. CASE x \in Conns
  BY <1>1 DEF Answered
<1>2. CASE /\ x \in Tasks /\ phase[x] = "auth" /\ m.id = rid[x]
           /\ m.kind = "Allow" => m.id \in granted
  BY <1>0, <1>2 DEF Answered
<1>3. CASE x \in Tasks /\ phase[x] = "spawn" /\ (m.kind = "Spawned" => NewSession(m.arg, on[x]))
  <2>1. on[x] \in Conns
    BY <1>3 DEF Wired, TasksWired, PhasesAt, T!TransportTypeOK, T!PCs
  <2>2. ASSUME m.kind = "Spawned" PROVE NewSession(m.arg, on[x])'
    <3>1. NewSession(m.arg, on[x]) /\ m.arg \in 1..next_session
      BY <1>3, <2>2 DEF NewSession
    <3>2. Persists(m.arg) /\ m.arg \in 1..next_session'
      BY <1>0, <3>1
    <3> QED
      BY <1>0, <2>1, <3>1, <3>2 DEF NewSession, Kept, Persists
  <2> QED
    BY <1>0, <1>3, <2>2 DEF Answered
<1>4. CASE x \in Tasks /\ phase[x] = "signal"
  BY <1>0, <1>4 DEF Answered
<1>5. CASE x \in Tasks /\ phase[x] = "reap" /\ (serving => proc[sess[x]] = "reaped")
  <2>1. sess[x] \in 1..next_session
    BY <1>0, <1>5 DEF TaskTypes, Owned
  <2>2. Persists(sess[x])
    BY <2>1
  <2> QED
    BY <1>0, <1>5, <2>2 DEF Answered, Persists
<1> QED
  BY <1>1, <1>2, <1>3, <1>4, <1>5 DEF Answered

\* Steps that touch neither the socket nor the holder of the lock.
LEMMA InStepStable ==
  ASSUME Queue, InStep, UNCHANGED <<monitor_vars, socket_vars, call, sess, rid>>,
         lockq' = lockq \/ \E y : lockq' = Append(lockq, y),
         \A u \in Tasks : phase[u] \in Calling =>
           phase'[u] = phase[u] /\ kind'[u] = kind[u] /\ on'[u] = on[u]
  PROVE  InStep'
<1>0. UNCHANGED <<to_monitor, to_worker, granted, serving, next_session, conn_sessions, proc>>
  BY DEF monitor_vars, socket_vars
<1>1. CASE call = 0
  BY <1>0, <1>1 DEF InStep
<1>2. CASE call # 0
  <2>1. PICK x : x = Head(lockq)
    OBVIOUS
  <2>2. lockq # <<>> /\ lockq' # <<>> /\ Head(lockq') = x
    BY <1>2, <2>1 DEF InStep, Queue
  <2>3. x \in Tasks => phase[x] \in Calling \/ x \in Conns
    BY <2>1, <2>2 DEF Queue, Waiting
  <2>4. ASSUME NEW r, Asked(x, r) PROVE Asked(x, r)'
    BY <2>3, <2>4 DEF Asked
  <2>5. ASSUME NEW m, Answered(x, m) PROVE Answered(x, m)'
    BY <1>0, <2>3, <2>5 DEF Answered, NewSession, Kept
  <2>6. to_monitor # <<>> => Asked(x, Head(to_monitor))'
    <3>1. PICK r : r = Head(to_monitor)
      OBVIOUS
    <3> QED
      BY <1>0, <1>2, <2>1, <2>4, <3>1 DEF InStep, Asked
  <2>7. to_worker # <<>> => Answered(x, Head(to_worker))'
    <3>1. PICK m : m = Head(to_worker)
      OBVIOUS
    <3> QED
      BY <1>0, <1>2, <2>1, <2>5, <3>1 DEF InStep, Answered, NewSession, Kept
  <2> QED
    BY <1>0, <1>2, <2>1, <2>2, <2>6, <2>7 DEF InStep, Asked, Answered, NewSession, Kept
<1> QED
  BY <1>1, <1>2

\* The holder sends: the socket was empty.
LEMMA InStepSend ==
  ASSUME M!TypeOK, InStep, NEW x, NEW r, Send(x, r), r.id = next_req + 1, Asked(x, r)'
  PROVE  InStep'
<1>1. /\ to_monitor = <<>> /\ to_worker = <<>> /\ to_worker' = <<>>
      /\ to_monitor' = Append(to_monitor, r)
      /\ call' = next_req + 1 /\ next_req \in Nat
      /\ lockq' = lockq /\ lockq # <<>> /\ Head(lockq) = x
  BY DEF InStep, Send, Holds, M!TypeOK
<1>2. Len(to_monitor') = 1 /\ Head(to_monitor') = r /\ Len(to_worker') = 0
  BY <1>1
<1>3. Asked(Head(lockq), Head(to_monitor))'
  BY <1>1, <1>2 DEF Asked
<1> QED
  BY <1>1, <1>2, <1>3 DEF InStep

\* The holder receives: the socket is empty again.
LEMMA InStepReceive ==
  ASSUME M!TypeOK, InStep, NEW x, Receive(x)
  PROVE  InStep'
<1>1. /\ to_monitor \in Seq(M!Requests) /\ to_worker \in Seq(M!Replies)
      /\ Len(to_monitor) + Len(to_worker) <= 1 /\ to_worker # <<>>
      /\ to_worker' = Tail(to_worker) /\ to_monitor' = to_monitor /\ call' = 0
  BY DEF InStep, Receive, M!TypeOK
<1>2. to_monitor = <<>> /\ Tail(to_worker) = <<>>
  BY <1>1
<1> QED
  BY <1>1, <1>2 DEF InStep

\* The monitor takes the holder's request and answers it.
LEMMA InStepMonitor ==
  ASSUME M!TypeOK, (M!TypeOK)', M!Bookkeeping, Fresh, T!TransportTypeOK, TaskTypes, Wired, Owned,
         InStep, M!MonitorStep \/ M!WorldStep,
         UNCHANGED <<transport_vars, rpc_vars, task_vars>>
  PROVE  InStep'
<1>0. /\ UNCHANGED <<lockq, call, phase, kind, sess, rid, on>>
      /\ to_monitor \in Seq(M!Requests) /\ to_worker \in Seq(M!Replies)
      /\ next_session' \in Nat
  BY DEF M!TypeOK, rpc_vars, task_vars, transport_vars
<1>1. PICK x : x = Head(lockq)
  OBVIOUS
<1>2. CASE UNCHANGED <<to_monitor, to_worker>>
  <2>1. PICK r : r = Head(to_monitor)
    OBVIOUS
  <2>2. PICK m : m = Head(to_worker)
    OBVIOUS
  <2>3. Asked(x, r) => Asked(x, r)'
    BY <1>0 DEF Asked
  <2>4. Answered(x, m) => Answered(x, m)'
    BY <1>0, AnswerPersists, SessionsPersist, MonitorAnswers
  <2>5. call # 0 /\ to_monitor # <<>> => Asked(Head(lockq), Head(to_monitor))'
    BY <1>0, <1>1, <1>2, <2>1, <2>3 DEF InStep, Asked
  <2>6. call # 0 /\ to_worker # <<>> => Answered(Head(lockq), Head(to_worker))'
    <3>1. call # 0 /\ to_worker # <<>> => Answered(x, m)
      BY <1>1, <2>2 DEF InStep
    <3> QED
      BY <1>0, <1>1, <1>2, <2>2, <2>4, <3>1 DEF Answered, NewSession, Kept
  <2> QED
    BY <1>0, <1>2, <2>5, <2>6 DEF InStep
<1>3. CASE Skips
  <2>1. to_monitor # <<>> /\ to_monitor' = Tail(to_monitor) /\ to_worker' = to_worker
    BY <1>3 DEF Skips
  <2>2. call # 0 /\ Len(to_monitor) + Len(to_worker) <= 1 /\ lockq # <<>>
    BY <2>1 DEF InStep
  <2>3. to_monitor' = <<>> /\ to_worker' = <<>>
    BY <1>0, <2>1, <2>2
  <2> QED
    BY <1>0, <2>2, <2>3 DEF InStep
<1>4. ASSUME NEW m, Answers(m) PROVE InStep'
  <2>1. /\ to_monitor # <<>> /\ to_monitor' = Tail(to_monitor)
        /\ to_worker' = Append(to_worker, m) /\ m.id = Head(to_monitor).id
    BY <1>4 DEF Answers
  <2>2. /\ call # 0 /\ Len(to_monitor) + Len(to_worker) <= 1 /\ lockq # <<>>
        /\ Head(to_monitor).id = call /\ Asked(x, Head(to_monitor))
    BY <1>1, <2>1 DEF InStep
  <2>3. to_worker = <<>> /\ to_monitor' = <<>>
    BY <1>0, <2>1, <2>2
  <2>4. Len(to_worker') = 1 /\ Head(to_worker') = m /\ Len(to_monitor') = 0
    <3>1. to_worker' = Append(<<>>, m)
      BY <2>1, <2>3
    <3>2. Len(to_worker') = 1 /\ Head(to_worker') = m
      BY <3>1
    <3> QED
      BY <2>3, <3>2
  <2>5. Answered(x, m)'
    <3>1. serving' => serving
      BY SessionsPersist
    <3> QED
      BY <1>4, <2>2, <3>1, AnswerFits
  <2>6. Answered(Head(lockq), Head(to_worker))'
    BY <1>0, <1>1, <2>4, <2>5 DEF Answered, NewSession, Kept
  <2> QED
    BY <1>0, <2>1, <2>2, <2>3, <2>4, <2>6 DEF InStep
<1> QED
  BY <1>2, <1>3, <1>4, MonitorAnswers

\* The worker and the monitor stay in step.
LEMMA InStepStep ==
  ASSUME ~DeadlineFires, M!TypeOK, (M!TypeOK)', M!Bookkeeping, Fresh, T!TransportTypeOK, TaskTypes,
         Wired, Queue, Owned, InStep, Next
  PROVE  InStep'
<1>0. \A t \in Tasks : phase[t] \in PhasesAt(pc[t])
  BY DEF Wired, TasksWired
<1>1. ASSUME NEW c \in Conns, Accept(c) \/ ConnEnds(c)
      PROVE  InStep'
  <2>1. /\ UNCHANGED <<monitor_vars, socket_vars, call, sess, rid, phase, kind, on>>
        /\ lockq' = lockq \/ lockq' = Append(lockq, c)
    BY <1>1 DEF Accept, ConnEnds, T!Accept, T!ConnEnds, Lock, rpc_vars, task_vars
  <2> QED
    BY <2>1, InStepStable
<1>2. ASSUME NEW c \in Conns, SendClose(c)
      PROVE  InStep'
  BY <1>2, InStepSend DEF SendClose, Asked
<1>3. ASSUME NEW x, Receive(x)
      PROVE  InStep'
  BY <1>3, InStepReceive
<1>4. ASSUME NEW t \in Tasks, NEW c \in Conns, AcceptRequest(t, c)
      PROVE  InStep'
  <2>1. /\ UNCHANGED <<monitor_vars, socket_vars, call, sess, rid, phase, kind, lockq>>
        /\ pc[t] = "idle" /\ on' = [on EXCEPT ![t] = c]
    BY <1>4 DEF AcceptRequest, T!AcceptRequest, rpc_vars, task_vars
  <2>2. phase[t] \notin Calling
    BY <1>0, <2>1 DEF PhasesAt, Calling
  <2>3. \A u \in Tasks : phase[u] \in Calling => on'[u] = on[u]
    BY <2>1, <2>2 DEF T!TransportTypeOK
  <2> QED
    BY <2>1, <2>3, InStepStable
<1>5. ASSUME NEW t \in Tasks, Gate(t)
      PROVE  InStep'
  <2>1. UNCHANGED <<monitor_vars, socket_vars, call, sess, rid, phase, kind, on, lockq>>
    BY <1>5 DEF Gate, T!Gate, rpc_vars, task_vars
  <2> QED
    BY <2>1, InStepStable
<1>6. ASSUME NEW t \in Tasks, phase[t] \notin Calling,
             NEW p, phase' = [phase EXCEPT ![t] = p],
             kind' = kind \/ \E k : kind' = [kind EXCEPT ![t] = k],
             UNCHANGED <<monitor_vars, socket_vars, call, sess, rid, on>>,
             lockq' = lockq \/ lockq' = Append(lockq, t)
      PROVE  InStep'
  <2>1. \A u \in Tasks : phase[u] \in Calling => phase'[u] = phase[u] /\ kind'[u] = kind[u]
    BY <1>6 DEF TaskTypes
  <2> QED
    BY <1>6, <2>1, InStepStable
<1>7. ASSUME NEW t \in Tasks,
             StartAuth(t) \/ FloorOver(t) \/ Respond(t) \/ ForwardSignal(t)
               \/ PumpEnds(t) \/ PumpFails(t)
      PROVE  InStep'
  <2>1. UNCHANGED <<monitor_vars, socket_vars, call, sess, rid, kind, on>>
    BY <1>7 DEF StartAuth, T!StartAuth, FloorOver, T!Denied, T!Challenged, Respond, Return,
                T!Served, ForwardSignal, PumpEnds, PumpFails, rpc_vars, transport_vars
  <2>2. lockq' = lockq \/ lockq' = Append(lockq, t)
    BY <1>7 DEF StartAuth, FloorOver, Respond, ForwardSignal, PumpEnds, PumpFails, rpc_vars, Lock
  <2>3. PICK p : phase' = [phase EXCEPT ![t] = p]
    BY <1>7 DEF StartAuth, FloorOver, Respond, Return, ForwardSignal, PumpEnds, PumpFails, Goto
  <2>4. pc[t] = "backoff" \/ phase[t] \in {"deny", "challenge", "granted", "running"}
    BY <1>7 DEF StartAuth, T!StartAuth, FloorOver, Respond, ForwardSignal, PumpEnds, PumpFails
  <2>5. phase[t] \notin Calling
    BY <1>0, <2>4 DEF PhasesAt, Calling
  <2> QED
    BY <1>6, <2>1, <2>2, <2>3, <2>5
<1>8. ASSUME NEW t \in Tasks, OpenChannel(t)
      PROVE  InStep'
  <2>1. UNCHANGED <<monitor_vars, socket_vars, call, sess, rid, on>>
    BY <1>8 DEF OpenChannel, Return, T!Served, transport_vars
  <2>2. lockq' = lockq \/ lockq' = Append(lockq, t)
    BY <1>8 DEF OpenChannel, Lock
  <2>3. PICK p : phase' = [phase EXCEPT ![t] = p]
    BY <1>8 DEF OpenChannel, Return, Goto
  <2>4. kind' = kind \/ \E k : kind' = [kind EXCEPT ![t] = k]
    BY <1>8 DEF OpenChannel
  <2>5. phase[t] \notin Calling
    BY <1>8 DEF OpenChannel, Calling
  <2> QED
    BY <1>6, <2>1, <2>2, <2>3, <2>4, <2>5
<1>9. ASSUME NEW t \in Tasks, SendAuth(t)
      PROVE  InStep'
  <2>1. PICK r \in AuthRequests(next_req + 1, on[t]) : Send(t, r)
    BY <1>9 DEF SendAuth
  <2>2. r.id = next_req + 1
    BY DEF AuthRequests, M!RequestsNumbered
  <2>3. phase'[t] = "auth" /\ rid'[t] = next_req + 1
    BY <1>9 DEF SendAuth, TaskTypes
  <2>4. Asked(t, r)'
    BY <2>2, <2>3 DEF Asked
  <2> QED
    BY <2>1, <2>2, <2>4, InStepSend
<1>10. ASSUME NEW t \in Tasks, SendSpawn(t)
       PROVE  InStep'
  <2> DEFINE r == [id |-> next_req + 1, op |-> kind[t], conn |-> on[t]]
  <2>1. Send(t, r) /\ phase[t] = "spawn" /\ UNCHANGED <<phase, kind, on>>
    BY <1>10 DEF SendSpawn, Send, transport_vars, task_vars
  <2>2. PICK q : q = r
    OBVIOUS
  <2>3. Asked(t, q)'
    BY <2>1, <2>2 DEF Asked
  <2>4. Send(t, q) /\ q.id = next_req + 1
    BY <2>1, <2>2
  <2> QED
    BY <2>3, <2>4, InStepSend
<1>11. ASSUME NEW t \in Tasks, SendSession(t)
       PROVE  InStep'
  <2> DEFINE r == [id |-> next_req + 1, sid |-> sess[t],
                   op |-> IF phase[t] = "reap" THEN "Reap" ELSE "Signal"]
  <2>1. Send(t, r) /\ phase[t] \in {"signal", "reap"} /\ UNCHANGED <<phase, sess>>
    BY <1>11 DEF SendSession, task_vars
  <2>2. PICK q : q = r
    OBVIOUS
  <2>3. Asked(t, q)'
    BY <2>1, <2>2 DEF Asked
  <2>4. Send(t, q) /\ q.id = next_req + 1
    BY <2>1, <2>2
  <2> QED
    BY <2>3, <2>4, InStepSend
<1>12. ASSUME NEW ip \in Ips, Ages(ip)
       PROVE  InStep'
  <2>1. UNCHANGED <<monitor_vars, socket_vars, call, sess, rid, phase, kind, on, lockq>>
    BY <1>12 DEF Ages, T!Ages, rpc_vars, task_vars
  <2> QED
    BY <2>1, InStepStable
<1>13. CASE (M!MonitorStep \/ M!WorldStep) /\ UNCHANGED <<transport_vars, rpc_vars, task_vars>>
  BY <1>13, InStepMonitor
<1>14. ASSUME NEW t \in Tasks, Deadline(t)
       PROVE  FALSE
  BY <1>14 DEF Deadline
<1>15. ASSUME NEW t \in Tasks, TaskStep(t)
       PROVE  InStep'
  BY <1>3, <1>5, <1>7, <1>9, <1>10, <1>11, <1>14, <1>15
     DEF TaskStep, ReceiveAuth, ReceiveSpawn, ReceiveSignal, ReceiveReap
<1>16. ASSUME NEW c \in Conns, CloseStep(c)
       PROVE  InStep'
  BY <1>2, <1>3, <1>16 DEF CloseStep, ReceiveClose
<1> QED
  BY <1>1, <1>4, <1>7, <1>8, <1>12, <1>13, <1>15, <1>16 DEF Next, WorkerStep, ClientStep

-----------------------------------------------------------------------------
(* Sessions and verdicts, as the tasks hold them                           *)

\* A step of the worker in which no task takes a session over.
LEMMA OwnedStable ==
  ASSUME Owned, UNCHANGED monitor_vars, sess' = sess,
         \A u \in Tasks : sess[u] # 0 =>
           /\ on'[u] = on[u] /\ kind'[u] = kind[u]
           /\ phase'[u] \in {"running", "signal", "reap"} \/ pc'[u] = "done"
           /\ pc'[u] = "done" /\ serving =>
                \/ pc[u] = "done" /\ phase'[u] = phase[u]
                \/ proc[sess[u]] = "reaped"
                \/ phase'[u] = "failed" /\ kind[u] # "SpawnTransferWrite"
  PROVE  Owned'
<1>0. UNCHANGED <<serving, next_session, conn_sessions, proc>>
  BY DEF monitor_vars
<1> QED
  BY <1>0 DEF Owned, Kept, GaveUp

LEMMA OwnedStep ==
  ASSUME ~DeadlineFires, M!TypeOK, (M!TypeOK)', M!Bookkeeping, T!TransportTypeOK, TaskTypes,
         Wired, Owned, InStep, Next
  PROVE  Owned'
<1>0. /\ \A t \in Tasks : phase[t] \in PhasesAt(pc[t])
      /\ \A t \in Tasks :
           sess[t] # 0 => phase[t] \in {"running", "signal", "reap"} \/ pc[t] = "done"
      /\ phase \in [Tasks -> Phases] /\ kind \in [Tasks -> M!SpawnOps \cup {"none"}]
      /\ sess \in [Tasks -> 0..MaxSession]
      /\ pc \in [Tasks -> T!PCs] /\ on \in [Tasks -> Conns \cup {NoConn}]
  BY DEF Wired, TasksWired, Owned, TaskTypes, T!TransportTypeOK
<1>1. \A t \in Tasks : sess[t] # 0 => pc[t] \in {"serving", "done"}
  BY <1>0 DEF PhasesAt, T!PCs
<1>2. ASSUME UNCHANGED <<monitor_vars, sess, on, kind, phase, pc>>
      PROVE  Owned'
  BY <1>0, <1>2, OwnedStable
<1>3. ASSUME NEW c \in Conns, Accept(c) \/ ConnEnds(c) \/ SendClose(c) \/ ReceiveClose(c)
      PROVE  Owned'
  <2>1. UNCHANGED <<monitor_vars, sess, on, kind, phase, pc>>
    BY <1>3 DEF Accept, ConnEnds, SendClose, ReceiveClose, Send, Receive, T!Accept, T!ConnEnds,
                T!Closed, transport_vars, task_vars
  <2> QED
    BY <1>2, <2>1
<1>4. ASSUME NEW t \in Tasks, sess[t] = 0, UNCHANGED <<monitor_vars, sess>>,
             \A u \in Tasks \ {t} :
               on'[u] = on[u] /\ kind'[u] = kind[u] /\ phase'[u] = phase[u] /\ pc'[u] = pc[u]
      PROVE  Owned'
  BY <1>0, <1>4, OwnedStable
<1>5. ASSUME NEW t \in Tasks, NEW c \in Conns, AcceptRequest(t, c)
      PROVE  Owned'
  <2>1. /\ UNCHANGED <<monitor_vars, sess, kind, phase>> /\ pc[t] = "idle"
        /\ pc' = [pc EXCEPT ![t] = "accepted"] /\ on' = [on EXCEPT ![t] = c]
    BY <1>5 DEF AcceptRequest, T!AcceptRequest, task_vars
  <2> QED
    BY <1>0, <1>1, <1>4, <2>1
<1>6. ASSUME NEW t \in Tasks,
             Gate(t) \/ StartAuth(t) \/ ReceiveAuth(t) \/ FloorOver(t) \/ Respond(t)
      PROVE  Owned'
  <2>1. UNCHANGED <<monitor_vars, sess, kind, on>>
    BY <1>6 DEF Gate, StartAuth, ReceiveAuth, Receive, FloorOver, Respond, Return, T!Gate,
                T!StartAuth, T!Allowed, T!Denied, T!Challenged, T!Served, task_vars, transport_vars
  <2>2. phase' = phase \/ \E p : phase' = [phase EXCEPT ![t] = p]
    BY <1>6 DEF Gate, StartAuth, ReceiveAuth, FloorOver, Respond, Return, Goto, task_vars
  <2>3. pc' = pc \/ \E q : pc' = [pc EXCEPT ![t] = q]
    BY <1>6 DEF Gate, StartAuth, ReceiveAuth, FloorOver, Respond, Return, T!Gate, T!StartAuth,
                T!Allowed, T!Denied, T!Challenged, T!Served, transport_vars
  <2>4. pc[t] \in {"accepted", "backoff"} \/ phase[t] \in {"auth", "deny", "challenge", "granted"}
    BY <1>6 DEF Gate, StartAuth, ReceiveAuth, FloorOver, Respond, T!Gate, T!StartAuth
  <2>5. sess[t] = 0
    BY <1>0, <1>1, <2>4 DEF PhasesAt
  <2> QED
    BY <1>0, <1>4, <2>1, <2>2, <2>3, <2>5
<1>7. ASSUME NEW t \in Tasks, OpenChannel(t)
      PROVE  Owned'
  <2>1. UNCHANGED <<monitor_vars, sess, on>> /\ phase[t] = "open"
    BY <1>7 DEF OpenChannel, Return, T!Served, transport_vars
  <2>2. \E p : phase' = [phase EXCEPT ![t] = p]
    BY <1>7 DEF OpenChannel, Return, Goto
  <2>3. pc' = pc \/ \E q : pc' = [pc EXCEPT ![t] = q]
    BY <1>7 DEF OpenChannel, Return, T!Served, transport_vars
  <2>4. kind' = kind \/ \E k : kind' = [kind EXCEPT ![t] = k]
    BY <1>7 DEF OpenChannel
  <2>5. sess[t] = 0
    BY <1>0, <2>1 DEF PhasesAt
  <2> QED
    BY <1>0, <1>4, <2>1, <2>2, <2>3, <2>4, <2>5
<1>8. ASSUME NEW t \in Tasks, SendAuth(t) \/ SendSpawn(t) \/ SendSession(t)
      PROVE  Owned'
  <2>1. UNCHANGED <<monitor_vars, sess, on, kind, phase, pc>>
    BY <1>8 DEF SendAuth, SendSpawn, SendSession, Send, transport_vars, task_vars
  <2> QED
    BY <1>2, <2>1
<1>9. ASSUME NEW t \in Tasks, ReceiveSpawn(t)
      PROVE  Owned'
  <2> DEFINE m == Head(to_worker)
  <2>1. /\ phase[t] = "spawn" /\ Receive(t) /\ UNCHANGED <<monitor_vars, kind, on>>
        /\ lockq # <<>> /\ Head(lockq) = t /\ call # 0 /\ to_worker # <<>>
    BY <1>9 DEF ReceiveSpawn, Receive, Holds, Return, T!Served, transport_vars
  <2>2. pc[t] = "serving" /\ sess[t] = 0
    BY <1>0, <2>1 DEF PhasesAt
  <2>3. CASE /\ m.kind = "Spawned" /\ sess' = [sess EXCEPT ![t] = m.arg]
             /\ phase' = [phase EXCEPT ![t] = "running"] /\ UNCHANGED transport_vars
    <3>1. NewSession(m.arg, on[t])
      <4>1. Answered(t, m)
        BY <2>1 DEF InStep
      <4> QED
        BY <2>1, <2>3, <4>1, ServerAssumption DEF Answered
    <3>2. PICK s : s = m.arg
      OBVIOUS
    <3>3. /\ s \in 1..next_session /\ s # 0 /\ \A u \in Tasks : sess[u] # s
          /\ \A d \in Conns \ {on[t]} : s \notin conn_sessions[d]
          /\ Kept(s, on[t])
      BY <3>1, <3>2 DEF NewSession, M!TypeOK
    <3>4. UNCHANGED <<serving, next_session, conn_sessions, proc, pc, on, kind>>
      BY <2>1, <2>3 DEF monitor_vars, transport_vars
    <3>5. sess'[t] = s /\ phase'[t] = "running"
          /\ \A u \in Tasks \ {t} : sess'[u] = sess[u] /\ phase'[u] = phase[u]
      BY <1>0, <2>3, <3>2
    <3> SUFFICES ASSUME NEW u \in Tasks, sess'[u] # 0
                 PROVE  /\ sess'[u] <= next_session'
                        /\ \A w \in Tasks \ {u} : sess'[w] # sess'[u]
                        /\ \A c \in Conns \ {on'[u]} : sess'[u] \notin conn_sessions'[c]
                        /\ Kept(sess[u], on[u])'
                        /\ phase'[u] \in {"running", "signal", "reap"} \/ pc'[u] = "done"
                        /\ pc'[u] = "done" /\ serving' =>
                             proc'[sess'[u]] = "reaped" \/ GaveUp(u)'
      BY DEF Owned, Kept, GaveUp
    <3>6. CASE u = t
      <4>1. sess'[u] <= next_session'
        BY <3>3, <3>4, <3>5, <3>6 DEF M!TypeOK
      <4>2. \A w \in Tasks \ {u} : sess'[w] # sess'[u]
        BY <3>3, <3>5, <3>6
      <4>3. Kept(sess[u], on[u])' /\ \A c \in Conns \ {on'[u]} : sess'[u] \notin conn_sessions'[c]
        BY <3>3, <3>4, <3>5, <3>6 DEF Kept
      <4> QED
        BY <2>2, <3>4, <3>5, <3>6, <4>1, <4>2, <4>3
    <3>7. CASE u # t
      BY <3>3, <3>4, <3>5, <3>7 DEF Owned, Kept, GaveUp
    <3> QED
      BY <3>6, <3>7
  <2>4. CASE Return(t) /\ UNCHANGED sess
    BY <1>0, <1>4, <2>1, <2>2, <2>4 DEF Return, T!Served, Goto
  <2> QED
    BY <1>9, <2>3, <2>4 DEF ReceiveSpawn, Goto
<1>10. ASSUME NEW t \in Tasks, ForwardSignal(t) \/ ReceiveSignal(t) \/ PumpEnds(t)
       PROVE  Owned'
  <2>1. UNCHANGED <<monitor_vars, sess, on, kind, pc>>
    BY <1>10 DEF ForwardSignal, ReceiveSignal, PumpEnds, Receive, transport_vars
  <2>2. PICK p \in {"running", "signal", "reap"} : phase' = [phase EXCEPT ![t] = p]
    BY <1>10 DEF ForwardSignal, ReceiveSignal, PumpEnds, Goto
  <2>3. pc[t] # "done"
    BY <1>0, <1>10 DEF ForwardSignal, ReceiveSignal, PumpEnds, PhasesAt
  <2> QED
    BY <1>0, <2>1, <2>2, <2>3, OwnedStable
<1>11. ASSUME NEW t \in Tasks, Return(t), UNCHANGED <<monitor_vars, sess, kind>>,
              serving => proc[sess[t]] = "reaped"
       PROVE  Owned'
  <2>1. /\ pc' = [pc EXCEPT ![t] = "done"] /\ phase' = [phase EXCEPT ![t] = "none"]
        /\ on' = on
    BY <1>11 DEF Return, T!Served, Goto
  <2> QED
    BY <1>0, <1>11, <2>1, OwnedStable
<1>12. ASSUME NEW t \in Tasks, PumpFails(t)
       PROVE  Owned'
  <2>1. /\ pc' = [pc EXCEPT ![t] = "done"] /\ phase' = [phase EXCEPT ![t] = "failed"]
        /\ on' = on /\ UNCHANGED <<monitor_vars, sess, kind>> /\ kind[t] # "SpawnTransferWrite"
    BY <1>12 DEF PumpFails, T!Served, Goto
  <2> QED
    BY <1>0, <2>1, OwnedStable
<1>13. ASSUME NEW t \in Tasks, ReceiveReap(t)
       PROVE  Owned'
  <2>1. /\ phase[t] = "reap" /\ Return(t) /\ UNCHANGED <<monitor_vars, sess, kind>>
        /\ lockq # <<>> /\ Head(lockq) = t /\ call # 0 /\ to_worker # <<>>
    BY <1>13 DEF ReceiveReap, Receive, Holds
  <2>2. Answered(t, Head(to_worker))
    BY <2>1 DEF InStep
  <2>3. serving => proc[sess[t]] = "reaped"
    BY <2>1, <2>2, ServerAssumption DEF Answered
  <2> QED
    BY <1>11, <2>1, <2>3
<1>14. ASSUME NEW ip \in Ips, Ages(ip)
       PROVE  Owned'
  <2>1. UNCHANGED <<monitor_vars, sess, on, kind, phase, pc>>
    BY <1>14 DEF Ages, T!Ages, task_vars
  <2> QED
    BY <1>2, <2>1
<1>15. CASE (M!MonitorStep \/ M!WorldStep) /\ UNCHANGED <<transport_vars, rpc_vars, task_vars>>
  <2>1. UNCHANGED <<sess, on, kind, phase, pc>>
    BY <1>15 DEF transport_vars, task_vars
  <2>2. /\ next_session <= next_session' /\ (serving' => serving)
        /\ \A s \in 1..next_session : Persists(s)
    BY <1>15, SessionsPersist
  <2>3. next_session \in Nat /\ next_session' \in Nat
    BY DEF M!TypeOK
  <2> SUFFICES ASSUME NEW u \in Tasks, sess[u] # 0
               PROVE  /\ sess[u] <= next_session'
                      /\ \A w \in Tasks \ {u} : sess[w] # sess[u]
                      /\ \A c \in Conns \ {on[u]} : sess[u] \notin conn_sessions'[c]
                      /\ Kept(sess[u], on[u])'
                      /\ phase[u] \in {"running", "signal", "reap"} \/ pc[u] = "done"
                      /\ pc[u] = "done" /\ serving' => proc'[sess[u]] = "reaped" \/ GaveUp(u)
    BY <2>1 DEF Owned, Kept, GaveUp
  <2>4. sess[u] \in 1..next_session /\ sess[u] <= next_session'
    BY <1>0, <2>2, <2>3 DEF Owned
  <2>5. Persists(sess[u])
    BY <2>2, <2>4
  <2>6. on[u] \in Conns
    BY <1>1 DEF T!TransportTypeOK
  <2>7. Kept(sess[u], on[u])'
    BY <2>1, <2>2, <2>5, <2>6 DEF Owned, Kept, Persists
  <2> QED
    BY <2>2, <2>4, <2>5, <2>7 DEF Owned, Persists
<1>16. ASSUME NEW t \in Tasks, Deadline(t)
       PROVE  FALSE
  BY <1>16 DEF Deadline
<1> QED
  BY <1>3, <1>5, <1>6, <1>7, <1>8, <1>9, <1>10, <1>12, <1>13, <1>14, <1>15, <1>16
     DEF Next, WorkerStep, ClientStep, TaskStep, CloseStep

\* A task that serves was let in by the monitor's answer to its own request.
LEMMA AllowStep ==
  ASSUME ~DeadlineFires, T!TransportTypeOK, TaskTypes, Wired, InStep, AllowIsMonitors, Next
  PROVE  AllowIsMonitors'
<1>0. /\ \A t \in Tasks : phase[t] \in PhasesAt(pc[t])
      /\ pc \in [Tasks -> T!PCs] /\ rid \in [Tasks -> 0..MaxRequests]
  BY DEF Wired, TasksWired, TaskTypes, T!TransportTypeOK
<1>1. ASSUME rid' = rid, granted' = granted,
             pc' = pc \/ \E t \in Tasks : \E q : q # "serving" /\ pc' = [pc EXCEPT ![t] = q]
      PROVE  AllowIsMonitors'
  BY <1>0, <1>1 DEF AllowIsMonitors
<1>2. ASSUME NEW c \in Conns, Accept(c) \/ ConnEnds(c) \/ SendClose(c) \/ ReceiveClose(c)
      PROVE  AllowIsMonitors'
  <2>1. UNCHANGED <<rid, granted, pc>>
    BY <1>2 DEF Accept, ConnEnds, SendClose, ReceiveClose, Send, Receive, T!Accept, T!ConnEnds,
                T!Closed, transport_vars, task_vars, monitor_vars
  <2> QED
    BY <1>1, <2>1
<1>3. ASSUME NEW t \in Tasks,
             \/ \E c \in Conns : AcceptRequest(t, c)
             \/ Gate(t) \/ StartAuth(t) \/ FloorOver(t) \/ Respond(t) \/ OpenChannel(t)
             \/ PumpFails(t) \/ ReceiveSpawn(t) \/ ReceiveReap(t)
      PROVE  AllowIsMonitors'
  <2>1. UNCHANGED <<rid, granted>>
    BY <1>3 DEF AcceptRequest, Gate, StartAuth, FloorOver, Respond, OpenChannel, PumpFails,
                ReceiveSpawn, ReceiveReap, Receive, task_vars, monitor_vars
  <2>2. pc' = pc \/ \E q : q # "serving" /\ pc' = [pc EXCEPT ![t] = q]
    BY <1>3 DEF AcceptRequest, Gate, StartAuth, FloorOver, Respond, OpenChannel, PumpFails,
                ReceiveSpawn, ReceiveReap, Return, T!AcceptRequest, T!Gate, T!StartAuth,
                T!Denied, T!Challenged, T!Served, transport_vars
  <2> QED
    BY <1>1, <2>1, <2>2
<1>4. ASSUME NEW t \in Tasks,
             SendSpawn(t) \/ SendSession(t) \/ ForwardSignal(t) \/ ReceiveSignal(t) \/ PumpEnds(t)
      PROVE  AllowIsMonitors'
  <2>1. UNCHANGED <<rid, granted, pc>>
    BY <1>4 DEF SendSpawn, SendSession, Send, ForwardSignal, ReceiveSignal, Receive, PumpEnds,
                transport_vars, task_vars, monitor_vars
  <2> QED
    BY <1>1, <2>1
<1>5. ASSUME NEW t \in Tasks, SendAuth(t)
      PROVE  AllowIsMonitors'
  <2>1. /\ rid' = [rid EXCEPT ![t] = next_req + 1] /\ phase[t] = "auth"
        /\ UNCHANGED <<granted, pc>>
    BY <1>5 DEF SendAuth, Send, transport_vars, monitor_vars
  <2>2. pc[t] = "auth"
    BY <1>0, <2>1 DEF PhasesAt
  <2> QED
    BY <1>0, <2>1, <2>2 DEF AllowIsMonitors
<1>6. ASSUME NEW t \in Tasks, ReceiveAuth(t)
      PROVE  AllowIsMonitors'
  <2>1. /\ phase[t] = "auth" /\ UNCHANGED <<rid, granted>>
        /\ lockq # <<>> /\ Head(lockq) = t /\ call # 0 /\ to_worker # <<>>
    BY <1>6 DEF ReceiveAuth, Receive, Holds, monitor_vars
  <2>2. CASE Head(to_worker).kind = "Allow" /\ T!Allowed(t)
    <3>1. Answered(t, Head(to_worker))
      BY <2>1 DEF InStep
    <3>2. rid[t] \in granted
      BY <2>1, <2>2, <3>1, ServerAssumption DEF Answered
    <3>3. pc' = [pc EXCEPT ![t] = "serving"]
      BY <2>2 DEF T!Allowed
    <3> QED
      BY <1>0, <2>1, <3>2, <3>3 DEF AllowIsMonitors
  <2>3. CASE UNCHANGED transport_vars
    BY <1>1, <2>1, <2>3 DEF transport_vars
  <2> QED
    BY <1>6, <2>2, <2>3 DEF ReceiveAuth
<1>7. CASE \/ \E ip \in Ips : Ages(ip)
           \/ (M!MonitorStep \/ M!WorldStep) /\ UNCHANGED <<transport_vars, rpc_vars, task_vars>>
  <2>1. UNCHANGED <<rid, pc>> /\ granted \subseteq granted'
    BY <1>7, MonitorAnswers DEF Ages, T!Ages, transport_vars, task_vars, monitor_vars
  <2> QED
    BY <2>1 DEF AllowIsMonitors
<1>8. ASSUME NEW t \in Tasks, Deadline(t)
      PROVE  FALSE
  BY <1>8 DEF Deadline
<1> QED
  BY <1>2, <1>3, <1>4, <1>5, <1>6, <1>7, <1>8
     DEF Next, WorkerStep, ClientStep, TaskStep, CloseStep

-----------------------------------------------------------------------------
(* What the worker promises when no attempt outlives its deadline          *)

\* The inductive invariant.  None of the four promises is inductive alone: each
\* reads a reply, so each needs that the reply in the socket answers the
\* holder's own request (InStep); that needs the queue, which fixes who the
\* holder is (Queue); and a late Reap finds the right child only because a
\* session keeps its one owner until it is collected (Owned).
Synchronous ==
  /\ Queue
  /\ InStep
  /\ Owned
  /\ AllowIsMonitors
  /\ worker_alive => serving

LEMMA SynchronousHolds ==
  ASSUME ~DeadlineFires
  PROVE  Spec => []Synchronous
<1>1. Init => Synchronous
  <2> SUFFICES ASSUME Init PROVE Synchronous
    OBVIOUS
  <2>1. /\ lockq = <<>> /\ call = 0 /\ to_monitor = <<>> /\ to_worker = <<>> /\ serving
        /\ \A t \in Tasks : sess[t] = 0 /\ pc[t] = "idle"
    BY DEF Init, M!Init, T!TransportInit
  <2> QED
    BY <2>1, QueueStarts DEF Synchronous, InStep, Owned, AllowIsMonitors
<1> DEFINE Known == Joined /\ T!TransportTypeOK /\ M!Bookkeeping /\ Fresh
<1>2. Known /\ Joined' /\ Synchronous /\ [Next]_vars => Synchronous'
  <2> SUFFICES ASSUME Known, Joined', Synchronous, [Next]_vars PROVE Synchronous'
    OBVIOUS
  <2>1. /\ M!TypeOK /\ (M!TypeOK)' /\ M!Bookkeeping /\ Fresh
        /\ T!TransportTypeOK /\ TaskTypes /\ Wired
        /\ Queue /\ InStep /\ Owned /\ AllowIsMonitors /\ (worker_alive => serving)
    BY DEF Joined, Synchronous
  <2>2. CASE Next
    <3>1. Queue' /\ InStep' /\ Owned' /\ AllowIsMonitors'
      BY <2>1, <2>2, QueueStep, InStepStep, OwnedStep, AllowStep
    <3>2. worker_alive' => serving'
      <4>1. CASE M!MonitorStep \/ M!WorldStep
        BY <2>1, <4>1, SessionsPersist, MonitorAnswers
      <4>2. CASE UNCHANGED <<worker_alive, serving>>
        BY <2>1, <4>2
      <4>3. CASE worker_alive /\ WorkerStep
        <5>1. UNCHANGED <<worker_alive, serving>>
          BY <4>3
             DEF WorkerStep, ClientStep, TaskStep, CloseStep, Accept, ConnEnds, AcceptRequest,
                 OpenChannel, ForwardSignal, PumpEnds, PumpFails, Gate, StartAuth, SendAuth,
                 ReceiveAuth, FloorOver, Deadline, Respond, SendSpawn, ReceiveSpawn, SendSession,
                 ReceiveSignal, ReceiveReap, SendClose, ReceiveClose, Ages, Send, Receive,
                 monitor_vars, socket_vars
        <5> QED
          BY <2>1, <5>1
      <4> QED
        BY <2>2, <4>1, <4>3 DEF Next
    <3> QED
      BY <3>1, <3>2 DEF Synchronous
  <2>3. CASE UNCHANGED vars
    <3>1. /\ UNCHANGED <<monitor_vars, socket_vars, lockq, call>>
          /\ UNCHANGED <<phase, kind, sess, rid, conn, pc, on>>
          /\ UNCHANGED <<worker_alive, serving, granted>>
      BY <2>3 DEF vars, monitor_vars, socket_vars, transport_vars, rpc_vars, task_vars
    <3>2. Queue'
      BY <2>1, <3>1, QueueStable DEF Waiting
    <3>3. InStep'
      BY <2>1, <3>1, InStepStable
    <3>4. Owned'
      BY <2>1, <3>1, OwnedStable DEF Owned
    <3> QED
      BY <2>1, <3>1, <3>2, <3>3, <3>4 DEF Synchronous, AllowIsMonitors
  <2> QED
    BY <2>2, <2>3
<1>3. Spec => []Known
  BY JoinedHolds, ServerKeepsTransport, ServerKeepsMonitor, ServerFresh, PTL
<1> QED
  BY <1>1, <1>2, <1>3, PTL DEF Spec

\* The reply a call reads is the reply to the request it sent.
THEOREM RepliesMatch ==
  ASSUME ~DeadlineFires
  PROVE  Spec => []ReplyMatchesCall
<1>1. Synchronous => ReplyMatchesCall
  BY DEF Synchronous, InStep, ReplyMatchesCall
<1> QED
  BY <1>1, SynchronousHolds, PTL

\* A request is served only if the monitor said Verdict(true) to that request.
THEOREM AllowsAreMonitors ==
  ASSUME ~DeadlineFires
  PROVE  Spec => []AllowIsMonitors
<1>1. Synchronous => AllowIsMonitors
  BY DEF Synchronous
<1> QED
  BY <1>1, SynchronousHolds, PTL

\* A channel pumps a session of its own, spawned for its connection.
THEOREM SessionsAreOwn ==
  ASSUME ~DeadlineFires
  PROVE  Spec => []OwnSession
<1>1. Joined /\ Synchronous => OwnSession
  BY DEF Joined, TaskTypes, Synchronous, Owned, OwnSession
<1> QED
  BY <1>1, JoinedHolds, SynchronousHolds, PTL

\* A channel's task that ends has had its session collected, unless its pump
\* failed; an upload's always (worker.rs:379-514).
THEOREM SessionsAreReaped ==
  ASSUME ~DeadlineFires
  PROVE  Spec => []AlwaysReaped
<1>1. Synchronous => AlwaysReaped
  BY DEF Synchronous, Owned, GaveUp, AlwaysReaped
<1> QED
  BY <1>1, SynchronousHolds, PTL

=============================================================================
