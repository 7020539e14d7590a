---------------------------- MODULE MonitorProofs ----------------------------
(***************************************************************************)
(* For every set of connections and users, every policy and every mix of   *)
(* backends, and whatever the worker sends: the monitor's bookkeeping is   *)
(* exact and every session was earned on its own connection.               *)
(***************************************************************************)
EXTENDS Monitor, TLAPS

-----------------------------------------------------------------------------
(* The registry                                                            *)

\* A set of backends' places that is not empty has a first one.
LEMMA LeastAble ==
  ASSUME NEW able, able \subseteq {1, 2, 3}, able # {}
  PROVE  \E i \in able : \A j \in able : i <= j
<1>1. CASE 1 \in able
  BY <1>1
<1>2. CASE 1 \notin able /\ 2 \in able
  BY <1>2
<1>3. CASE 1 \notin able /\ 2 \notin able
  <2>1. able = {3}
    BY <1>3
  <2> QED
    BY <2>1
<1> QED
  BY <1>1, <1>2, <1>3

\* A credential that dispatch hands to some backend is one it supports.
LEMMA FirstSupports ==
  ASSUME NEW cred
  PROVE  \/ first_supporting(cred) = "absent"
         \/ supports(first_supporting(cred), cred)
<1> DEFINE able == {i \in 1..3 : supports(build_registry[i], cred)}
<1>1. CASE able = {}
  BY <1>1 DEF first_supporting
<1>2. CASE able # {}
  <2>1. \E i \in able : \A j \in able : i <= j
    <3>1. able \subseteq {1, 2, 3}
      OBVIOUS
    <3> HIDE DEF able
    <3> QED
      BY <3>1, <1>2, LeastAble
  <2>2. (CHOOSE i \in able : \A j \in able : i <= j) \in able
    BY <2>1
  <2> QED
    BY <2>2, <1>2 DEF first_supporting
<1> QED
  BY <1>1, <1>2

\* Passwords go to the one-factor backend or to the two-factor one, never to both:
\* build_registry registers one of them.
LEMMA FirstBuilt ==
  ASSUME NEW cred
  PROVE  /\ first_supporting(cred) = "pam" => ~Totp
         /\ first_supporting(cred) = "totp" => Totp
<1> DEFINE able == {i \in 1..3 : supports(build_registry[i], cred)}
           i == CHOOSE i \in able : \A j \in able : i <= j
<1> HIDE DEF i
<1>2. \/ first_supporting(cred) = "absent"
      \/ first_supporting(cred) = build_registry[i] /\ i \in 1..3
  <2>1. CASE able = {}
    BY <2>1 DEF first_supporting
  <2>2. CASE able # {}
    <3>1. \E k \in able : \A j \in able : k <= j
      <4>1. able \subseteq {1, 2, 3}
        OBVIOUS
      <4> HIDE DEF able
      <4> QED
        BY <4>1, <2>2, LeastAble
    <3>2. i \in able
      BY <3>1 DEF i
    <3> QED
      BY <2>2, <3>2 DEF first_supporting, i
  <2> QED
    BY <2>1, <2>2
<1>3. i \in 1..3 => \/ build_registry[i] \in {"pubkey", "absent", "oidc"}
                    \/ build_registry[i] = "pam" /\ ~Totp
                    \/ build_registry[i] = "totp" /\ Totp
  BY RegistryAssumption DEF build_registry
<1> QED
  BY <1>2, <1>3

\* A credential other than "none" has a user, and its connection if it is a
\* signed token.
LEMMA CredentialShape ==
  ASSUME NEW cred \in Credentials, cred.kind # "none"
  PROVE  cred.user \in Proved
BY DEF Credentials, NoCred, PasswordCred, TokenCred, JwtCred

\* What an Allow for user u rests on: a token or a JWT that proves u, a password
\* that does when there is no second factor, or else the parked password and a
\* code of u's secret.
Rests(cred, b, ch, u) ==
  \/ cred.kind \in {"token", "jwt"} /\ u = ProvenUser(cred, b)
  \/ cred.kind = "password" /\ ~Totp /\ u = ProvenUser(cred, b)
  \/ /\ cred.kind = "password" /\ Totp /\ ch.round = 2
     /\ u = ch.pending /\ ch.code = secret_for(u)

\* What the registry promises: an Allow is for a user the policy permits and
\* rests on all the factors asked of it, and a Challenge parks only a user whom
\* this password proved.
LEMMA VerdictSound ==
  ASSUME NEW cred \in Credentials, NEW b \in Conns,
         NEW ch, ch.pending \in Proved
  PROVE  LET v == verdict(cred, b, ch)
         IN  /\ v \in Verdicts
             /\ v.kind = "Allow" => /\ v.user # NoUser
                                    /\ permits(v.user)
                                    /\ Rests(cred, b, ch, v.user)
             /\ v.kind = "Challenge" => /\ v.user \in {ProvenUser(cred, b), NoUser}
                                        /\ cred.kind = "password"
<1> DEFINE d == dispatch(cred, b, ch)
           p == ProvenUser(cred, b)
           Sound(v) == /\ v \in Verdicts
                       /\ v.kind = "Allow" => v.user # NoUser /\ Rests(cred, b, ch, v.user)
                       /\ v.kind = "Challenge" => v.user \in {p, NoUser} /\ cred.kind = "password"
<1>1. Sound(Deny)
  BY DEF Deny, Verdicts, Proved
<1>2. ASSUME cred.kind # "none" PROVE Sound(d)
  <2> DEFINE first == first_supporting(cred)
  <2>0. cred.user \in Proved
    BY <1>2, CredentialShape
  <2>1. first = "absent" \/ supports(first, cred)
    BY FirstSupports
  <2>a. (first = "pam" => ~Totp) /\ (first = "totp" => Totp)
    BY FirstBuilt
  <2> HIDE DEF first
  <2>2. CASE first = "pubkey"
    <3>1. d = pubkey_authenticate(cred, b)
      BY <2>2 DEF dispatch, first
    <3>2. cred.kind = "token"
      BY <2>1, <2>2 DEF supports
    <3>3. CASE cred.user # NoUser /\ cred.bind = b
      <4>1. d = Allow(cred.user) /\ p = cred.user
        BY <3>1, <3>2, <3>3 DEF pubkey_authenticate, ProvenUser
      <4> QED
        BY <2>0, <3>2, <3>3, <4>1 DEF Allow, Verdicts, Rests
    <3>4. CASE ~(cred.user # NoUser /\ cred.bind = b)
      BY <1>1, <3>1, <3>4 DEF pubkey_authenticate
    <3> QED
      BY <3>3, <3>4
  <2>3. CASE first = "pam"
    <3>1. d = pam_authenticate(cred)
      BY <2>3 DEF dispatch, first
    <3>2. cred.kind = "password" /\ p = cred.user
      BY <2>1, <2>3 DEF supports, ProvenUser
    <3>3. CASE cred.user # NoUser
      <4>1. d = Allow(cred.user)
        BY <3>1, <3>3 DEF pam_authenticate
      <4> QED
        BY <2>0, <2>3, <2>a, <3>2, <3>3, <4>1 DEF Allow, Verdicts, Rests
    <3>4. CASE cred.user = NoUser
      BY <1>1, <3>1, <3>4 DEF pam_authenticate
    <3> QED
      BY <3>3, <3>4
  <2>4. CASE first = "totp"
    <3>1. d = totp_authenticate(cred, ch)
      BY <2>4 DEF dispatch, first
    <3>2. p = cred.user /\ cred.kind = "password" /\ Totp
      BY <1>2, <2>1, <2>4, <2>a DEF ProvenUser, supports
    <3>3. CASE ch.round = 2
      <4>1. d = totp_complete(ch)
        BY <3>1, <3>3 DEF totp_authenticate
      <4>2. CASE ch.pending # NoUser /\ ch.code = secret_for(ch.pending)
        <5>1. d = Allow(ch.pending)
          BY <4>1, <4>2 DEF totp_complete
        <5> QED
          BY <3>2, <3>3, <4>2, <5>1 DEF Allow, Verdicts, Rests
      <4>3. CASE ~(ch.pending # NoUser /\ ch.code = secret_for(ch.pending))
        BY <1>1, <4>1, <4>3 DEF totp_complete
      <4> QED
        BY <4>2, <4>3
    <3>4. CASE ch.round # 2
      BY <3>1, <3>2, <3>4, <2>0
         DEF totp_authenticate, pam_authenticate, Challenge, Allow, Deny, Verdicts
    <3> QED
      BY <3>3, <3>4
  <2>5. CASE first = "oidc"
    <3>1. d = oidc_authenticate(cred)
      BY <2>5 DEF dispatch, first
    <3>2. cred.kind = "jwt" /\ p = cred.user
      BY <2>1, <2>5 DEF supports, ProvenUser
    <3>3. CASE cred.user # NoUser
      <4>1. d = Allow(cred.user)
        BY <3>1, <3>3 DEF oidc_authenticate
      <4> QED
        BY <2>0, <3>2, <3>3, <4>1 DEF Allow, Verdicts, Rests
    <3>4. CASE cred.user = NoUser
      BY <1>1, <3>1, <3>4 DEF oidc_authenticate
    <3> QED
      BY <3>3, <3>4
  <2>6. CASE first \notin {"pubkey", "pam", "totp", "oidc"}
    <3>1. d = Deny
      BY <2>6 DEF dispatch, first
    <3> QED
      BY <3>1, <1>1
  <2> QED
    BY <2>2, <2>3, <2>4, <2>5, <2>6
<1>3. ~(Deny.kind = "Allow")
  BY DEF Deny
<1> QED
  BY <1>1, <1>2, <1>3 DEF verdict

-----------------------------------------------------------------------------
(* Type correctness                                                        *)

\* Membership of a request in its own record set, by its op.
LEMMA RequestShape ==
  ASSUME NEW r \in Requests
  PROVE  /\ r.id \in RequestIds
         /\ r.op = "Authenticate" => r \in AuthRequest
         /\ r.op \in SpawnOps => r \in SpawnRequest
         /\ r.op \in {"Reap", "Signal"} => r \in SessionRequest
         /\ r.op = "Close" => r \in CloseRequest
BY DEF Requests, AuthRequest, SpawnRequest, SessionRequest, CloseRequest,
       BadRequest, SpawnOps, PamSpawnOps, PlainSpawnOps

\* What taking a request off the socket gives a handler.
LEMMA ReceivesTyped ==
  ASSUME TypeOK, NEW op, Receives(op)
  PROVE  /\ Head(to_monitor) \in Requests
         /\ Head(to_monitor).op = op
         /\ to_monitor' \in Seq(Requests)
BY DEF TypeOK, Receives

\* A reply built from typed parts is typed.
LEMMA ReplyTyped ==
  ASSUME TypeOK, NEW r, r.id \in RequestIds, NEW kind \in ReplyKinds,
         NEW arg \in Nat, NEW fds \in 0..3, Reply(r, kind, arg, fds)
  PROVE  to_worker' \in Seq(Replies)
BY DEF TypeOK, Reply, Replies

\* A taken challenge resumes a user the store knew.
LEMMA TakeTyped ==
  ASSUME TypeOK, NEW c \in Conns, NEW a \in Answers
  PROVE  /\ Take(c, a).pending \in {challenges[c].pending_user, NoUser}
         /\ Take(c, a).pending \in Proved
         /\ Take(c, a).round = 2 => /\ a.token \in RequestIds
                                    /\ Take(c, a).code = a.code
         /\ AfterTake(c, a) \in ChallengeStates
<1>1. challenges[c] \in ChallengeStates
  BY DEF TypeOK
<1>2. challenges[c].pending_user \in Proved
  BY <1>1 DEF ChallengeStates, NoChallenge, Proved
<1>3. a = NoAnswer \/ a.token \in RequestIds
  BY DEF Answers
<1> QED
  BY <1>1, <1>2, <1>3
     DEF Take, AfterTake, Resume, NoResume, ChallengeStates, Proved

\* Every Spawn* handler keeps the types.
LEMMA SpawnTyped ==
  ASSUME TypeOK, NEW op \in SpawnOps, NEW fds \in 0..3, Spawn(op, fds)
  PROVE  TypeOK'
<1> DEFINE r == Head(to_monitor)
<1>1. r \in SpawnRequest /\ r.id \in RequestIds /\ to_monitor' \in Seq(Requests)
  BY ReceivesTyped, RequestShape DEF Spawn
<1>2. r.conn \in Conns
  BY <1>1 DEF SpawnRequest
<1>3. CASE /\ users[r.conn] # NoUser
           /\ next_session < MaxSession
           /\ Alloc(r.conn, users[r.conn])
           /\ \E g \in PamGuards(op) : pam_sessions' = pam_sessions \cup g
           /\ Reply(r, "Spawned", next_session + 1, fds)
  <2>1. next_session + 1 \in SessionIds /\ next_session + 1 \in Nat
    BY <1>3, MonitorAssumption DEF TypeOK, SessionIds
  <2>2. to_worker' \in Seq(Replies)
    BY <1>1, <1>3, <2>1, ReplyTyped DEF ReplyKinds
  <2>3. pam_sessions' \in SUBSET SessionIds
    BY <1>3, <2>1 DEF TypeOK, PamGuards
  <2> QED
    BY <1>1, <1>2, <1>3, <2>1, <2>2, <2>3
       DEF TypeOK, Spawn, Alloc, aux_vars, SessionIds
<1>4. CASE /\ Reply(r, "Failed", 0, 0)
           /\ UNCHANGED <<sessions, conn_sessions, next_session, pam_sessions, os_vars>>
  <2>1. to_worker' \in Seq(Replies)
    BY <1>1, <1>4, ReplyTyped DEF ReplyKinds
  <2> QED
    BY <1>1, <1>4, <2>1 DEF TypeOK, Spawn, os_vars, aux_vars
<1> QED
  BY <1>3, <1>4 DEF Spawn

\* What a request shows is a user and a factor.
LEMMA ShownTyped ==
  ASSUME NEW r, r.cred \in Credentials, r.binding \in Conns
  PROVE  Shown(r) \subseteq Users \X Factors
<1> DEFINE p == ProvenUser(r.cred, r.binding)
<1>1. p # NoUser => p \in Users
  <2>1. CASE r.cred.kind = "none"
    BY <2>1 DEF ProvenUser
  <2>2. CASE r.cred.kind # "none"
    <3>1. r.cred.user \in Proved
      BY <2>2, CredentialShape
    <3> QED
      BY <3>1 DEF ProvenUser, Proved
  <2> QED
    BY <2>1, <2>2
<1>2. {"password", "whole", "code"} \subseteq Factors
  BY DEF Factors
<1> QED
  BY <1>1, <1>2 DEF Shown

\* Authenticate keeps the types.
LEMMA AuthenticateTyped ==
  ASSUME TypeOK, Authenticate
  PROVE  TypeOK'
<1> DEFINE r  == Head(to_monitor)
           ch == Take(r.conn, r.answer)
           v  == verdict(r.cred, r.binding, ch)
<1>1. r \in AuthRequest /\ r.id \in RequestIds /\ to_monitor' \in Seq(Requests)
  BY ReceivesTyped, RequestShape DEF Authenticate
<1>2. /\ r.conn \in Conns /\ r.cred \in Credentials
      /\ r.binding \in Conns /\ r.answer \in Answers
  BY <1>1 DEF AuthRequest
<1>3. v \in Verdicts
  BY <1>2, TakeTyped, VerdictSound
<1>4. Shown(r) \subseteq Users \X Factors
  BY <1>2, ShownTyped
<1>5. to_worker' \in Seq(Replies)
  <2>1. v.kind \in ReplyKinds
    BY <1>3 DEF Verdicts, ReplyKinds
  <2>2. (IF v.kind = "Challenge" THEN r.id ELSE 0) \in Nat
    BY <1>1 DEF RequestIds
  <2>3. Reply(r, v.kind, IF v.kind = "Challenge" THEN r.id ELSE 0, 0)
    BY DEF Authenticate
  <2> HIDE DEF r, v
  <2> QED
    BY <1>1, <2>1, <2>2, <2>3, ReplyTyped
<1>6. challenges' \in [Conns -> ChallengeStates]
  <2>1. Parked(r.conn, r, v) \in ChallengeStates
    BY <1>1, <1>2, <1>3, TakeTyped DEF Parked, ChallengeStates, Verdicts
  <2> QED
    BY <2>1, <1>2 DEF TypeOK, Authenticate
<1>7. users' \in [Conns -> Proved] /\ proven' \in [Conns -> SUBSET (Users \X Factors)]
  <2>1. users' = (IF v.kind = "Allow" THEN [users EXCEPT ![r.conn] = v.user] ELSE users)
        /\ proven' = [proven EXCEPT ![r.conn] = @ \cup Shown(r)]
    BY DEF Authenticate
  <2>2. v.user \in Proved
    BY <1>3 DEF Verdicts
  <2> HIDE DEF r, v
  <2> QED
    BY <1>2, <1>4, <2>1, <2>2 DEF TypeOK
<1>8. guesses' \in [RequestIds -> Nat] /\ granted' \in SUBSET RequestIds
  BY <1>1, <1>2, TakeTyped DEF TypeOK, Authenticate
<1> QED
  BY <1>1, <1>5, <1>6, <1>7, <1>8 DEF TypeOK, Authenticate, os_vars

\* Reap and Close keep the types.
LEMMA ReapTyped ==
  ASSUME TypeOK, Reap
  PROVE  TypeOK'
<1> DEFINE r == Head(to_monitor)
<1>1. r \in SessionRequest /\ r.id \in RequestIds /\ to_monitor' \in Seq(Requests)
  BY ReceivesTyped, RequestShape DEF Reap
<1>2. r.sid \in SessionIds /\ r.sid \in Nat
  BY <1>1 DEF SessionRequest, SessionIds
<1>3. to_worker' \in Seq(Replies)
  BY <1>1, <1>2, ReplyTyped DEF Reap, ReplyKinds
<1> QED
  BY <1>1, <1>2, <1>3 DEF TypeOK, Reap, Forget, ReapChildren, aux_vars

LEMMA CloseTyped ==
  ASSUME TypeOK, Close
  PROVE  TypeOK'
<1> DEFINE r == Head(to_monitor)
<1>1. r \in CloseRequest /\ r.id \in RequestIds /\ to_monitor' \in Seq(Requests)
  BY ReceivesTyped, RequestShape DEF Close
<1>2. r.conn \in Conns
  BY <1>1 DEF CloseRequest
<1>3. to_worker' \in Seq(Replies)
  BY <1>1, ReplyTyped DEF Close, ReplyKinds
<1> QED
  BY <1>1, <1>2, <1>3 DEF TypeOK, Close, ReapChildren, ChallengeStates, Proved

\* Any request a worker can number is a request.
LEMMA NumberedTyped ==
  ASSUME NEW i \in RequestIds
  PROVE  RequestsNumbered(i) \subseteq Requests
BY DEF RequestsNumbered, Requests, AuthRequest, SpawnRequest, SessionRequest,
       CloseRequest, BadRequest

\* Every step of the monitor, of the world and of any worker keeps the types.
LEMMA TypeStep ==
  ASSUME TypeOK, [Next]_vars
  PROVE  TypeOK'
<1>1. CASE Authenticate
  BY <1>1, AuthenticateTyped
<1>2. CASE SpawnShell \/ SpawnExec \/ SpawnTransfer \/ SpawnTransferWrite \/ SpawnMkdir
  BY <1>2, SpawnTyped
     DEF SpawnShell, SpawnExec, SpawnTransfer, SpawnTransferWrite, SpawnMkdir,
         SpawnOps, PamSpawnOps, PlainSpawnOps
<1>3. CASE Reap
  BY <1>3, ReapTyped
<1>4. CASE Close
  BY <1>4, CloseTyped
<1>5. CASE Signal
  <2>1. Head(to_monitor).id \in RequestIds /\ to_monitor' \in Seq(Requests)
    BY <1>5, ReceivesTyped, RequestShape DEF Signal
  <2>2. to_worker' \in Seq(Replies)
    BY <1>5, <2>1, ReplyTyped DEF Signal, ReplyKinds
  <2> QED
    BY <1>5, <2>1, <2>2
       DEF TypeOK, Signal, monitor_vars, state_vars, os_vars, aux_vars
<1>6. CASE SkipBad
  <2>1. to_monitor' \in Seq(Requests)
    BY <1>6, ReceivesTyped DEF SkipBad
  <2> QED
    BY <1>6, <2>1 DEF TypeOK, SkipBad, monitor_vars, state_vars, os_vars, aux_vars
<1>7. CASE ControlClosed
  BY <1>7 DEF TypeOK, ControlClosed, os_vars, aux_vars, socket_vars,
              Proved, ChallengeStates
<1>8. ASSUME NEW s \in SessionIds, ChildExits(s) PROVE TypeOK'
  BY <1>8 DEF TypeOK, ChildExits, state_vars, aux_vars, socket_vars
<1>9. ASSUME NEW c \in Conns, ChallengeExpires(c) PROVE TypeOK'
  <2>1. challenges[c] \in ChallengeStates \ {NoChallenge}
    BY <1>9 DEF TypeOK, ChallengeExpires, NoChallenge
  <2>2. [challenges[c] EXCEPT !.age = "expired"] \in ChallengeStates
    BY <2>1 DEF ChallengeStates
  <2>3. challenges' = [challenges EXCEPT ![c] = [@ EXCEPT !.age = "expired"]]
    BY <1>9 DEF TypeOK, ChallengeExpires
  <2>4. challenges' \in [Conns -> ChallengeStates]
    BY <2>2, <2>3 DEF TypeOK
  <2> QED
    BY <1>9, <2>4 DEF TypeOK, ChallengeExpires, os_vars, aux_vars, socket_vars
<1>10. CASE WorkerDies
  BY <1>10 DEF TypeOK, WorkerDies, monitor_vars, state_vars, os_vars, aux_vars
<1>11. CASE WorkerSends
  <2>1. next_req + 1 \in RequestIds
    BY <1>11, MonitorAssumption DEF TypeOK, WorkerSends, RequestIds
  <2>2. to_monitor' \in Seq(Requests)
    BY <1>11, <2>1, NumberedTyped DEF TypeOK, WorkerSends
  <2> QED
    BY <1>11, <2>1, <2>2
       DEF TypeOK, WorkerSends, RequestIds, monitor_vars, state_vars, os_vars, aux_vars
<1>12. CASE WorkerReceives
  BY <1>12 DEF TypeOK, WorkerReceives, monitor_vars, state_vars, os_vars, aux_vars
<1>13. CASE UNCHANGED vars
  BY <1>13 DEF TypeOK, vars, monitor_vars, state_vars, os_vars, aux_vars, socket_vars
<1> QED
  BY <1>1, <1>2, <1>3, <1>4, <1>5, <1>6, <1>7, <1>8, <1>9, <1>10, <1>11, <1>12,
     <1>13 DEF Next, MonitorStep, WorldStep

\* The monitor's maps, the operating system's view of its children and both
\* directions of the socket keep their types, whatever the worker sends.
THEOREM MonitorTyped == Spec => []TypeOK
<1>1. Init => TypeOK
  BY MonitorAssumption
     DEF Init, TypeOK, Proved, ChallengeStates, SessionIds, RequestIds
<1>2. TypeOK /\ [Next]_vars => TypeOK'
  BY TypeStep
<1> QED
  BY <1>1, <1>2, PTL DEF Spec

-----------------------------------------------------------------------------
(* Bookkeeping and earned sessions                                         *)

\* The recorded identity of a connection was earned on it and is permitted.
IdentityEarned ==
  \A c \in Conns : users[c] # NoUser => Earned(c, users[c]) /\ permits(users[c])

\* A parked first factor was proved on the same connection.
PendingEarned ==
  \A c \in Conns :
    challenges[c].pending_user # NoUser =>
      <<challenges[c].pending_user, "password">> \in proven[c]

\* Ids beyond next_session have never named a child.
IdsFresh == \A s \in SessionIds : s > next_session => proc[s] = "none"

\* The inductive invariant.  SessionEarned alone is not inductive: what a
\* Spawn records comes from `users`, what Authenticate records there may come
\* from `challenges`, and that the new id disturbs no other session needs
\* Bookkeeping and IdsFresh.
Inductive ==
  /\ TypeOK
  /\ Bookkeeping
  /\ SessionEarned
  /\ IdentityEarned
  /\ PendingEarned
  /\ IdsFresh

\* Actions that leave the monitor's own state and its children alone.
LEMMA InductiveStable ==
  ASSUME Inductive, TypeOK',
         UNCHANGED <<users, sessions, conn_sessions, next_session, pam_sessions,
                     serving, proc, uid, proven>>,
         \A c \in Conns : challenges[c].pending_user = challenges'[c].pending_user
  PROVE  Inductive'
<1>1. Bookkeeping' /\ IdsFresh' /\ PendingEarned'
  BY DEF Inductive, Bookkeeping, PendingEarned, IdsFresh
<1>2. SessionEarned' /\ IdentityEarned'
  BY DEF Inductive, SessionEarned, IdentityEarned, Earned
<1> QED
  BY <1>1, <1>2 DEF Inductive

LEMMA AuthenticateInductive ==
  ASSUME Inductive, TypeOK', Authenticate
  PROVE  Inductive'
<1> DEFINE r  == Head(to_monitor)
           c  == r.conn
           ch == Take(c, r.answer)
           v  == verdict(r.cred, r.binding, ch)
           p  == ProvenUser(r.cred, r.binding)
           \* u has earned connection d in the next state
           Then(d, u) ==
             \/ <<u, "whole">> \in proven'[d]
             \/ <<u, "password">> \in proven'[d] /\ (Totp => <<u, "code">> \in proven'[d])
<1>0. TypeOK
  BY DEF Inductive
<1>1. /\ r.conn \in Conns /\ r.cred \in Credentials
      /\ r.binding \in Conns /\ r.answer \in Answers
  BY <1>0, ReceivesTyped, RequestShape DEF Authenticate, AuthRequest
<1>2. /\ ch.pending \in {challenges[c].pending_user, NoUser} /\ ch.pending \in Proved
      /\ ch.round = 2 => ch.code = r.answer.code
  BY <1>0, <1>1, TakeTyped
<1>3. /\ v \in Verdicts
      /\ v.kind = "Allow" => /\ v.user # NoUser
                             /\ permits(v.user)
                             /\ Rests(r.cred, r.binding, ch, v.user)
      /\ v.kind = "Challenge" => v.user \in {p, NoUser} /\ r.cred.kind = "password"
  BY <1>1, <1>2, VerdictSound
<1>4. /\ proven' = [proven EXCEPT ![c] = @ \cup Shown(r)]
      /\ challenges' = [challenges EXCEPT ![c] = Parked(c, r, v)]
      /\ users' = IF v.kind = "Allow" THEN [users EXCEPT ![c] = v.user] ELSE users
      /\ UNCHANGED <<sessions, conn_sessions, next_session, pam_sessions, serving,
                     proc, uid>>
  BY DEF Authenticate, os_vars
<1>5. \/ v.kind = "Challenge" /\ Parked(c, r, v).pending_user = v.user
      \/ Parked(c, r, v).pending_user \in {challenges[c].pending_user, NoUser}
  BY DEF Parked, AfterTake, NoChallenge
<1>s. p # NoUser => /\ r.cred.kind = "password" => <<p, "password">> \in Shown(r)
                    /\ r.cred.kind # "password" => <<p, "whole">> \in Shown(r)
  BY DEF Shown
<1>t. \A u \in Users : ch.round = 2 /\ r.cred.kind = "password"
                         /\ r.answer.code = secret_for(u)
                           => <<u, "code">> \in Shown(r)
  BY DEF Shown
<1> HIDE DEF r, c, ch, v, p
<1>6. c \in Conns
  BY <1>1 DEF c
<1>7. proven'[c] = proven[c] \cup Shown(r)
      /\ \A d \in Conns : proven[d] \subseteq proven'[d]
  BY <1>0, <1>4, <1>6 DEF TypeOK
<1>e. \A d \in Conns : \A u : Earned(d, u) => Then(d, u)
  BY <1>7 DEF Earned
<1>a. v.kind = "Allow" => Then(c, v.user)
  <2> SUFFICES ASSUME v.kind = "Allow" PROVE Then(c, v.user)
    OBVIOUS
  <2>1. v.user # NoUser /\ v.user \in Users
    BY <1>3 DEF Verdicts, Proved
  <2>2. CASE r.cred.kind \in {"token", "jwt"} /\ v.user = p
    BY <2>1, <2>2, <1>s, <1>7
  <2>3. CASE r.cred.kind = "password" /\ ~Totp /\ v.user = p
    BY <2>1, <2>3, <1>s, <1>7
  <2>4. CASE /\ r.cred.kind = "password" /\ Totp /\ ch.round = 2
             /\ v.user = ch.pending /\ ch.code = secret_for(v.user)
    <3>1. v.user = challenges[c].pending_user
      BY <2>1, <2>4, <1>2
    <3>2. <<v.user, "password">> \in proven'[c]
      BY <2>1, <3>1, <1>6, <1>7 DEF Inductive, PendingEarned
    <3>3. <<v.user, "code">> \in proven'[c]
      BY <2>1, <2>4, <1>2, <1>t, <1>7
    <3> QED
      BY <3>2, <3>3
  <2> QED
    BY <2>2, <2>3, <2>4, <1>3 DEF Rests, p
<1>8. IdentityEarned'
  <2> SUFFICES ASSUME NEW d \in Conns, users'[d] # NoUser
               PROVE  Then(d, users'[d]) /\ permits(users'[d])
    BY DEF IdentityEarned, Earned
  <2>1. CASE d = c /\ v.kind = "Allow"
    <3>1. users'[d] = v.user
      BY <2>1, <1>0, <1>4, <1>6 DEF TypeOK
    <3>2. Then(d, v.user) /\ permits(v.user)
      BY <2>1, <1>3, <1>a
    <3> QED
      BY <3>1, <3>2
  <2>2. CASE ~(d = c /\ v.kind = "Allow")
    <3>1. users'[d] = users[d]
      BY <2>2, <1>0, <1>4, <1>6 DEF TypeOK
    <3>2. Earned(d, users[d]) /\ permits(users[d])
      BY <3>1 DEF Inductive, IdentityEarned
    <3> QED
      BY <3>1, <3>2, <1>e
  <2> QED
    BY <2>1, <2>2
<1>9. PendingEarned'
  <2> SUFFICES ASSUME NEW d \in Conns, challenges'[d].pending_user # NoUser
               PROVE  <<challenges'[d].pending_user, "password">> \in proven'[d]
    BY DEF PendingEarned
  <2>1. CASE challenges'[d].pending_user = challenges[d].pending_user
    BY <2>1, <1>7 DEF Inductive, PendingEarned
  <2>2. CASE challenges'[d].pending_user # challenges[d].pending_user
    <3>1. d = c /\ challenges'[d] = Parked(c, r, v)
      BY <2>2, <1>0, <1>4, <1>6 DEF TypeOK
    <3>2. v.kind = "Challenge" /\ challenges'[d].pending_user = v.user
      BY <2>2, <3>1, <1>5
    <3> QED
      BY <3>1, <3>2, <1>3, <1>s, <1>7
  <2> QED
    BY <2>1, <2>2
<1>10. SessionEarned'
  BY <1>4, <1>7 DEF Inductive, SessionEarned, Earned
<1>11. Bookkeeping' /\ IdsFresh'
  BY <1>4 DEF Inductive, Bookkeeping, IdsFresh
<1> QED
  BY <1>8, <1>9, <1>10, <1>11 DEF Inductive

LEMMA SpawnInductive ==
  ASSUME Inductive, TypeOK', NEW op \in SpawnOps, NEW fds \in 0..3, Spawn(op, fds)
  PROVE  Inductive'
<1> DEFINE r  == Head(to_monitor)
           id == next_session + 1
<1>0. TypeOK
  BY DEF Inductive
<1>1. r.conn \in Conns
  BY <1>0, ReceivesTyped, RequestShape DEF Spawn, SpawnRequest
<1>2. UNCHANGED <<users, challenges, serving, proven>> /\ serving
  BY DEF Spawn, aux_vars, Receives
<1>3. CASE UNCHANGED <<sessions, conn_sessions, next_session, pam_sessions, os_vars>>
  BY <1>2, <1>3, InductiveStable DEF os_vars
<1>4. CASE /\ users[r.conn] # NoUser
           /\ next_session < MaxSession
           /\ Alloc(r.conn, users[r.conn])
           /\ \E g \in PamGuards(op) : pam_sessions' = pam_sessions \cup g
  <2>1. id \in SessionIds /\ id > next_session /\ next_session \in Nat
    BY <1>0, <1>4, MonitorAssumption DEF TypeOK, SessionIds
  <2>2. /\ next_session' = id
        /\ sessions' = sessions \cup {id}
        /\ conn_sessions' = [conn_sessions EXCEPT ![r.conn] = @ \cup {id}]
        /\ proc' = [proc EXCEPT ![id] = "running"]
        /\ uid' = [uid EXCEPT ![id] = users[r.conn]]
        /\ pam_sessions' \subseteq pam_sessions \cup {id}
    BY <1>4 DEF Alloc, PamGuards
  <2>3. proc[id] = "none"
    BY <2>1 DEF Inductive, IdsFresh
  <2>4. id \notin sessions /\ id \notin pam_sessions
        /\ \A d \in Conns : id \notin conn_sessions[d]
    BY <1>2, <2>1, <2>3 DEF Inductive, Bookkeeping
  <2> HIDE DEF r, id
  <2>5. Bookkeeping'
    BY <1>0, <1>1, <1>2, <2>1, <2>2, <2>4 DEF TypeOK, Inductive, Bookkeeping
  <2>6. SessionEarned'
    <3>1. \A d \in Conns : \A u : Earned(d, u)' <=> Earned(d, u)
      BY <1>2 DEF Earned
    <3> HIDE DEF Earned
    <3> SUFFICES ASSUME NEW d \in Conns, NEW s \in conn_sessions'[d]
                 PROVE  Earned(d, uid'[s]) /\ permits(uid'[s])
      BY <1>2 DEF SessionEarned, Earned
    <3>2. CASE s \in conn_sessions[d]
      <4>1. uid'[s] = uid[s]
        BY <1>0, <2>1, <2>2, <2>4, <3>2 DEF TypeOK
      <4> QED
        BY <3>2, <4>1 DEF Inductive, SessionEarned
    <3>3. CASE s \notin conn_sessions[d]
      <4>1. s = id /\ d = r.conn
        BY <1>0, <1>1, <2>2, <3>3 DEF TypeOK
      <4>2. uid'[s] = users[d]
        BY <1>0, <2>1, <2>2, <4>1 DEF TypeOK
      <4> QED
        BY <1>4, <4>1, <4>2 DEF Inductive, IdentityEarned
    <3> QED
      BY <3>2, <3>3
  <2>7. IdsFresh'
    BY <1>0, <2>1, <2>2 DEF TypeOK, Inductive, IdsFresh, SessionIds
  <2>8. IdentityEarned' /\ PendingEarned'
    BY <1>2 DEF Inductive, IdentityEarned, PendingEarned, Earned
  <2> QED
    BY <2>5, <2>6, <2>7, <2>8 DEF Inductive
<1> QED
  BY <1>3, <1>4 DEF Spawn

LEMMA ReapInductive ==
  ASSUME Inductive, TypeOK', Reap
  PROVE  Inductive'
<1> DEFINE s == Head(to_monitor).sid
<1>0. TypeOK
  BY DEF Inductive
<1>1. UNCHANGED <<users, challenges, next_session, serving, uid, proven>>
  BY DEF Reap, aux_vars
<1>2. CASE UNCHANGED <<sessions, conn_sessions, proc, pam_sessions>>
  BY <1>1, <1>2, InductiveStable
<1>3. CASE /\ s \in sessions
           /\ sessions' = sessions \ {s}
           /\ Forget(s)
           /\ ReapChildren({s})
           /\ pam_sessions' = pam_sessions \ {s}
  <2> HIDE DEF s
  <2>1. /\ conn_sessions' = [c \in Conns |-> conn_sessions[c] \ {s}]
        /\ proc' = [t \in SessionIds |-> IF t = s THEN "reaped" ELSE proc[t]]
    BY <1>3 DEF Forget, ReapChildren
  <2>2. Bookkeeping'
    BY <1>0, <1>1, <1>3, <2>1 DEF TypeOK, Inductive, Bookkeeping
  <2>3. SessionEarned'
    BY <1>1, <2>1 DEF Inductive, SessionEarned, Earned
  <2>4. IdsFresh'
    <3>1. serving
      BY DEF Reap, Receives
    <3>2. proc[s] # "none"
      BY <1>0, <1>3, <3>1 DEF TypeOK, Inductive, Bookkeeping
    <3> QED
      BY <1>1, <2>1, <3>2 DEF Inductive, IdsFresh
  <2> QED
    BY <1>1, <2>2, <2>3, <2>4 DEF Inductive, IdentityEarned, PendingEarned, Earned
<1> QED
  BY <1>2, <1>3 DEF Reap

LEMMA CloseInductive ==
  ASSUME Inductive, TypeOK', Close
  PROVE  Inductive'
<1> DEFINE c == Head(to_monitor).conn
<1>0. TypeOK
  BY DEF Inductive
<1>1. c \in Conns
  BY <1>0, ReceivesTyped, RequestShape DEF Close, CloseRequest
<1>2. /\ users' = [users EXCEPT ![c] = NoUser]
      /\ challenges' = [challenges EXCEPT ![c] = NoChallenge]
      /\ conn_sessions' = [conn_sessions EXCEPT ![c] = {}]
      /\ sessions' = sessions \ conn_sessions[c]
      /\ proc' = [t \in SessionIds |->
                    IF t \in conn_sessions[c] \cap sessions THEN "reaped" ELSE proc[t]]
      /\ pam_sessions' = pam_sessions \ conn_sessions[c]
      /\ proven' = [proven EXCEPT ![c] = {}]
      /\ UNCHANGED <<next_session, serving, uid>>
      /\ serving
  BY DEF Close, ReapChildren, Receives
<1> HIDE DEF c
<1>3. Bookkeeping'
  BY <1>0, <1>1, <1>2 DEF TypeOK, Inductive, Bookkeeping
<1>4. SessionEarned'
  BY <1>0, <1>1, <1>2 DEF TypeOK, Inductive, SessionEarned, Earned
<1>5. IdentityEarned' /\ PendingEarned'
  BY <1>0, <1>1, <1>2
     DEF TypeOK, Inductive, IdentityEarned, PendingEarned, NoChallenge, Earned
<1>6. IdsFresh'
  BY <1>0, <1>2 DEF TypeOK, Inductive, IdsFresh, Bookkeeping
<1> QED
  BY <1>3, <1>4, <1>5, <1>6 DEF Inductive

\* The inductive invariant holds.
LEMMA InductiveHolds == Spec => []Inductive
<1>1. Init => Inductive
  <2> SUFFICES ASSUME Init PROVE Inductive
    OBVIOUS
  <2>1. TypeOK
    BY MonitorAssumption
       DEF Init, TypeOK, Proved, ChallengeStates, SessionIds, RequestIds
  <2>2. Bookkeeping /\ SessionEarned /\ IdentityEarned /\ PendingEarned /\ IdsFresh
    BY DEF Init, Bookkeeping, SessionEarned, IdentityEarned, PendingEarned, IdsFresh,
           NoChallenge
  <2> QED
    BY <2>1, <2>2 DEF Inductive
<1>2. Inductive /\ TypeOK' /\ [Next]_vars => Inductive'
  <2> SUFFICES ASSUME Inductive, TypeOK', [Next]_vars PROVE Inductive'
    OBVIOUS
  <2>1. CASE Authenticate
    BY <2>1, AuthenticateInductive
  <2>2. CASE SpawnShell \/ SpawnExec \/ SpawnTransfer \/ SpawnTransferWrite \/ SpawnMkdir
    BY <2>2, SpawnInductive
       DEF SpawnShell, SpawnExec, SpawnTransfer, SpawnTransferWrite, SpawnMkdir,
           SpawnOps, PamSpawnOps, PlainSpawnOps
  <2>3. CASE Reap
    BY <2>3, ReapInductive
  <2>4. CASE Close
    BY <2>4, CloseInductive
  <2>5. CASE Signal \/ SkipBad \/ WorkerDies \/ WorkerSends \/ WorkerReceives
    BY <2>5, InductiveStable
       DEF Signal, SkipBad, WorkerDies, WorkerSends, WorkerReceives,
           monitor_vars, state_vars, os_vars, aux_vars
  <2>6. CASE ControlClosed
    BY <2>6 DEF ControlClosed, Inductive, Bookkeeping, SessionEarned, IdentityEarned,
                PendingEarned, IdsFresh, NoChallenge, os_vars, aux_vars, socket_vars
  <2>7. ASSUME NEW s \in SessionIds, ChildExits(s) PROVE Inductive'
    <3>1. Bookkeeping' /\ IdsFresh' /\ PendingEarned'
      BY <2>7 DEF ChildExits, Inductive, TypeOK, Bookkeeping, PendingEarned, IdsFresh,
                  state_vars, aux_vars
    <3>2. SessionEarned' /\ IdentityEarned'
      BY <2>7 DEF ChildExits, Inductive, SessionEarned, IdentityEarned, Earned,
                  state_vars, aux_vars
    <3> QED
      BY <3>1, <3>2 DEF Inductive
  <2>8. ASSUME NEW c \in Conns, ChallengeExpires(c) PROVE Inductive'
    <3>1. \A d \in Conns : challenges[d].pending_user = challenges'[d].pending_user
      BY <2>8 DEF ChallengeExpires, Inductive, TypeOK, ChallengeStates, NoChallenge
    <3> QED
      BY <2>8, <3>1, InductiveStable DEF ChallengeExpires, os_vars, aux_vars
  <2>9. CASE UNCHANGED vars
    BY <2>9, InductiveStable
       DEF vars, monitor_vars, state_vars, os_vars, aux_vars, socket_vars
  <2> QED
    BY <2>1, <2>2, <2>3, <2>4, <2>5, <2>6, <2>7, <2>8, <2>9
       DEF Next, MonitorStep, WorldStep
<1> QED
  BY <1>1, <1>2, MonitorTyped, PTL DEF Spec

\* The child store, the reverse index, the PAM guards and the operating system
\* agree while the loop runs, so Close finds every child of its connection.
THEOREM BookkeepingExact == Spec => []Bookkeeping
<1>1. Inductive => Bookkeeping
  BY DEF Inductive
<1> QED
  BY <1>1, InductiveHolds, PTL

\* Every session runs as a user all of whose factors, the one-time code included
\* when Config.totp asks for it, were shown on its own connection since the
\* connection was last closed, and whom the policy permits.
THEOREM SessionsEarned == Spec => []SessionEarned
<1>1. Inductive => SessionEarned
  BY DEF Inductive
<1> QED
  BY <1>1, InductiveHolds, PTL

\* A session id keeps its user for good and a collected session stays
\* collected: a late Reap or Signal never reaches another session.
THEOREM SessionIdsUnique == Spec => SessionIdNeverReused
<1> DEFINE Kept == \A s \in SessionIds :
                     /\ proc[s] # "none" => uid'[s] = uid[s]
                     /\ proc[s] = "reaped" => proc'[s] = "reaped"
<1>1. Inductive /\ [Next]_vars => [Kept]_vars
  <2> SUFFICES ASSUME Inductive, Next PROVE Kept
    OBVIOUS
  <2>0. TypeOK
    BY DEF Inductive
  <2>1. ASSUME UNCHANGED <<proc, uid>> PROVE Kept
    BY <2>1
  <2>2. CASE Authenticate \/ Signal \/ SkipBad \/ ControlClosed \/ WorkerDies
             \/ WorkerSends \/ WorkerReceives
    BY <2>1, <2>2
       DEF Authenticate, Signal, SkipBad, ControlClosed, WorkerDies, WorkerSends,
           WorkerReceives, monitor_vars, state_vars, os_vars, aux_vars
  <2>3. ASSUME NEW op \in SpawnOps, NEW fds \in 0..3, Spawn(op, fds) PROVE Kept
    <3> DEFINE r == Head(to_monitor)
    <3>1. CASE UNCHANGED <<proc, uid>>
      BY <2>1, <3>1
    <3>2. CASE next_session < MaxSession /\ Alloc(r.conn, users[r.conn])
      <4>1. next_session + 1 \in SessionIds /\ next_session + 1 > next_session
        BY <2>0, <3>2, MonitorAssumption DEF TypeOK, SessionIds
      <4>2. proc[next_session + 1] = "none"
        BY <4>1 DEF Inductive, IdsFresh
      <4> QED
        BY <2>0, <3>2, <4>1, <4>2 DEF TypeOK, Alloc
    <3> QED
      BY <2>3, <3>1, <3>2 DEF Spawn, os_vars
  <2>4. CASE SpawnShell \/ SpawnExec \/ SpawnTransfer \/ SpawnTransferWrite \/ SpawnMkdir
    BY <2>3, <2>4
       DEF SpawnShell, SpawnExec, SpawnTransfer, SpawnTransferWrite, SpawnMkdir,
           SpawnOps, PamSpawnOps, PlainSpawnOps
  <2>5. CASE Reap \/ Close
    BY <2>0, <2>5 DEF TypeOK, Reap, Close, ReapChildren
  <2>6. ASSUME NEW s \in SessionIds, ChildExits(s) PROVE Kept
    BY <2>0, <2>6 DEF TypeOK, ChildExits
  <2>7. ASSUME NEW c \in Conns, ChallengeExpires(c) PROVE Kept
    BY <2>1, <2>7 DEF ChallengeExpires, os_vars
  <2> QED
    BY <2>2, <2>4, <2>5, <2>6, <2>7 DEF Next, MonitorStep, WorldStep
<1> QED
  BY <1>1, InductiveHolds, PTL DEF Spec, SessionIdNeverReused

-----------------------------------------------------------------------------
(* One guess per challenge                                                 *)

\* The tokens already minted: parked on some connection, or spent on a guess.
Minted == {t \in RequestIds : \/ guesses[t] > 0
                              \/ \E c \in Conns : challenges[c].token = t}

\* The requests in the socket are numbered in the order they were sent.
QueueOrdered ==
  \A k \in 1..Len(to_monitor) :
    /\ to_monitor[k].id <= next_req
    /\ \A j \in 1..(k - 1) : to_monitor[j].id < to_monitor[k].id

\* A token was minted by a request served before all those in the socket.
MintedEarlier ==
  \A t \in Minted : /\ t <= next_req
                    /\ \A k \in 1..Len(to_monitor) : t < to_monitor[k].id

\* A parked token is parked once and no code was evaluated against it yet.
ParkedOnce ==
  \A c \in Conns : challenges[c].token # 0 =>
    /\ guesses[challenges[c].token] = 0
    /\ \A d \in Conns : challenges[d].token = challenges[c].token => d = c

\* The inductive invariant of OneGuess.  That a guess consumes its challenge
\* is ParkedOnce; that no later request mints the same token is the rest.
Once ==
  /\ QueueOrdered
  /\ MintedEarlier
  /\ ParkedOnce
  /\ OneGuess

\* The ids left in the socket after a receive are ids that were in it.
LEMMA TailIds ==
  ASSUME TypeOK, to_monitor # <<>>, to_monitor' = Tail(to_monitor)
  PROVE  /\ Len(to_monitor') = Len(to_monitor) - 1
         /\ \A k \in 1..Len(to_monitor') : /\ k + 1 \in 1..Len(to_monitor)
                                           /\ to_monitor'[k] = to_monitor[k + 1]
BY DEF TypeOK

LEMMA QueueOrderedTail ==
  ASSUME TypeOK, QueueOrdered, to_monitor # <<>>, to_monitor' = Tail(to_monitor),
         next_req' = next_req
  PROVE  QueueOrdered'
BY TailIds DEF TypeOK, QueueOrdered

\* Steps that mint nothing and evaluate no code.
LEMMA OnceStable ==
  ASSUME TypeOK, TypeOK', Once, guesses' = guesses, next_req' = next_req,
         \A c \in Conns : challenges'[c].token \in {challenges[c].token, 0},
         \/ to_monitor' = to_monitor
         \/ to_monitor # <<>> /\ to_monitor' = Tail(to_monitor)
  PROVE  Once'
<1>1. QueueOrdered'
  BY QueueOrderedTail DEF Once, QueueOrdered
<1>2. Minted' \subseteq Minted
  BY DEF Minted, RequestIds
<1>3. MintedEarlier'
  <2> SUFFICES ASSUME NEW t \in Minted'
               PROVE  /\ t <= next_req'
                      /\ \A k \in 1..Len(to_monitor') : t < to_monitor'[k].id
    BY DEF MintedEarlier
  <2>1. /\ t <= next_req
        /\ \A k \in 1..Len(to_monitor) : t < to_monitor[k].id
    BY <1>2 DEF Once, MintedEarlier
  <2> QED
    BY <2>1, TailIds
<1>4. ParkedOnce'
  BY DEF Once, ParkedOnce
<1>5. OneGuess'
  BY DEF Once, OneGuess
<1> QED
  BY <1>1, <1>3, <1>4, <1>5 DEF Once

LEMMA AuthenticateOnce ==
  ASSUME TypeOK, TypeOK', Once, Authenticate
  PROVE  Once'
<1> DEFINE r  == Head(to_monitor)
           c  == r.conn
           ch == Take(c, r.answer)
           v  == verdict(r.cred, r.binding, ch)
           t  == r.answer.token
           spent == ch.round = 2 /\ r.cred.kind = "password"
<1>1. /\ c \in Conns /\ r.cred \in Credentials /\ r.id \in RequestIds
      /\ r.binding \in Conns /\ r.answer \in Answers
  BY ReceivesTyped, RequestShape DEF Authenticate, AuthRequest
<1>2. /\ challenges' = [challenges EXCEPT ![c] = Parked(c, r, v)]
      /\ guesses' = IF spent THEN [guesses EXCEPT ![t] = @ + 1] ELSE guesses
      /\ next_req' = next_req
      /\ to_monitor # <<>> /\ to_monitor' = Tail(to_monitor)
  BY DEF Authenticate, Receives
<1>3. spent => /\ t \in RequestIds /\ challenges[c].token = t /\ r.answer # NoAnswer
  BY <1>1 DEF Take, NoResume, Answers
<1>4. Parked(c, r, v).token \in {challenges[c].token, 0, r.id}
  BY DEF Parked, AfterTake, NoChallenge
<1>5. spent => Parked(c, r, v).token \in {0, r.id}
  BY <1>3 DEF Parked, AfterTake, NoChallenge
<1>6. r = to_monitor[1] /\ 1 \in 1..Len(to_monitor)
  BY <1>2 DEF TypeOK
<1> HIDE DEF r, c, ch, v, t, spent
<1>7. /\ r.id <= next_req
      /\ \A k \in 1..Len(to_monitor') : r.id < to_monitor'[k].id
  BY <1>2, <1>6, TailIds DEF Once, QueueOrdered
<1>8. \A u \in Minted : u < r.id
  BY <1>6 DEF Once, MintedEarlier
<1>9. Minted' \subseteq Minted \cup {r.id}
  <2> SUFFICES ASSUME NEW u \in RequestIds, u # r.id,
                      guesses'[u] > 0 \/ \E d \in Conns : challenges'[d].token = u
               PROVE  u \in Minted
    BY DEF Minted
  <2>1. u # 0
    BY DEF RequestIds
  <2>2. CASE guesses'[u] > 0
    BY <1>1, <1>2, <1>3, <2>2 DEF TypeOK, Minted
  <2>3. ASSUME NEW d \in Conns, challenges'[d].token = u PROVE u \in Minted
    BY <1>1, <1>2, <1>4, <2>1, <2>3 DEF TypeOK, Minted
  <2> QED
    BY <2>2, <2>3
<1>10. QueueOrdered'
  BY <1>2, QueueOrderedTail DEF Once
<1>11. MintedEarlier'
  <2> SUFFICES ASSUME NEW u \in Minted'
               PROVE  /\ u <= next_req'
                      /\ \A k \in 1..Len(to_monitor') : u < to_monitor'[k].id
    BY DEF MintedEarlier
  <2>1. CASE u = r.id
    BY <2>1, <1>2, <1>7
  <2>2. CASE u \in Minted
    BY <2>2, <1>2, TailIds DEF Once, MintedEarlier
  <2> QED
    BY <2>1, <2>2, <1>9
<1>12. \A d \in Conns : challenges[d].token # 0 => challenges[d].token \in Minted
  BY DEF TypeOK, ChallengeStates, NoChallenge, Minted
<1>13. guesses[r.id] = 0 /\ r.id # 0
  <2>1. r.id \in Nat \ {0} /\ guesses[r.id] \in Nat
    BY <1>1 DEF TypeOK, RequestIds
  <2>2. r.id \notin Minted
    BY <1>8, <2>1
  <2> QED
    BY <1>1, <2>1, <2>2 DEF Minted
<1>14. ParkedOnce'
  <2> SUFFICES ASSUME NEW d \in Conns, challenges'[d].token # 0
               PROVE  /\ guesses'[challenges'[d].token] = 0
                      /\ \A e \in Conns : challenges'[e].token = challenges'[d].token => e = d
    BY DEF ParkedOnce
  <2>0. \A e \in Conns : /\ e # c => challenges'[e] = challenges[e]
                         /\ e = c => challenges'[e].token \in {challenges[e].token, 0, r.id}
                         /\ e = c /\ spent => challenges'[e].token \in {0, r.id}
    BY <1>1, <1>2, <1>4, <1>5 DEF TypeOK
  <2>1. \A e \in Conns : challenges[e].token # r.id
    BY <1>1, <1>8, <1>12, <1>13 DEF RequestIds
  <2>2. \A u : u \in RequestIds /\ guesses[u] = 0 /\ (u = t /\ spent => FALSE) => guesses'[u] = 0
    BY <1>2 DEF TypeOK
  <2>3. spent => t # r.id
    BY <1>1, <1>3, <2>1
  <2>4. CASE challenges'[d].token = r.id
    BY <2>0, <2>1, <2>2, <2>3, <2>4, <1>1, <1>13
  <2>5. CASE challenges'[d].token # r.id
    <3>1. challenges'[d].token = challenges[d].token
      BY <2>0, <2>5
    <3>2. challenges[d].token \in RequestIds /\ guesses[challenges[d].token] = 0
      BY <3>1, <1>12 DEF Once, ParkedOnce, Minted
    <3>3. \A e \in Conns : challenges[e].token = challenges[d].token => e = d
      BY <3>1 DEF Once, ParkedOnce
    <3>4. spent => challenges[d].token # t
      BY <3>1, <3>3, <2>0, <2>5, <1>1, <1>3
    <3>5. \A e \in Conns : challenges'[e].token = challenges[d].token
                             => challenges[e].token = challenges[d].token
      BY <3>1, <3>2, <2>0, <2>5
    <3> QED
      BY <3>1, <3>2, <3>3, <3>4, <3>5, <2>2
  <2> QED
    BY <2>4, <2>5
<1>15. OneGuess'
  <2>1. spent => guesses[t] = 0
    BY <1>1, <1>3, <1>13 DEF Once, ParkedOnce, RequestIds
  <2> QED
    BY <2>1, <1>2 DEF TypeOK, Once, OneGuess
<1> QED
  BY <1>10, <1>11, <1>14, <1>15 DEF Once

LEMMA SendOnce ==
  ASSUME TypeOK, TypeOK', Once, WorkerSends
  PROVE  Once'
<1>1. PICK q \in RequestsNumbered(next_req + 1) : to_monitor' = Append(to_monitor, q)
  BY DEF WorkerSends
<1>2. q.id = next_req + 1
  BY DEF RequestsNumbered
<1>3. UNCHANGED <<challenges, guesses>> /\ next_req' = next_req + 1 /\ next_req \in Nat
  BY DEF WorkerSends, monitor_vars, state_vars, aux_vars, TypeOK
<1>4. /\ Len(to_monitor') = Len(to_monitor) + 1 /\ Len(to_monitor) \in Nat
      /\ \A k \in 1..Len(to_monitor) : to_monitor'[k] = to_monitor[k]
      /\ to_monitor'[Len(to_monitor) + 1] = q
  BY <1>1 DEF TypeOK
<1>5. \A k \in 1..Len(to_monitor) : to_monitor[k].id <= next_req /\ to_monitor[k].id \in Nat
  <2>1. \A k \in 1..Len(to_monitor) : to_monitor[k] \in Requests
    BY DEF TypeOK
  <2>2. \A x \in Requests : x.id \in Nat
    BY DEF Requests, AuthRequest, SpawnRequest, SessionRequest, CloseRequest, BadRequest,
           RequestIds
  <2> QED
    BY <2>1, <2>2 DEF Once, QueueOrdered
<1>6. QueueOrdered'
  BY <1>2, <1>3, <1>4, <1>5 DEF Once, QueueOrdered
<1>7. MintedEarlier'
  <2> SUFFICES ASSUME NEW t \in Minted'
               PROVE  /\ t <= next_req'
                      /\ \A k \in 1..Len(to_monitor') : t < to_monitor'[k].id
    BY DEF MintedEarlier
  <2>1. t \in Minted /\ t \in Nat
    BY <1>3 DEF Minted, RequestIds
  <2>2. t <= next_req /\ \A k \in 1..Len(to_monitor) : t < to_monitor[k].id
    BY <2>1 DEF Once, MintedEarlier
  <2> QED
    BY <2>1, <2>2, <1>2, <1>3, <1>4
<1>8. ParkedOnce' /\ OneGuess'
  BY <1>3 DEF Once, ParkedOnce, OneGuess
<1> QED
  BY <1>6, <1>7, <1>8 DEF Once

\* A parked challenge is good for one evaluation of a one-time code, whatever
\* the worker sends: ChallengeStore::take removes the entry before it looks at
\* the answer, and a token names one challenge for good.
THEOREM OneGuessHolds == Spec => []OneGuess
<1>1. Init => Once
  <2> SUFFICES ASSUME Init PROVE Once
    OBVIOUS
  <2>1. Minted = {}
    BY DEF Init, Minted, NoChallenge, RequestIds
  <2> QED
    BY <2>1 DEF Init, Once, QueueOrdered, MintedEarlier, ParkedOnce, OneGuess, NoChallenge
<1>2. TypeOK /\ TypeOK' /\ Once /\ [Next]_vars => Once'
  <2> SUFFICES ASSUME TypeOK, TypeOK', Once, [Next]_vars PROVE Once'
    OBVIOUS
  <2>1. CASE Authenticate
    BY <2>1, AuthenticateOnce
  <2>2. ASSUME NEW op \in SpawnOps, NEW fds \in 0..3, Spawn(op, fds) PROVE Once'
    BY <2>2, OnceStable DEF Spawn, Receives, aux_vars
  <2>3. CASE SpawnShell \/ SpawnExec \/ SpawnTransfer \/ SpawnTransferWrite \/ SpawnMkdir
    BY <2>2, <2>3
       DEF SpawnShell, SpawnExec, SpawnTransfer, SpawnTransferWrite, SpawnMkdir,
           SpawnOps, PamSpawnOps, PlainSpawnOps
  <2>4. CASE Reap \/ Signal \/ SkipBad
    BY <2>4, OnceStable
       DEF Reap, Signal, SkipBad, Receives, monitor_vars, state_vars, aux_vars
  <2>5. CASE Close
    <3>1. \A c \in Conns : challenges'[c].token \in {challenges[c].token, 0}
      BY <2>5 DEF Close, TypeOK, NoChallenge
    <3> QED
      BY <2>5, <3>1, OnceStable DEF Close, Receives
  <2>6. CASE ControlClosed
    <3>1. \A c \in Conns : challenges'[c].token \in {challenges[c].token, 0}
      BY <2>6 DEF ControlClosed, NoChallenge
    <3> QED
      BY <2>6, <3>1, OnceStable DEF ControlClosed, aux_vars, socket_vars
  <2>7. ASSUME NEW s \in SessionIds, ChildExits(s) PROVE Once'
    BY <2>7, OnceStable DEF ChildExits, state_vars, aux_vars, socket_vars
  <2>8. ASSUME NEW c \in Conns, ChallengeExpires(c) PROVE Once'
    <3>1. \A d \in Conns : challenges'[d].token \in {challenges[d].token, 0}
      BY <2>8 DEF ChallengeExpires, TypeOK, ChallengeStates, NoChallenge
    <3> QED
      BY <2>8, <3>1, OnceStable DEF ChallengeExpires, aux_vars, socket_vars
  <2>9. CASE WorkerDies \/ WorkerReceives \/ UNCHANGED vars
    BY <2>9, OnceStable
       DEF WorkerDies, WorkerReceives, vars, monitor_vars, state_vars, aux_vars, socket_vars
  <2>10. CASE WorkerSends
    BY <2>10, SendOnce
  <2> QED
    BY <2>1, <2>3, <2>4, <2>5, <2>6, <2>7, <2>8, <2>9, <2>10
       DEF Next, MonitorStep, WorldStep
<1>3. Once => OneGuess
  BY DEF Once
<1> QED
  BY <1>1, <1>2, <1>3, MonitorTyped, PTL DEF Spec
=============================================================================
