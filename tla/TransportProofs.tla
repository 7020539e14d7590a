--------------------------- MODULE TransportProofs ---------------------------
(***************************************************************************)
(* For every set of IPs, connections and streams and every cap: the        *)
(* limiter's map counts exactly the connection guards alive; the accept    *)
(* path uses it as the limiter's own specification allows, so an IP's      *)
(* count is the number of its connections; the failures of a connection    *)
(* are bounded although the gate is checked before they are counted; and   *)
(* an IP that keeps a connection open cannot shed its backoff.             *)
(***************************************************************************)
EXTENDS Transport, FiniteSetTheorems, TLAPS

-----------------------------------------------------------------------------
(* The limiter                                                             *)

\* The constants are natural numbers (named once for the leaves below).
LEMMA ConstantsNat ==
  /\ MaxConnsPerIp \in Nat /\ MaxFails \in Nat
  /\ BaseBackoff \in Nat /\ MaxBackoff \in Nat
BY LimiterAssumption

\* Every method of the limiter keeps the map's types.
LEMMA LimiterTypeStep ==
  ASSUME LimiterTypeOK, [LimiterNext]_limiter_vars
  PROVE  LimiterTypeOK'
<1> USE ConstantsNat DEF LimiterTypeOK, EntryConns, EntryFails, Retained
<1>1. ASSUME NEW ip \in Ips, Admit(ip) PROVE LimiterTypeOK'
  BY <1>1 DEF Admit
<1>2. ASSUME NEW ip \in Ips, Refuse(ip) PROVE LimiterTypeOK'
  BY <1>2 DEF Refuse
<1>3. ASSUME NEW ip \in Ips, RecordFailure(ip) PROVE LimiterTypeOK'
  BY <1>3 DEF RecordFailure
<1>4. ASSUME NEW ip \in Ips, RecordSuccess(ip) PROVE LimiterTypeOK'
  BY <1>4 DEF RecordSuccess
<1>5. ASSUME NEW ip \in Ips, DropGuard(ip) PROVE LimiterTypeOK'
  BY <1>5 DEF DropGuard
<1>6. ASSUME NEW ip \in Ips, EntryAges(ip) PROVE LimiterTypeOK'
  BY <1>6 DEF EntryAges
<1>7. CASE UNCHANGED limiter_vars
  BY <1>7 DEF limiter_vars
<1> QED
  BY <1>1, <1>2, <1>3, <1>4, <1>5, <1>6, <1>7 DEF LimiterNext

\* Type correctness of the limiter's map and of the guard count.
THEOREM LimiterTyped == LimiterSpec => []LimiterTypeOK
<1>1. LimiterInit => LimiterTypeOK
  BY ConstantsNat DEF LimiterInit, LimiterTypeOK
<1>2. LimiterTypeOK /\ [LimiterNext]_limiter_vars => LimiterTypeOK'
  BY LimiterTypeStep
<1> QED
  BY <1>1, <1>2, PTL DEF LimiterSpec

\* The two safety properties are inductive together: the cap on guards follows
\* from the cap on the count because the count is exact.
THEOREM LimiterExact == LimiterSpec => [](CountsGuards /\ CapHeld)
<1> DEFINE Inv == CountsGuards /\ CapHeld
<1>1. LimiterInit => Inv
  BY ConstantsNat DEF LimiterInit, CountsGuards, CapHeld, EntryConns
<1>2. LimiterTypeOK /\ Inv /\ [LimiterNext]_limiter_vars => Inv'
  <2> SUFFICES ASSUME LimiterTypeOK, Inv, [LimiterNext]_limiter_vars PROVE Inv'
    OBVIOUS
  <2> USE ConstantsNat DEF LimiterTypeOK, CountsGuards, CapHeld, EntryConns
  <2>1. ASSUME NEW ip \in Ips, Admit(ip) PROVE Inv'
    BY <2>1 DEF Admit, Retained
  <2>2. ASSUME NEW ip \in Ips, Refuse(ip) PROVE Inv'
    BY <2>2 DEF Refuse, Retained
  <2>3. ASSUME NEW ip \in Ips, RecordFailure(ip) PROVE Inv'
    BY <2>3 DEF RecordFailure
  <2>4. ASSUME NEW ip \in Ips, RecordSuccess(ip) PROVE Inv'
    BY <2>4 DEF RecordSuccess
  <2>5. ASSUME NEW ip \in Ips, DropGuard(ip) PROVE Inv'
    BY <2>5 DEF DropGuard
  <2>6. ASSUME NEW ip \in Ips, EntryAges(ip) PROVE Inv'
    BY <2>6 DEF EntryAges
  <2>7. CASE UNCHANGED limiter_vars
    BY <2>7 DEF limiter_vars
  <2> QED
    BY <2>1, <2>2, <2>3, <2>4, <2>5, <2>6, <2>7 DEF LimiterNext
<1> QED
  BY <1>1, <1>2, LimiterTyped, PTL DEF LimiterSpec

-----------------------------------------------------------------------------
(* The backoff                                                             *)

\* Doubling: the shifts the code can take, one by one.
LEMMA Doubles ==
  ASSUME NEW k \in 0..15
  PROVE  2^k \in Nat /\ 2^(k + 1) \in Nat /\ 2^k <= 2^(k + 1)
<1>0. CASE k = 0
  BY <1>0
<1>1. CASE k = 1
  BY <1>1
<1>2. CASE k = 2
  BY <1>2
<1>3. CASE k = 3
  BY <1>3
<1>4. CASE k = 4
  BY <1>4
<1>5. CASE k = 5
  BY <1>5
<1>6. CASE k = 6
  BY <1>6
<1>7. CASE k = 7
  BY <1>7
<1>8. CASE k = 8
  BY <1>8
<1>9. CASE k = 9
  BY <1>9
<1>10. CASE k = 10
  BY <1>10
<1>11. CASE k = 11
  BY <1>11
<1>12. CASE k = 12
  BY <1>12
<1>13. CASE k = 13
  BY <1>13
<1>14. CASE k = 14
  BY <1>14
<1>15. CASE k = 15
  BY <1>15
<1> QED
  BY <1>0, <1>1, <1>2, <1>3, <1>4, <1>5, <1>6, <1>7, <1>8,
     <1>9, <1>10, <1>11, <1>12, <1>13, <1>14, <1>15

\* One more failure never makes the wait shorter, saturation included.
LEMMA BackoffMonotone ==
  ASSUME NEW n \in Nat
  PROVE  /\ backoff(n) \in Nat
         /\ backoff(n + 1) \in Nat
         /\ backoff(n) <= backoff(n + 1)
<1> DEFINE Capped(w) == IF w < MaxBackoff THEN w ELSE MaxBackoff
<1>1. \A a, b \in Nat : a <= b => /\ Capped(a) \in Nat /\ Capped(b) \in Nat
                                  /\ Capped(a) <= Capped(b)
  BY ConstantsNat
<1>2. \A a, b \in Nat : a <= b => /\ BaseBackoff * a \in Nat /\ BaseBackoff * b \in Nat
                                  /\ BaseBackoff * a <= BaseBackoff * b
  BY ConstantsNat
<1> HIDE DEF Capped
<1>3. CASE n = 0
  <2>1. backoff(0) = 0 /\ backoff(1) = Capped(BaseBackoff * 2^0)
    BY DEF backoff, Capped
  <2>2. backoff(1) \in Nat
    BY <1>1, <1>2, <2>1
  <2> QED
    BY <1>3, <2>1, <2>2
<1>4. CASE n \in 1..16
  <2>1. PICK k \in 0..15 : n = k + 1
    <3>1. n - 1 \in 0..15 /\ n = (n - 1) + 1
      BY <1>4
    <3> QED
      BY <3>1
  <2>2. /\ backoff(n) = Capped(BaseBackoff * 2^k)
        /\ backoff(n + 1) = Capped(BaseBackoff * 2^(k + 1))
    <3>1. n # 0 /\ n + 1 # 0 /\ n - 1 = k /\ (n + 1) - 1 = k + 1 /\ n - 1 < 16
      BY <1>4, <2>1
    <3>2. k + 1 = IF k + 1 < 16 THEN k + 1 ELSE 16
      BY <2>1
    <3> QED
      BY <3>1, <3>2 DEF backoff, Capped
  <2>3. 2^k \in Nat /\ 2^(k + 1) \in Nat /\ 2^k <= 2^(k + 1)
    BY Doubles
  <2> DEFINE x == 2^k
             y == 2^(k + 1)
  <2> HIDE DEF x, y
  <2>4. x \in Nat /\ y \in Nat /\ x <= y
    BY <2>3 DEF x, y
  <2>5. BaseBackoff * x \in Nat /\ BaseBackoff * y \in Nat /\ BaseBackoff * x <= BaseBackoff * y
    BY <2>4, <1>2
  <2>6. Capped(BaseBackoff * x) \in Nat /\ Capped(BaseBackoff * y) \in Nat
        /\ Capped(BaseBackoff * x) <= Capped(BaseBackoff * y)
    BY <2>5, <1>1
  <2> QED
    BY <2>2, <2>6 DEF x, y
<1>5. CASE n > 16
  <2>1. /\ backoff(n) = Capped(BaseBackoff * 2^16)
        /\ backoff(n + 1) = Capped(BaseBackoff * 2^16)
    BY <1>5 DEF backoff, Capped
  <2>2. BaseBackoff * 65536 \in Nat
    BY ConstantsNat
  <2>3. Capped(BaseBackoff * 2^16) \in Nat
    BY <1>1, <2>2
  <2> QED
    BY <2>1, <2>3
<1> QED
  BY <1>3, <1>4, <1>5

\* No method of the limiter but record_success shortens the wait of an IP
\* that has a connection open.
LEMMA BackoffStep ==
  ASSUME LimiterTypeOK, CountsGuards, LimiterNext, NEW ip \in Ips,
         Backoff(ip)' < Backoff(ip), guards[ip] # 0
  PROVE  RecordSuccess(ip)
<1> DEFINE n == EntryFails(known, ip)
           m == EntryFails(known, ip)'
<1>1. n \in Nat /\ m \in Nat => Backoff(ip) = backoff(n) /\ Backoff(ip)' = backoff(m)
  BY DEF Backoff, backoff
<1>2. n \in 0..MaxFails /\ n \in Nat
  BY ConstantsNat DEF LimiterTypeOK, EntryFails
<1>3. ip \in known /\ conns[ip] > 0
  BY ConstantsNat DEF LimiterTypeOK, CountsGuards, EntryConns
<1>4. ip \in Retained
  BY <1>3 DEF Retained
<1>5. m # n /\ (m \in Nat => m # n + 1)
  BY <1>1, <1>2, BackoffMonotone
<1>6. PICK jp \in Ips : \/ Admit(jp) \/ Refuse(jp) \/ RecordFailure(jp)
                        \/ RecordSuccess(jp) \/ DropGuard(jp) \/ EntryAges(jp)
  BY DEF LimiterNext
<1>7. CASE Admit(jp) \/ Refuse(jp)
  <2>1. m = n
    BY <1>3, <1>4, <1>7 DEF Admit, Refuse, EntryFails, LimiterTypeOK
  <2> QED
    BY <2>1, <1>5
<1>8. CASE RecordFailure(jp)
  <2>1. /\ n = fails[ip] /\ m = fails'[ip]
        /\ fails' = [fails EXCEPT ![jp] = IF EntryFails(known, jp) < MaxFails
                                         THEN EntryFails(known, jp) + 1 ELSE MaxFails]
    BY <1>3, <1>8 DEF RecordFailure, EntryFails
  <2>2. m = n \/ m = n + 1
    <3>1. CASE jp = ip
      <4>1. m = IF n < MaxFails THEN n + 1 ELSE MaxFails
        BY <2>1, <3>1 DEF LimiterTypeOK
      <4> QED
        BY <4>1, <1>2, ConstantsNat
    <3>2. CASE jp # ip
      BY <2>1, <3>2 DEF LimiterTypeOK
    <3> QED
      BY <3>1, <3>2
  <2> QED
    BY <2>2, <1>2, <1>5
<1>9. CASE RecordSuccess(jp)
  <2>1. jp # ip => m = n
    BY <1>3, <1>9 DEF RecordSuccess, EntryFails, LimiterTypeOK
  <2> QED
    BY <2>1, <1>5, <1>9
<1>10. CASE DropGuard(jp) \/ EntryAges(jp)
  <2>1. m = n
    BY <1>10 DEF DropGuard, EntryAges, EntryFails
  <2> QED
    BY <2>1, <1>5
<1> QED
  BY <1>6, <1>7, <1>8, <1>9, <1>10

-----------------------------------------------------------------------------
(* The accept path                                                         *)

\* Every step of the accept path is one method of the limiter or leaves it
\* alone.
LEMMA LimiterUse ==
  ASSUME TransportTypeOK, [TransportNext]_connection_vars
  PROVE  [LimiterNext]_limiter_vars
<1>1. ASSUME NEW c \in Connections, Accept(c) \/ ConnEnds(c) \/ Closed(c)
      PROVE  [LimiterNext]_limiter_vars
  <2>1. IpOf[c] \in Ips
    BY TransportAssumption
  <2> QED
    BY <1>1, <2>1 DEF Accept, ConnEnds, Closed, LimiterNext
<1>2. ASSUME NEW t \in Tasks, NEW c \in Connections, AcceptRequest(t, c)
      PROVE  [LimiterNext]_limiter_vars
  BY <1>2 DEF AcceptRequest
<1>3. ASSUME NEW t \in Tasks, Gate(t) \/ StartAuth(t) \/ Challenged(t) \/ Served(t)
      PROVE  [LimiterNext]_limiter_vars
  BY <1>3 DEF Gate, StartAuth, Challenged, Served
<1>4. ASSUME NEW t \in Tasks, Denied(t) \/ Allowed(t)
      PROVE  [LimiterNext]_limiter_vars
  <2>1. IpOf[on[t]] \in Ips
    BY <1>4, TransportAssumption DEF Denied, Allowed, TransportTypeOK
  <2> QED
    BY <1>4, <2>1 DEF Denied, Allowed, LimiterNext
<1>5. CASE (\E ip \in Ips : Ages(ip)) \/ UNCHANGED connection_vars
  BY <1>5 DEF Ages, connection_vars, LimiterNext
<1> QED
  BY <1>1, <1>2, <1>3, <1>4, <1>5 DEF TransportNext

\* Type correctness of the accept path; a task past "idle" has a connection.
THEOREM TransportTyped == TransportSpec => []TransportTypeOK
<1>1. TransportInit => TransportTypeOK
  BY ConstantsNat DEF TransportInit, LimiterInit, TransportTypeOK, LimiterTypeOK, PCs
<1>2. TransportTypeOK /\ [TransportNext]_connection_vars => TransportTypeOK'
  <2> SUFFICES ASSUME TransportTypeOK, [TransportNext]_connection_vars PROVE TransportTypeOK'
    OBVIOUS
  <2>1. [LimiterNext]_limiter_vars
    BY LimiterUse
  <2>2. LimiterTypeOK'
    BY <2>1, LimiterTypeStep DEF TransportTypeOK
  <2>3. CASE \E c \in Connections : Accept(c) \/ ConnEnds(c) \/ Closed(c)
    BY <2>2, <2>3 DEF TransportTypeOK, Accept, ConnEnds, Closed
  <2>4. ASSUME NEW t \in Tasks, NEW c \in Connections, AcceptRequest(t, c) PROVE TransportTypeOK'
    BY <2>2, <2>4 DEF TransportTypeOK, AcceptRequest, PCs
  <2>5. ASSUME NEW t \in Tasks,
               \/ Gate(t) \/ StartAuth(t) \/ Challenged(t) \/ Allowed(t) \/ Served(t)
        PROVE  TransportTypeOK'
    BY <2>2, <2>5 DEF TransportTypeOK, Gate, StartAuth, Challenged, Allowed, Served, PCs
  <2>6. ASSUME NEW t \in Tasks, Denied(t) PROVE TransportTypeOK'
    BY <2>2, <2>6 DEF TransportTypeOK, Denied, PCs
  <2>7. CASE (\E ip \in Ips : Ages(ip)) \/ UNCHANGED connection_vars
    BY <2>2, <2>7 DEF TransportTypeOK, Ages, connection_vars
  <2> QED
    BY <2>3, <2>4, <2>5, <2>6, <2>7 DEF TransportNext
<1> QED
  BY <1>1, <1>2, PTL DEF TransportSpec

\* The accept path implements the limiter's specification: it calls the
\* limiter's methods one at a time, and drops only guards it was handed.
THEOREM TransportUsesLimiter == TransportSpec => LimiterSpec
<1>1. TransportInit => LimiterInit
  BY DEF TransportInit
<1>2. TransportTypeOK /\ [TransportNext]_connection_vars => [LimiterNext]_limiter_vars
  BY LimiterUse
<1> QED
  BY <1>1, <1>2, TransportTyped, PTL DEF TransportSpec, LimiterSpec

\* Under the accept path too, the map counts the guards alive and no IP has
\* more of them than the cap.
THEOREM TransportCounts == TransportSpec => [](CountsGuards /\ CapHeld)
BY TransportUsesLimiter, LimiterExact, PTL

\* The wait before an attempt shrinks only after a success, or once the IP has
\* no connection left: the sweep cannot be used to shed failures.
THEOREM BackoffHolds == TransportSpec => BackoffSticks
<1> DEFINE Sticks == \A ip \in Ips :
                       Backoff(ip)' < Backoff(ip) => RecordSuccess(ip) \/ guards[ip] = 0
<1>1. TransportTypeOK /\ CountsGuards /\ [LimiterNext]_limiter_vars => [Sticks]_limiter_vars
  BY BackoffStep DEF TransportTypeOK
<1>2. LimiterSpec => [][LimiterNext]_limiter_vars
  BY DEF LimiterSpec
<1> QED
  BY <1>1, <1>2, TransportTyped, TransportUsesLimiter, TransportCounts, PTL
     DEF BackoffSticks

-----------------------------------------------------------------------------
(* One slot per connection                                                 *)

\* The connections of an IP whose task is alive.
Live(ip) == {c \in Connections : IpOf[c] = ip /\ conn[c] \in {"open", "closing"}}

\* The inductive invariant: one guard per live connection, and only finitely
\* many of them at any time, however many connections there may ever be.
GuardPerConnection ==
  \A ip \in Ips : IsFiniteSet(Live(ip)) /\ guards[ip] = Cardinality(Live(ip))

\* A connection that goes from "new" to "open" adds itself to its IP's set.
LEMMA OpenAdds ==
  ASSUME TransportTypeOK, GuardPerConnection, NEW c \in Connections, conn[c] = "new",
         conn' = [conn EXCEPT ![c] = "open"], Admit(IpOf[c])
  PROVE  GuardPerConnection'
<1> SUFFICES ASSUME NEW ip \in Ips
             PROVE  IsFiniteSet(Live(ip)') /\ guards'[ip] = Cardinality(Live(ip)')
  BY DEF GuardPerConnection
<1>1. IsFiniteSet(Live(ip)) /\ guards[ip] = Cardinality(Live(ip))
  BY DEF GuardPerConnection
<1>2. IpOf[c] \in Ips
  BY TransportAssumption
<1>3. CASE ip = IpOf[c]
  <2>1. c \notin Live(ip) /\ Live(ip)' = Live(ip) \cup {c}
    BY <1>3 DEF Live, TransportTypeOK
  <2>2. guards'[ip] = guards[ip] + 1
    BY <1>2, <1>3 DEF Admit, TransportTypeOK, LimiterTypeOK
  <2> QED
    BY <1>1, <2>1, <2>2, FS_AddElement
<1>4. CASE ip # IpOf[c]
  <2>1. Live(ip)' = Live(ip)
    BY <1>4 DEF Live, TransportTypeOK
  <2>2. guards'[ip] = guards[ip]
    BY <1>2, <1>4 DEF Admit, TransportTypeOK, LimiterTypeOK
  <2> QED
    BY <1>1, <2>1, <2>2
<1> QED
  BY <1>3, <1>4

\* A connection whose guard is dropped leaves its IP's set.
LEMMA ClosedRemoves ==
  ASSUME TransportTypeOK, GuardPerConnection, NEW c \in Connections, Closed(c)
  PROVE  GuardPerConnection'
<1> SUFFICES ASSUME NEW ip \in Ips
             PROVE  IsFiniteSet(Live(ip)') /\ guards'[ip] = Cardinality(Live(ip)')
  BY DEF GuardPerConnection
<1>1. IsFiniteSet(Live(ip)) /\ guards[ip] = Cardinality(Live(ip))
  BY DEF GuardPerConnection
<1>2. IpOf[c] \in Ips
  BY TransportAssumption
<1>3. CASE ip = IpOf[c]
  <2>1. c \in Live(ip) /\ Live(ip)' = Live(ip) \ {c}
    BY <1>3 DEF Live, TransportTypeOK, Closed
  <2>2. guards'[ip] = guards[ip] - 1
    BY <1>2, <1>3 DEF Closed, DropGuard, TransportTypeOK, LimiterTypeOK
  <2> QED
    BY <1>1, <2>1, <2>2, FS_RemoveElement
<1>4. CASE ip # IpOf[c]
  <2>1. Live(ip)' = Live(ip)
    BY <1>4 DEF Live, TransportTypeOK, Closed
  <2>2. guards'[ip] = guards[ip]
    BY <1>2, <1>4 DEF Closed, DropGuard, TransportTypeOK, LimiterTypeOK
  <2> QED
    BY <1>1, <2>1, <2>2
<1> QED
  BY <1>3, <1>4

\* The limiter's count of an IP is the number of its connections whose task is
\* alive, closing ones included, for any number of connections.
THEOREM SlotPerConnectionHolds == TransportSpec => []SlotPerConnection
<1>1. TransportInit => GuardPerConnection
  <2> SUFFICES ASSUME TransportInit PROVE GuardPerConnection
    OBVIOUS
  <2>1. \A ip \in Ips : Live(ip) = {} /\ guards[ip] = 0
    BY DEF TransportInit, LimiterInit, Live
  <2> QED
    BY <2>1, FS_EmptySet DEF GuardPerConnection
<1>2. TransportTypeOK /\ GuardPerConnection /\ [TransportNext]_connection_vars
        => GuardPerConnection'
  <2> SUFFICES ASSUME TransportTypeOK, GuardPerConnection, [TransportNext]_connection_vars
               PROVE  GuardPerConnection'
    OBVIOUS
  <2>0. ASSUME \A ip \in Ips : Live(ip)' = Live(ip) /\ guards'[ip] = guards[ip]
        PROVE  GuardPerConnection'
    BY <2>0 DEF GuardPerConnection
  <2>1. ASSUME NEW c \in Connections, Accept(c) PROVE GuardPerConnection'
    <3>1. CASE Admit(IpOf[c]) /\ conn' = [conn EXCEPT ![c] = "open"]
      BY <2>1, <3>1, OpenAdds DEF Accept
    <3>2. CASE Refuse(IpOf[c]) /\ conn' = [conn EXCEPT ![c] = "closed"]
      <4>1. \A ip \in Ips : Live(ip)' = Live(ip)
        BY <2>1, <3>2 DEF Accept, Live, TransportTypeOK
      <4> QED
        BY <2>0, <3>2, <4>1 DEF Refuse
    <3> QED
      BY <2>1, <3>1, <3>2 DEF Accept
  <2>2. ASSUME NEW c \in Connections, ConnEnds(c) PROVE GuardPerConnection'
    <3>1. \A ip \in Ips : Live(ip)' = Live(ip)
      BY <2>2 DEF ConnEnds, Live, TransportTypeOK
    <3> QED
      BY <2>0, <2>2, <3>1 DEF ConnEnds, limiter_vars
  <2>3. ASSUME NEW c \in Connections, Closed(c) PROVE GuardPerConnection'
    BY <2>3, ClosedRemoves
  <2>4. ASSUME UNCHANGED <<conn, guards>> PROVE GuardPerConnection'
    BY <2>0, <2>4 DEF Live
  <2>5. ASSUME NEW t \in Tasks,
               \/ \E c \in Connections : AcceptRequest(t, c)
               \/ Gate(t) \/ StartAuth(t)
               \/ Denied(t) \/ Challenged(t) \/ Allowed(t) \/ Served(t)
        PROVE  UNCHANGED <<conn, guards>>
    BY <2>5 DEF AcceptRequest, Gate, StartAuth, Denied, Challenged, Allowed, Served,
                RecordFailure, RecordSuccess, limiter_vars
  <2>6. CASE (\E ip \in Ips : Ages(ip)) \/ UNCHANGED connection_vars
    BY <2>4, <2>6 DEF Ages, EntryAges, connection_vars, limiter_vars
  <2> QED
    BY <2>1, <2>2, <2>3, <2>4, <2>5, <2>6 DEF TransportNext
<1>3. GuardPerConnection /\ CountsGuards => SlotPerConnection
  BY DEF GuardPerConnection, CountsGuards, SlotPerConnection, Live
<1> QED
  BY <1>1, <1>2, <1>3, TransportTyped, TransportCounts, PTL DEF TransportSpec

-----------------------------------------------------------------------------
(* The failures of one connection                                          *)

\* QUIC's cap on the streams of a connection, which FailsBounded rests on.
StreamsCapped == \A c \in Connections : Cardinality(Streams(c)) <= MaxChannels

\* Streams and attempts are finite sets, the attempts among the streams.
LEMMA StreamsFinite ==
  ASSUME NEW c
  PROVE  /\ IsFiniteSet(Streams(c)) /\ IsFiniteSet(Attempts(c))
         /\ Cardinality(Streams(c)) \in Nat /\ Cardinality(Attempts(c)) \in Nat
         /\ Cardinality(Attempts(c)) <= Cardinality(Streams(c))
<1>1. Streams(c) \subseteq Tasks /\ Attempts(c) \subseteq Streams(c)
  BY DEF Streams, Attempts
<1>2. IsFiniteSet(Tasks)
  BY TransportAssumption
<1>3. IsFiniteSet(Streams(c))
  BY <1>1, <1>2, FS_Subset
<1>4. IsFiniteSet(Attempts(c)) /\ Cardinality(Attempts(c)) <= Cardinality(Streams(c))
  BY <1>1, <1>3, FS_Subset
<1> QED
  BY <1>3, <1>4, FS_CardinalityType

\* A step that opens no stream.
LEMMA StreamsShrink ==
  ASSUME StreamsCapped, \A c \in Connections : Streams(c)' \subseteq Streams(c)
  PROVE  StreamsCapped'
<1> SUFFICES ASSUME NEW c \in Connections PROVE Cardinality(Streams(c)') <= MaxChannels
  BY DEF StreamsCapped
<1>1. IsFiniteSet(Streams(c)) /\ Cardinality(Streams(c)) \in Nat
  BY StreamsFinite
<1>2. Cardinality(Streams(c)') <= Cardinality(Streams(c)) /\ IsFiniteSet(Streams(c)')
  BY <1>1, FS_Subset
<1>3. Cardinality(Streams(c)') \in Nat
  BY <1>2, FS_CardinalityType
<1> QED
  BY <1>1, <1>2, <1>3, TransportAssumption DEF StreamsCapped

\* A step that starts no attempt and counts no failure.
LEMMA AttemptsShrink ==
  ASSUME TransportTypeOK, FailsBounded, conn_fails' = conn_fails,
         \A c \in Connections : Attempts(c)' \subseteq Attempts(c)
  PROVE  FailsBounded'
<1> SUFFICES ASSUME NEW c \in Connections
             PROVE  conn_fails'[c] + Cardinality(Attempts(c)')
                      <= MaxAuthFails + MaxChannels - 1
  BY DEF FailsBounded
<1>1. IsFiniteSet(Attempts(c)) /\ Cardinality(Attempts(c)) \in Nat
  BY StreamsFinite
<1>2. Cardinality(Attempts(c)') <= Cardinality(Attempts(c)) /\ IsFiniteSet(Attempts(c)')
  BY <1>1, FS_Subset
<1>3. Cardinality(Attempts(c)') \in Nat
  BY <1>2, FS_CardinalityType
<1>4. conn_fails[c] \in Nat
  BY DEF TransportTypeOK
<1> QED
  BY <1>1, <1>2, <1>3, <1>4, TransportAssumption DEF FailsBounded

\* A new stream: QUIC grants it only below the cap.
LEMMA AcceptRequestCapped ==
  ASSUME TransportTypeOK, StreamsCapped, NEW t \in Tasks, NEW c \in Connections, AcceptRequest(t, c)
  PROVE  StreamsCapped'
<1> SUFFICES ASSUME NEW d \in Connections PROVE Cardinality(Streams(d)') <= MaxChannels
  BY DEF StreamsCapped
<1>1. IsFiniteSet(Streams(d)) /\ Cardinality(Streams(d)) \in Nat
  BY StreamsFinite
<1>2. CASE d = c
  <2>1. Streams(d)' = Streams(d) \cup {t}
    BY <1>2 DEF AcceptRequest, Streams, TransportTypeOK
  <2>2. Cardinality(Streams(d)) < MaxChannels
    BY <1>2 DEF AcceptRequest
  <2>3. Cardinality(Streams(d) \cup {t})
          = IF t \in Streams(d) THEN Cardinality(Streams(d)) ELSE Cardinality(Streams(d)) + 1
    BY <1>1, FS_AddElement
  <2> QED
    BY <1>1, <2>1, <2>2, <2>3, TransportAssumption
<1>3. CASE d # c
  <2>1. Streams(d)' \subseteq Streams(d)
    BY <1>3 DEF AcceptRequest, Streams, TransportTypeOK
  <2>2. Cardinality(Streams(d)') <= Cardinality(Streams(d)) /\ IsFiniteSet(Streams(d)')
    BY <1>1, <2>1, FS_Subset
  <2>3. Cardinality(Streams(d)') \in Nat
    BY <2>2, FS_CardinalityType
  <2> QED
    BY <1>1, <2>2, <2>3, TransportAssumption DEF StreamsCapped
<1> QED
  BY <1>2, <1>3

\* An attempt passes the gate only below max_auth_fails, and is one of the
\* connection's open streams.
LEMMA GateBounded ==
  ASSUME TransportTypeOK, StreamsCapped, StreamsCapped', FailsBounded, NEW t \in Tasks, Gate(t)
  PROVE  FailsBounded'
<1>0. UNCHANGED <<conn_fails, on>> /\ pc[t] = "accepted" /\ on[t] \in Connections
  BY DEF Gate, TransportTypeOK
<1>1. CASE pc' = [pc EXCEPT ![t] = "done"]
  <2>1. \A c \in Connections : Attempts(c)' \subseteq Attempts(c)
    BY <1>0, <1>1 DEF Attempts, TransportTypeOK
  <2> QED
    BY <1>0, <2>1, AttemptsShrink
<1>2. CASE conn_fails[on[t]] < MaxAuthFails /\ pc' = [pc EXCEPT ![t] = "backoff"]
  <2> SUFFICES ASSUME NEW c \in Connections
               PROVE  conn_fails'[c] + Cardinality(Attempts(c)')
                        <= MaxAuthFails + MaxChannels - 1
    BY DEF FailsBounded
  <2>1. conn_fails[c] \in Nat /\ conn_fails'[c] = conn_fails[c]
    BY <1>0 DEF TransportTypeOK
  <2>2. CASE c = on[t]
    <3>1. /\ Cardinality(Attempts(c)') \in Nat /\ Cardinality(Streams(c)') \in Nat
          /\ Cardinality(Attempts(c)') <= Cardinality(Streams(c)')
      <4>1. Streams(c)' = Streams(c)
        BY <1>0, <1>2 DEF Streams, TransportTypeOK
      <4>2. Attempts(c)' \subseteq Streams(c)
        BY <1>0, <1>2 DEF Attempts, Streams, TransportTypeOK
      <4>3. /\ IsFiniteSet(Attempts(c)')
            /\ Cardinality(Attempts(c)') <= Cardinality(Streams(c))
        BY <4>2, StreamsFinite, FS_Subset
      <4> QED
        BY <4>1, <4>3, StreamsFinite, FS_CardinalityType
    <3>2. Cardinality(Streams(c)') <= MaxChannels
      BY DEF StreamsCapped
    <3> QED
      BY <1>2, <2>1, <2>2, <3>1, <3>2, TransportAssumption
  <2>3. CASE c # on[t]
    <3>1. Attempts(c)' = Attempts(c)
      BY <1>0, <1>2, <2>3 DEF Attempts, TransportTypeOK
    <3> QED
      BY <2>1, <3>1 DEF FailsBounded
  <2> QED
    BY <2>2, <2>3
<1> QED
  BY <1>1, <1>2 DEF Gate

\* A verdict that is counted ends the attempt it counts.
LEMMA DeniedBounded ==
  ASSUME TransportTypeOK, FailsBounded, NEW t \in Tasks, Denied(t)
  PROVE  FailsBounded'
<1> SUFFICES ASSUME NEW c \in Connections
             PROVE  conn_fails'[c] + Cardinality(Attempts(c)')
                      <= MaxAuthFails + MaxChannels - 1
  BY DEF FailsBounded
<1>1. /\ pc[t] = "auth" /\ on[t] \in Connections /\ on' = on
      /\ pc' = [pc EXCEPT ![t] = "done"]
      /\ conn_fails' = [conn_fails EXCEPT ![on[t]] = @ + 1]
  BY DEF Denied, TransportTypeOK
<1>2. IsFiniteSet(Attempts(c)) /\ Cardinality(Attempts(c)) \in Nat /\ conn_fails[c] \in Nat
  BY StreamsFinite DEF TransportTypeOK
<1>3. CASE c = on[t]
  <2>1. t \in Attempts(c) /\ Attempts(c)' = Attempts(c) \ {t}
    BY <1>1, <1>3 DEF Attempts, TransportTypeOK
  <2>2. Cardinality(Attempts(c) \ {t}) = Cardinality(Attempts(c)) - 1
    BY <1>2, <2>1, FS_RemoveElement
  <2>3. conn_fails'[c] = conn_fails[c] + 1
    BY <1>1, <1>3 DEF TransportTypeOK
  <2> QED
    BY <1>2, <2>1, <2>2, <2>3, TransportAssumption DEF FailsBounded
<1>4. CASE c # on[t]
  <2>1. Attempts(c)' = Attempts(c)
    BY <1>1, <1>4 DEF Attempts, TransportTypeOK
  <2>2. conn_fails'[c] = conn_fails[c]
    BY <1>1, <1>4 DEF TransportTypeOK
  <2> QED
    BY <2>1, <2>2 DEF FailsBounded
<1> QED
  BY <1>3, <1>4

\* The failures of a connection overshoot max_auth_fails by less than the
\* number of streams it may have open, for every value of both caps.
THEOREM FailsBoundedHolds == TransportSpec => []FailsBounded
<1>1. TransportInit => StreamsCapped /\ FailsBounded
  <2> SUFFICES ASSUME TransportInit PROVE StreamsCapped /\ FailsBounded
    OBVIOUS
  <2>1. \A c \in Connections : Streams(c) = {} /\ Attempts(c) = {} /\ conn_fails[c] = 0
    BY TransportAssumption DEF TransportInit, Streams, Attempts
  <2> QED
    BY <2>1, FS_EmptySet, TransportAssumption DEF StreamsCapped, FailsBounded
<1>2. TransportTypeOK /\ StreamsCapped /\ FailsBounded /\ [TransportNext]_connection_vars
        => StreamsCapped' /\ FailsBounded'
  <2> SUFFICES ASSUME TransportTypeOK, StreamsCapped, FailsBounded, [TransportNext]_connection_vars
               PROVE  StreamsCapped' /\ FailsBounded'
    OBVIOUS
  <2>1. ASSUME NEW t \in Tasks, NEW c \in Connections, AcceptRequest(t, c)
        PROVE  StreamsCapped' /\ FailsBounded'
    <3>1. \A d \in Connections : Attempts(d)' \subseteq Attempts(d)
      BY <2>1 DEF AcceptRequest, Attempts, TransportTypeOK
    <3> QED
      BY <2>1, <3>1, AcceptRequestCapped, AttemptsShrink DEF AcceptRequest
  <2>2. ASSUME NEW t \in Tasks, on' = on,
               \E p \in PCs \ {"idle"} : pc' = [pc EXCEPT ![t] = p], pc[t] # "done"
        PROVE  StreamsCapped'
    <3>1. \A d \in Connections : Streams(d)' \subseteq Streams(d)
      BY <2>2 DEF Streams, TransportTypeOK
    <3> QED
      BY <3>1, StreamsShrink
  <2>3. ASSUME NEW t \in Tasks, Gate(t) PROVE StreamsCapped' /\ FailsBounded'
    BY <2>2, <2>3, GateBounded DEF Gate, PCs
  <2>4. ASSUME NEW t \in Tasks, StartAuth(t) \/ Challenged(t) \/ Allowed(t) \/ Served(t)
        PROVE  StreamsCapped' /\ FailsBounded'
    <3>1. \A d \in Connections : Attempts(d)' \subseteq Attempts(d)
      BY <2>4 DEF StartAuth, Challenged, Allowed, Served, Attempts, TransportTypeOK
    <3>2. conn_fails' = conn_fails
      BY <2>4 DEF StartAuth, Challenged, Allowed, Served
    <3>3. StreamsCapped'
      BY <2>2, <2>4 DEF StartAuth, Challenged, Allowed, Served, PCs
    <3> QED
      BY <3>1, <3>2, <3>3, AttemptsShrink
  <2>5. ASSUME NEW t \in Tasks, Denied(t) PROVE StreamsCapped' /\ FailsBounded'
    BY <2>2, <2>5, DeniedBounded DEF Denied, PCs
  <2>6. ASSUME UNCHANGED <<conn_fails, pc, on>> PROVE StreamsCapped' /\ FailsBounded'
    BY <2>6 DEF StreamsCapped, FailsBounded, Streams, Attempts
  <2>7. CASE \/ \E c \in Connections : Accept(c) \/ ConnEnds(c) \/ Closed(c)
             \/ \E ip \in Ips : Ages(ip)
             \/ UNCHANGED connection_vars
    BY <2>6, <2>7 DEF Accept, ConnEnds, Closed, Ages, connection_vars
  <2> QED
    BY <2>1, <2>3, <2>4, <2>5, <2>7 DEF TransportNext
<1> QED
  BY <1>1, <1>2, TransportTyped, PTL DEF TransportSpec
=============================================================================
