----------------------------- MODULE LoginProofs -----------------------------
(***************************************************************************)
(* For every set of client processes, every bound and every order of       *)
(* crashes, restarts, removals and prompts: a server with --host-key       *)
(* presents one certificate, known_hosts holds what was pinned and not     *)
(* removed, and a client trusts what its user accepted, and refuses only   *)
(* what an impostor showed; and the signatures its handshakes rest on are  *)
(* throttled, and each is for the handshake that gets it.                  *)
(*                                                                         *)
(* What remove_host_lines computes is proved by induction on the lines it  *)
(* has looked at, in the form of a least counterexample (LeastNumber).     *)
(***************************************************************************)
EXTENDS Login, Signing, SequenceTheorems, WellFoundedInduction, TLAPS

(* The identity on disk                                                    *)

\* What the files say at each point of the start.  Nothing has been presented
\* before both files exist, so a pair may be replaced as long as one of them is
\* missing; from then on the files stay as they are.
Files ==
  /\ served # {} => key # Absent /\ cert # Absent
  /\ \A c \in served : c = cert
  /\ cert # Absent => boot \in {"down", "cert2", "up"}
  /\ cert \in Pairs => key = cert
  /\ cert # Absent => key \in Pairs
  /\ boot \in {"key", "key2", "cert", "cert2"} =>
       served = {} /\ mem_key = mem_cert /\ mem_key \in Pairs
  /\ boot \in {"cert", "cert2"} => key = mem_key
  /\ boot = "cert2" => cert = Torn
  /\ boot = "up" => mem_key = key /\ mem_cert = cert /\ cert # Absent

\* The files matter to a persistent server only.
IdentityInv ==
  /\ IdentityTypeOK
  /\ host_key = "persistent" => Files
  /\ host_key = "ephemeral" => boot \in {"down", "up"}

LEMMA IdentityInitial == IdentityInit => IdentityInv
BY IdentityAssumption DEF IdentityInit, IdentityInv, IdentityTypeOK, Files, Pairs, Absent, Torn

\* Each step of the start, and a crash after any of them, keeps it.
LEMMA IdentityStep ==
  ASSUME IdentityInv, [IdentityNext]_identity_vars
  PROVE  IdentityInv'
<1> USE IdentityAssumption DEF IdentityInv, IdentityTypeOK, Pairs, Absent, Torn
<1>1. CASE StartEphemeral
  BY <1>1 DEF StartEphemeral, Generate, Serve
<1>2. CASE StartLoads
  BY <1>2 DEF StartLoads, OnDisk, Serve, Files
<1>3. CASE StartGenerates
  <2>1. cert = Absent /\ served = {} /\ gen + 1 \in Pairs
    BY <1>3 DEF StartGenerates, OnDisk, Generate, Files
  <2> QED
    BY <1>3, <2>1 DEF StartGenerates, Generate, Files
<1>4. CASE WriteKey
  BY <1>4 DEF WriteKey, Files
<1>5. CASE WriteCert
  <2>0. /\ served = {} /\ mem_key = mem_cert /\ mem_key \in Pairs /\ key = mem_key
        /\ host_key = "persistent"
    BY <1>5 DEF WriteCert, Files
  <2>1. CASE boot = "cert"
    <3>1. /\ cert' = Torn /\ boot' = "cert2"
          /\ UNCHANGED <<host_key, key, gen, mem_key, mem_cert, served>>
      BY <1>5, <2>1 DEF WriteCert
    <3> QED
      BY <2>0, <3>1 DEF Files
  <2>2. CASE boot = "cert2"
    <3>1. /\ cert' = mem_cert /\ served' = {mem_cert} /\ boot' = "up"
          /\ UNCHANGED <<host_key, key, gen, mem_key, mem_cert>>
      BY <1>5, <2>0, <2>2 DEF WriteCert, Serve
    <3> QED
      BY <2>0, <3>1 DEF Files
  <2> QED
    BY <1>5, <2>1, <2>2 DEF WriteCert
<1>6. CASE Crash
  BY <1>6 DEF Crash, Files
<1>7. CASE UNCHANGED identity_vars
  BY <1>7 DEF identity_vars, Files
<1> QED
  BY <1>1, <1>2, <1>3, <1>4, <1>5, <1>6, <1>7 DEF IdentityNext

\* host_identity: one certificate, the same after every restart, with its key,
\* or the torn one a crash inside its write left behind.
THEOREM IdentityStable == IdentitySpec => []StableIdentity
<1>1. IdentityInv => StableIdentity
  BY DEF IdentityInv, IdentityTypeOK, Files, StableIdentity, Pairs, Absent, Torn
<1>2. IdentityInv /\ [IdentityNext]_identity_vars => IdentityInv'
  BY IdentityStep
<1> QED
  BY <1>1, <1>2, IdentityInitial, PTL DEF IdentitySpec

\* Whoever is up has been presenting what it holds.
Presents == boot = "up" => mem_cert \in served

LEMMA PresentsStep ==
  ASSUME Presents, [IdentityNext]_identity_vars
  PROVE  Presents' /\ served \subseteq served' /\ UNCHANGED host_key
BY DEF Presents, IdentityNext, identity_vars, StartEphemeral, StartLoads, StartGenerates,
       WriteKey, WriteCert, Crash, Generate, Serve

-----------------------------------------------------------------------------
(* Helpers                                                                 *)

KLines == [host : Hosts \cup {NoHost}, fp : Int]

\* The least-number principle.
LEMMA LeastNumber ==
  ASSUME NEW T \in SUBSET Nat, T # {}
  PROVE  \E m \in T : \A k \in T : m <= k
<1>1. IsWellFoundedOn(OpToRel(<, Nat), Nat)
  BY NatLessThanWellFounded
<1>2. PICK m \in T : \A k \in T : ~(<<k, m>> \in OpToRel(<, Nat))
  BY <1>1, WFMin, Zenon
<1>3. \A k \in T : ~(k < m)
  BY <1>2 DEF OpToRel
<1> QED
  BY <1>3

\* f is the function remove_host_lines builds over the first n lines.
KeptFn(s, h, n, f) ==
  f = [i \in 0..n |-> IF i = 0 THEN <<>>
                      ELSE IF s[i].host = h THEN f[i - 1] ELSE Append(f[i - 1], s[i])]

LEMMA KeptExists ==
  ASSUME NEW s, NEW h, NEW n \in Nat
  PROVE  \E f : KeptFn(s, h, n, f)
<1> DEFINE Bad == {m \in Nat : ~\E f : KeptFn(s, h, m, f)}
<1>1. SUFFICES ASSUME Bad # {} PROVE FALSE
  OBVIOUS
<1>2. PICK m \in Bad : \A k \in Bad : m <= k
  <2> HIDE DEF Bad
  <2>1. Bad \in SUBSET Nat
    BY DEF Bad
  <2> QED
    BY <1>1, <2>1, LeastNumber
<1>3. CASE m = 0
  <2>1. KeptFn(s, h, 0, [i \in 0..0 |-> <<>>])
    BY DEF KeptFn
  <2> QED
    BY <1>3, <2>1
<1>4. CASE m # 0
  <2>1. m \in Nat /\ m - 1 \in Nat /\ m - 1 \notin Bad
    BY <1>2, <1>4
  <2>2. PICK f : KeptFn(s, h, m - 1, f)
    BY <2>1
  <2> DEFINE Grow(x, i) == IF s[i].host = h THEN x ELSE Append(x, s[i])
             g == [i \in 0..m |-> IF i < m THEN f[i] ELSE Grow(f[m - 1], m)]
  <2>3. \A i \in 0..(m - 1) : f[i] = IF i = 0 THEN <<>> ELSE Grow(f[i - 1], i)
    BY <2>1, <2>2 DEF KeptFn
  <2>4. \A i \in 0..m : g[i] = IF i = 0 THEN <<>> ELSE Grow(g[i - 1], i)
    <3> HIDE DEF Grow
    <3> TAKE i \in 0..m
    <3>1. CASE i = m
      BY <2>1, <3>1, <1>4
    <3>2. CASE i # m
      <4>1. i \in 0..(m - 1) /\ g[i] = f[i] /\ (i # 0 => g[i - 1] = f[i - 1])
        BY <2>1, <3>2
      <4> QED
        BY <4>1, <2>3
    <3> QED
      BY <3>1, <3>2
  <2>5. g = [i \in 0..m |-> IF i = 0 THEN <<>> ELSE Grow(g[i - 1], i)]
    <3> HIDE DEF Grow
    <3> QED
      BY <2>4
  <2>6. KeptFn(s, h, m, g)
    <3> HIDE DEF g
    <3> QED
      BY <2>5 DEF KeptFn
  <2> QED
    BY <2>6
<1> QED
  BY <1>3, <1>4

\* A line more.
LEMMA LinesAppend ==
  ASSUME NEW q \in Seq(KLines), NEW l \in KLines
  PROVE  Lines(Append(q, l)) = Lines(q) \cup {l}
<1> DEFINE r == Append(q, l)
<1>1. /\ Len(q) \in Nat /\ Len(r) = Len(q) + 1 /\ r[Len(q) + 1] = l
      /\ \A i \in 1..Len(q) : r[i] = q[i]
  BY AppendProperties, LenProperties
<1> HIDE DEF r
<1>2. 1..Len(r) = 1..Len(q) \cup {Len(q) + 1}
  BY <1>1
<1>3. {r[i] : i \in 1..Len(r)} = {q[i] : i \in 1..Len(q)} \cup {l}
  BY <1>1, <1>2, Zenon
<1> QED
  BY <1>3 DEF Lines, r

\* remove_host_lines keeps the lines of the other hosts, all of them and no
\* more.
LEMMA RemovedLines ==
  ASSUME NEW s \in Seq(KLines), NEW h
  PROVE  /\ remove_host_lines(s, h) \in Seq(KLines)
         /\ Lines(remove_host_lines(s, h)) = {l \in Lines(s) : l.host # h}
<1>0. Len(s) \in Nat
  OBVIOUS
<1>1. \E f : KeptFn(s, h, Len(s), f)
  BY KeptExists, <1>0
<1>2. PICK f : KeptFn(s, h, Len(s), f) /\ remove_host_lines(s, h) = f[Len(s)]
  <2>1. \E f : f = [i \in 0..Len(s) |->
                      IF i = 0 THEN <<>>
                      ELSE IF s[i].host = h THEN f[i - 1] ELSE Append(f[i - 1], s[i])]
    BY <1>1 DEF KeptFn
  <2> QED
    BY <2>1, Zenon DEF remove_host_lines, KeptFn
<1> DEFINE Good(i) == /\ f[i] \in Seq(KLines)
                      /\ Lines(f[i]) = {s[j] : j \in {k \in 1..i : s[k].host # h}}
           Bad == {i \in Nat : i <= Len(s) /\ ~Good(i)}
<1>3. Bad = {}
  <2>1. SUFFICES ASSUME Bad # {} PROVE FALSE
    OBVIOUS
  <2>2. PICK m \in Bad : \A k \in Bad : m <= k
    <3>1. Bad \in SUBSET Nat
      OBVIOUS
    <3> HIDE DEF Bad
    <3> QED
      BY <2>1, <3>1, LeastNumber
  <2>3. m \in Nat /\ m <= Len(s) /\ ~Good(m)
    BY <2>2
  <2>4. CASE m = 0
    <3>1. f[0] = <<>>
      BY <1>2, <1>0 DEF KeptFn
    <3> QED
      BY <2>3, <2>4, <3>1 DEF Lines
  <2>5. CASE m # 0
    <3>1. m - 1 \in Nat /\ m - 1 <= Len(s) /\ m - 1 \notin Bad
      <4> HIDE DEF Good
      <4> QED
        BY <2>2, <2>3, <2>5, <1>0
    <3>2. Good(m - 1)
      BY <3>1
    <3>3. f[m] = IF s[m].host = h THEN f[m - 1] ELSE Append(f[m - 1], s[m])
      <4> HIDE DEF Good
      <4>1. m \in 0..Len(s)
        BY <2>3, <1>0
      <4> QED
        BY <1>2, <4>1, <2>5, Zenon DEF KeptFn
    <3>4. s[m] \in KLines
      BY <2>3, <2>5, <1>0
    <3>5. CASE s[m].host = h
      BY <3>1, <3>2, <3>3, <3>5, <2>3
    <3>6. CASE s[m].host # h
      <4>1. f[m] = Append(f[m - 1], s[m]) /\ f[m - 1] \in Seq(KLines)
        BY <3>2, <3>3, <3>6
      <4>2. Lines(f[m]) = Lines(f[m - 1]) \cup {s[m]}
        BY <4>1, <3>4, LinesAppend
      <4>3. {k \in 1..m : s[k].host # h} = {k \in 1..(m - 1) : s[k].host # h} \cup {m}
        BY <3>1, <3>6, <2>3
      <4>4. f[m] \in Seq(KLines)
        BY <4>1, <3>4
      <4> QED
        BY <3>2, <4>2, <4>3, <4>4, <2>3
    <3> QED
      BY <3>5, <3>6
  <2> QED
    BY <2>4, <2>5
<1>4. Good(Len(s))
  <2>1. Len(s) \notin Bad
    BY <1>3
  <2> HIDE DEF Good
  <2> QED
    BY <1>0, <2>1
<1> QED
  BY <1>2, <1>4 DEF Lines

\* What a host is found to be pinned to is on one of its lines.
LEMMA LookupFinds ==
  ASSUME NEW h, file \in Seq(KLines), lookup(h) # NoFp
  PROVE  Line(h, lookup(h)) \in Lines(file)
<1> DEFINE hits == {i \in 1..Len(file) : file[i].host = h}
<1>1. hits # {}
  BY DEF lookup
<1>2. \E i \in hits : \A j \in hits : i <= j
  <2>1. hits \in SUBSET Nat
    OBVIOUS
  <2> HIDE DEF hits
  <2> QED
    BY <1>1, <2>1, LeastNumber
<1>3. PICK i \in hits : lookup(h) = file[i].fp
  BY <1>1, <1>2 DEF lookup
<1>4. file[i] \in KLines /\ file[i].host = h /\ i \in 1..Len(file)
  BY <1>3
<1>5. file[i] = Line(h, file[i].fp)
  BY <1>4 DEF KLines, Line
<1> QED
  BY <1>3, <1>4, <1>5 DEF Lines

\* The lines of two files, one after the other.
LEMMA ConcatLines ==
  ASSUME NEW q \in Seq(KLines), NEW r \in Seq(KLines)
  PROVE  q \o r \in Seq(KLines) /\ Lines(q \o r) \subseteq Lines(q) \cup Lines(r)
<1>1. /\ q \o r \in Seq(KLines) /\ Len(q \o r) = Len(q) + Len(r)
      /\ Len(q) \in Nat /\ Len(r) \in Nat
      /\ \A i \in 1..(Len(q) + Len(r)) :
           (q \o r)[i] = IF i <= Len(q) THEN q[i] ELSE r[i - Len(q)]
  OBVIOUS
<1>2. ASSUME NEW i \in 1..(Len(q) + Len(r))
      PROVE  (q \o r)[i] \in Lines(q) \cup Lines(r)
  <2>1. CASE i <= Len(q)
    BY <1>1, <2>1 DEF Lines
  <2>2. CASE ~(i <= Len(q))
    <3>1. i - Len(q) \in 1..Len(r)
      BY <1>1, <2>2
    <3> QED
      BY <1>1, <2>2, <3>1 DEF Lines
  <2> QED
    BY <2>1, <2>2
<1> DEFINE both == q \o r
<1> HIDE DEF both
<1>3. both \in Seq(KLines) /\ \A i \in 1..Len(both) : both[i] \in Lines(q) \cup Lines(r)
  BY <1>1, <1>2 DEF both
<1>4. \A l \in Lines(both) : \E i \in 1..Len(both) : l = both[i]
  BY Zenon DEF Lines
<1> QED
  BY <1>3, <1>4 DEF both

\* What a write over a file can leave of its lines: some, and ends of some.
Remains(q) == Lines(q) \cup UNION {Cut(l) : l \in Lines(q)}

\* Junk is no host's line.
LEMMA JunkHost == Junk.host \notin Hosts
<1>1. Junk.host = NoHost
  BY DEF Junk, Line
<1> QED
  BY <1>1, HostsAssumption

\* The end of a line is a line.
LEMMA CutTyped ==
  ASSUME NEW l \in KLines
  PROVE  Cut(l) \subseteq KLines
<1>1. l.fp \in Int /\ NoFp \in Int
  BY DEF KLines, NoFp
<1>2. \A h \in Hosts \cup {NoHost} : \A f \in Int : Line(h, f) \in KLines
  BY DEF KLines, Line
<1>3. Junk \in KLines
  BY <1>1, <1>2 DEF Junk
<1> HIDE DEF Line, KLines, Junk
<1> QED
  BY <1>1, <1>2, <1>3 DEF Cut

\* A write over a file leaves lines of the one, and what remains of the other.
LEMMA OverwriteLines ==
  ASSUME NEW new \in Seq(KLines), NEW old \in Seq(KLines)
  PROVE  /\ \A s \in Overwrite(new, old) :
              s \in Seq(KLines) /\ Lines(s) \subseteq Lines(new) \cup Remains(old)
         /\ old = <<>> => Overwrite(new, old) = {new}
<1>0. Len(old) \in Nat
  OBVIOUS
<1>1. CASE new = <<>>
  <2>1. Overwrite(new, old) = {old}
    BY <1>1 DEF Overwrite
  <2> QED
    BY <1>1, <2>1 DEF Remains
<1>2. CASE new # <<>>
  <2> DEFINE rest(k) == SubSeq(old, k + 1, Len(old))
             kth(k) == {new \o rest(k)} \cup {(new \o <<c>>) \o rest(k) : c \in Cut(old[k])}
  <2>1. Overwrite(new, old) = {new} \cup UNION {kth(k) : k \in 1..Len(old)}
    BY <1>2 DEF Overwrite
  <2>2. ASSUME NEW k \in 1..Len(old)
        PROVE  rest(k) \in Seq(KLines) /\ Lines(rest(k)) \subseteq Lines(old)
    <3>1. CASE k = Len(old)
      <4>1. rest(k) = <<>>
        BY <1>0, <3>1
      <4> QED
        BY <4>1 DEF Lines
    <3>2. CASE k # Len(old)
      <4>1. k + 1 \in 1..Len(old) /\ k \in Nat
        BY <1>0, <3>2
      <4>2. /\ rest(k) \in Seq(KLines) /\ Len(rest(k)) = Len(old) - k
            /\ \A i \in 1..Len(rest(k)) : rest(k)[i] = old[k + i]
        BY <1>0, <4>1, SubSeqProperties
      <4> HIDE DEF rest
      <4>3. \A i \in 1..Len(rest(k)) : k + i \in 1..Len(old)
        BY <1>0, <4>1, <4>2
      <4>4. \A l \in Lines(rest(k)) : \E i \in 1..Len(rest(k)) : l = rest(k)[i]
        BY Zenon DEF Lines
      <4>5. \A i \in 1..Len(old) : old[i] \in Lines(old)
        BY Zenon DEF Lines
      <4> QED
        BY <4>2, <4>3, <4>4, <4>5
    <3> QED
      BY <3>1, <3>2
  <2> HIDE DEF rest
  <2>3. ASSUME NEW k \in 1..Len(old), NEW s \in kth(k)
        PROVE  s \in Seq(KLines) /\ Lines(s) \subseteq Lines(new) \cup Remains(old)
    <3>0. old[k] \in KLines /\ old[k] \in Lines(old)
      BY <1>0 DEF Lines
    <3>1. CASE s = new \o rest(k)
      <4>1. s \in Seq(KLines) /\ Lines(s) \subseteq Lines(new) \cup Lines(rest(k))
        BY <3>1, <2>2, ConcatLines
      <4> QED
        BY <2>2, <4>1 DEF Remains
    <3>2. ASSUME NEW c \in Cut(old[k]), s = (new \o <<c>>) \o rest(k)
          PROVE  s \in Seq(KLines) /\ Lines(s) \subseteq Lines(new) \cup Remains(old)
      <4>1. <<c>> \in Seq(KLines) /\ Lines(<<c>>) = {c}
        <5>1. c \in KLines
          BY <3>0, CutTyped
        <5> QED
          BY <5>1 DEF Lines
      <4>2. /\ new \o <<c>> \in Seq(KLines)
            /\ Lines(new \o <<c>>) \subseteq Lines(new) \cup {c}
        BY <4>1, ConcatLines
      <4>3. /\ s \in Seq(KLines)
            /\ Lines(s) \subseteq Lines(new \o <<c>>) \cup Lines(rest(k))
        BY <2>2, <3>2, <4>2, ConcatLines
      <4>4. c \in Remains(old)
        BY <3>0 DEF Remains
      <4>5. Lines(rest(k)) \subseteq Remains(old)
        BY <2>2 DEF Remains
      <4> QED
        BY <4>2, <4>3, <4>4, <4>5
    <3> QED
      BY <3>1, <3>2
  <2>4. \A s \in Overwrite(new, old) :
          s \in Seq(KLines) /\ Lines(s) \subseteq Lines(new) \cup Remains(old)
    <3> HIDE DEF kth
    <3> QED
      BY <2>1, <2>3
  <2>5. old = <<>> => Overwrite(new, old) = {new}
    <3> HIDE DEF kth
    <3>1. old = <<>> => 1..Len(old) = {}
      OBVIOUS
    <3> QED
      BY <2>1, <3>1
  <2> QED
    BY <2>4, <2>5
<1> QED
  BY <1>1, <1>2

-----------------------------------------------------------------------------
(* known_hosts                                                             *)

FileTyped ==
  /\ file \in Seq(KLines) /\ tmp \in SUBSET Seq(KLines)
  /\ rm \in [Procs -> {"none", "read", "open", "written"}]
  /\ rm_host \in [Procs -> Hosts \cup {NoHost}]
  /\ body \in [Procs -> Seq(KLines)]
  /\ fd \in [Procs -> {"none", "tmp", "file", "gone"}]
  /\ approved \in SUBSET KLines /\ overlap \in {"no", "yes"}

\* The lines that may be there: accepted once, or cut from one that was.
Owned == {l \in KLines : Vouched(l)}

\* Every line, wherever it is, is one of those.
Accounted ==
  /\ Lines(file) \subseteq Owned
  /\ \A t \in tmp : Lines(t) \subseteq Owned
  /\ \A p \in Procs : Lines(body[p]) \subseteq Owned

\* A removal that nobody disturbs: it is the only one, what it read is what the
\* file still is, and the temporary file is its own.
Alone ==
  /\ Lines(file) = want
  /\ \A p, q \in Rewriting : p = q
  /\ \A p \in Procs : fd[p] = IF rm[p] = "open" THEN "tmp" ELSE "none"
  /\ \A p \in Rewriting : Lines(body[p]) = {l \in Lines(file) : l.host # rm_host[p]}
  /\ \A p \in Procs : rm[p] = "open" => tmp = {<<>>}
  /\ \A p \in Procs : rm[p] = "written" => tmp = {body[p]}

FileInv == FileTyped /\ Accounted /\ (overlap = "no" => Alone)

LEMMA FileInitial == FileInit => FileInv
<1> SUFFICES ASSUME FileInit PROVE FileInv
  OBVIOUS
<1>1. <<>> \in Seq(KLines) /\ Lines(<<>>) = {}
  BY DEF Lines
<1>2. FileTyped
  BY <1>1 DEF FileInit, FileTyped
<1>3. Accounted
  BY <1>1 DEF FileInit, Accounted
<1>4. Alone
  BY <1>1 DEF FileInit, Alone, Rewriting
<1> QED
  BY <1>2, <1>3, <1>4 DEF FileInv

\* What was vouched for stays so.
LEMMA OwnedGrows ==
  ASSUME approved \subseteq approved', overlap = "yes" => overlap' = "yes"
  PROVE  Owned \subseteq Owned' /\ \A l : Vouched(l) => Vouched(l)'
<1>1. \A l : Cut(l)' = Cut(l)
  BY DEF Cut, Junk, Line
<1>2. \A l : Vouched(l) => Vouched(l)'
  BY <1>1 DEF Vouched
<1>3. Owned' = {l \in KLines : Vouched(l)'}
  BY DEF Owned, KLines
<1> QED
  BY <1>2, <1>3 DEF Owned

\* The end of an end is an end, so overlapping writes add nothing else.
LEMMA RemainsOwned ==
  ASSUME overlap = "yes", NEW q \in Seq(KLines), Lines(q) \subseteq Owned
  PROVE  Remains(q) \subseteq Owned
<1> SUFFICES ASSUME NEW l \in Owned, NEW c \in Cut(l) PROVE c \in Owned
  BY DEF Remains
<1>1. l \in KLines /\ c \in KLines
  BY CutTyped DEF Owned
<1>2. PICK a \in approved : l = a \/ l \in Cut(a)
  BY DEF Owned, Vouched
<1>3. c \in Cut(a)
  <2>1. CASE c = Junk \/ l = a
    BY <1>2, <2>1 DEF Cut
  <2>2. CASE c # Junk /\ l \in Cut(a)
    <3>1. PICK h \in Hosts : c = Line(h, l.fp) /\ <<l.host, h>> \in Tails
      BY <2>2 DEF Cut
    <3>2. l.host \in Hosts
      BY <3>1, HostsAssumption
    <3>3. l # Junk
      BY <3>2, JunkHost
    <3>4. PICK g \in Hosts : l = Line(g, a.fp) /\ <<a.host, g>> \in Tails
      BY <2>2, <3>3 DEF Cut
    <3>5. l.host = g /\ l.fp = a.fp
      BY <3>4 DEF Line
    <3>6. <<a.host, h>> \in Tails
      BY <3>1, <3>4, <3>5, HostsAssumption
    <3> QED
      BY <3>1, <3>5, <3>6 DEF Cut
  <2> QED
    BY <1>2, <2>1, <2>2
<1> QED
  BY <1>1, <1>3 DEF Owned, Vouched

LEMMA PinStep ==
  ASSUME FileInv, NEW h \in Hosts, NEW f \in Int, pin(h, f)
  PROVE  FileInv'
<1>1. Line(h, f) \in KLines
  BY DEF KLines, Line
<1>2. file' \in Seq(KLines) /\ Lines(file') = Lines(file) \cup {Line(h, f)}
  <2>1. file \in Seq(KLines) /\ file' = Append(file, Line(h, f))
    BY DEF FileInv, FileTyped, pin
  <2> HIDE DEF Line
  <2> QED
    BY <1>1, <2>1 DEF Lines
<1> HIDE DEF Line
<1>3. FileTyped'
  BY <1>1, <1>2 DEF FileInv, FileTyped, pin
<1>4. Accounted'
  <2>1. Owned \subseteq Owned'
    <3>1. approved \subseteq approved' /\ (overlap = "yes" => overlap' = "yes")
      BY DEF pin
    <3> QED
      BY <3>1, OwnedGrows
  <2>2. Line(h, f) \in Owned'
    BY <1>1 DEF Owned, KLines, Vouched, pin
  <2> QED
    BY <1>2, <2>1, <2>2 DEF FileInv, Accounted, pin
<1>5. ASSUME overlap' = "no" PROVE Alone'
  <2>1. Rewriting = {} /\ overlap = "no"
    BY <1>5 DEF pin
  <2>2. Alone /\ Rewriting' = {}
    BY <2>1 DEF FileInv, Rewriting, pin
  <2>3. \A p \in Procs : rm'[p] = "none"
    BY <2>2 DEF Rewriting
  <2> QED
    BY <1>2, <2>2, <2>3 DEF Alone, pin
<1> QED
  BY <1>3, <1>4, <1>5 DEF FileInv

LEMMA ReadStep ==
  ASSUME FileInv, NEW p \in Procs, RemoveReads(p)
  PROVE  FileInv'
<1>1. PICK h \in Hosts :
        /\ rm' = [rm EXCEPT ![p] = "read"]
        /\ rm_host' = [rm_host EXCEPT ![p] = h]
        /\ body' = [body EXCEPT ![p] = remove_host_lines(file, h)]
  BY DEF RemoveReads
<1>2. /\ remove_host_lines(file, h) \in Seq(KLines)
      /\ Lines(remove_host_lines(file, h)) = {l \in Lines(file) : l.host # h}
  BY RemovedLines DEF FileInv, FileTyped
<1>3. UNCHANGED <<file, tmp, fd, want, approved>> /\ rm[p] = "none"
  BY DEF RemoveReads
<1> DEFINE kept == remove_host_lines(file, h)
<1> HIDE DEF kept
<1>4. FileTyped'
  <2>1. overlap' \in {"no", "yes"}
    BY DEF RemoveReads, FileInv, FileTyped
  <2> QED
    BY <1>1, <1>2, <1>3, <2>1 DEF FileInv, FileTyped, kept
<1>5. Accounted'
  <2>1. Owned \subseteq Owned'
    <3>1. approved \subseteq approved' /\ (overlap = "yes" => overlap' = "yes")
      BY DEF RemoveReads
    <3> QED
      BY <3>1, OwnedGrows
  <2>2. Lines(remove_host_lines(file, h)) \subseteq Lines(file)
    BY <1>2
  <2>3. \A q \in Procs : body'[q] \in {body[q], remove_host_lines(file, h)}
    BY <1>1 DEF FileInv, FileTyped
  <2> QED
    BY <1>3, <2>1, <2>2, <2>3 DEF FileInv, Accounted
<1>6. ASSUME overlap' = "no" PROVE Alone'
  <2>1. Rewriting = {} /\ overlap = "no"
    BY <1>6 DEF RemoveReads
  <2>2. Alone /\ \A q \in Procs : rm[q] = "none"
    BY <2>1 DEF FileInv, Rewriting
  <2>3. rm'[p] = "read" /\ \A q \in Procs : q # p => rm'[q] = "none"
    BY <1>1, <2>2 DEF FileInv, FileTyped
  <2>4. Rewriting' = {p}
    BY <2>3 DEF Rewriting
  <2>5. rm_host'[p] = h /\ body'[p] = remove_host_lines(file, h)
    BY <1>1 DEF FileInv, FileTyped
  <2>6. \A q \in Procs : fd'[q] = "none" /\ rm'[q] \notin {"open", "written"}
    BY <1>3, <2>2, <2>3 DEF Alone
  <2> QED
    BY <1>2, <1>3, <2>2, <2>4, <2>5, <2>6 DEF Alone
<1> QED
  BY <1>4, <1>5, <1>6 DEF FileInv

LEMMA OpenStep ==
  ASSUME FileInv, NEW p \in Procs, RemoveOpens(p)
  PROVE  FileInv'
<1>0. /\ rm[p] = "read" /\ tmp' = {<<>>} /\ rm' = [rm EXCEPT ![p] = "open"]
      /\ fd' = [fd EXCEPT ![p] = "tmp"]
      /\ UNCHANGED <<file, rm_host, body, want, approved, overlap>>
  BY DEF RemoveOpens
<1>1. <<>> \in Seq(KLines) /\ Lines(<<>>) = {}
  BY DEF Lines
<1>2. FileTyped'
  BY <1>0, <1>1 DEF FileInv, FileTyped
<1>3. Accounted'
  <2>1. Owned \subseteq Owned'
    BY <1>0, OwnedGrows
  <2> QED
    BY <1>0, <1>1, <2>1 DEF FileInv, Accounted
<1>4. ASSUME overlap' = "no" PROVE Alone'
  <2>1. Alone
    BY <1>0, <1>4 DEF FileInv
  <2>2. Rewriting' = Rewriting /\ p \in Rewriting
    BY <1>0 DEF Rewriting, FileInv, FileTyped
  <2>3. \A q \in Procs : q # p => rm[q] = "none"
    BY <2>1, <2>2 DEF Alone, Rewriting
  <2>4. rm'[p] = "open" /\ fd'[p] = "tmp"
        /\ \A q \in Procs : q # p => rm'[q] = "none" /\ fd'[q] = fd[q]
    BY <1>0, <2>3 DEF FileInv, FileTyped
  <2>5. \A q \in Procs : fd'[q] = IF rm'[q] = "open" THEN "tmp" ELSE "none"
    BY <2>1, <2>3, <2>4 DEF Alone
  <2>6. \A q \in Procs : rm'[q] # "written"
    BY <2>4
  <2> QED
    BY <1>0, <2>1, <2>2, <2>5, <2>6 DEF Alone
<1> QED
  BY <1>2, <1>3, <1>4 DEF FileInv

LEMMA WriteStep ==
  ASSUME FileInv, NEW p \in Procs, RemoveWrites(p)
  PROVE  FileInv'
<1>0. /\ rm[p] = "open" /\ rm' = [rm EXCEPT ![p] = "written"]
      /\ fd' = [fd EXCEPT ![p] = "none"]
      /\ UNCHANGED <<rm_host, body, want, approved, overlap>>
  BY DEF RemoveWrites
<1>1. /\ body[p] \in Seq(KLines) /\ file \in Seq(KLines)
      /\ \A t \in tmp : t \in Seq(KLines)
      /\ Lines(body[p]) \subseteq Owned /\ Lines(file) \subseteq Owned
      /\ \A t \in tmp : Lines(t) \subseteq Owned
  BY DEF FileInv, FileTyped, Accounted
<1>2. \/ /\ fd[p] = "tmp" /\ UNCHANGED file
         /\ \E t \in tmp : \E s \in Overwrite(body[p], t) : tmp' = {s}
      \/ fd[p] = "file" /\ file' \in Overwrite(body[p], file) /\ UNCHANGED tmp
      \/ fd[p] = "gone" /\ UNCHANGED <<file, tmp>>
  <2>1. CASE /\ fd[p] = "tmp" /\ UNCHANGED file
             /\ tmp' \in {{s} : s \in UNION {Overwrite(body[p], t) : t \in tmp}}
    BY <2>1
  <2> QED
    BY <2>1 DEF RemoveWrites
\* A write leaves more than the body only when removals overlap.
<1>3. ASSUME NEW t \in Seq(KLines), Lines(t) \subseteq Owned, overlap = "no" => t = <<>>,
             NEW s \in Overwrite(body[p], t)
      PROVE  s \in Seq(KLines) /\ Lines(s) \subseteq Owned /\ (overlap = "no" => s = body[p])
  <2>1. /\ s \in Seq(KLines) /\ Lines(s) \subseteq Lines(body[p]) \cup Remains(t)
        /\ t = <<>> => s = body[p]
    BY <1>1, <1>3, OverwriteLines
  <2>2. CASE overlap = "yes"
    BY <1>1, <1>3, <2>1, <2>2, RemainsOwned
  <2>3. CASE overlap = "no"
    BY <1>1, <1>3, <2>1, <2>3
  <2> QED
    BY <2>2, <2>3 DEF FileInv, FileTyped
<1>4. ASSUME overlap = "no"
      PROVE  fd[p] = "tmp" /\ tmp = {<<>>}
  BY <1>0, <1>4 DEF FileInv, Alone
<1>5. /\ file' \in Seq(KLines) /\ Lines(file') \subseteq Owned
      /\ tmp' \in SUBSET Seq(KLines) /\ \A t \in tmp' : Lines(t) \subseteq Owned
      /\ overlap = "no" => file' = file /\ tmp' = {body[p]}
  <2>1. CASE /\ fd[p] = "tmp" /\ UNCHANGED file
             /\ \E t \in tmp : \E s \in Overwrite(body[p], t) : tmp' = {s}
    <3>1. PICK t \in tmp : \E s \in Overwrite(body[p], t) : tmp' = {s}
      BY <2>1
    <3>2. PICK s \in Overwrite(body[p], t) : tmp' = {s}
      BY <3>1
    <3>3. t \in Seq(KLines) /\ Lines(t) \subseteq Owned /\ (overlap = "no" => t = <<>>)
      BY <1>1, <1>4
    <3>4. s \in Seq(KLines) /\ Lines(s) \subseteq Owned /\ (overlap = "no" => s = body[p])
      BY <1>3, <3>3
    <3> QED
      BY <1>1, <2>1, <3>2, <3>4
  <2>2. CASE fd[p] = "file" /\ file' \in Overwrite(body[p], file) /\ UNCHANGED tmp
    <3>1. overlap # "no"
      BY <1>4, <2>2
    <3>2. file' \in Seq(KLines) /\ Lines(file') \subseteq Owned
      BY <1>1, <1>3, <2>2, <3>1
    <3> QED
      BY <1>1, <2>2, <3>1, <3>2
  <2>3. CASE fd[p] = "gone" /\ UNCHANGED <<file, tmp>>
    BY <1>1, <1>4, <2>3
  <2> QED
    BY <1>2, <2>1, <2>2, <2>3
<1>8. FileTyped'
  BY <1>0, <1>5 DEF FileInv, FileTyped
<1>6. Accounted'
  <2>1. Owned \subseteq Owned'
    BY <1>0, OwnedGrows
  <2> QED
    BY <1>0, <1>5, <2>1 DEF FileInv, Accounted
<1>7. ASSUME overlap' = "no" PROVE Alone'
  <2>1. Alone
    BY <1>0, <1>7 DEF FileInv
  <2>2. Rewriting' = Rewriting /\ p \in Rewriting
    BY <1>0 DEF Rewriting, FileInv, FileTyped
  <2>3. \A q \in Procs : q # p => rm[q] = "none"
    BY <2>1, <2>2 DEF Alone, Rewriting
  <2>4. rm'[p] = "written" /\ fd'[p] = "none"
        /\ \A q \in Procs : q # p => rm'[q] = "none" /\ fd'[q] = fd[q]
    BY <1>0, <2>3 DEF FileInv, FileTyped
  <2>6. file' = file /\ tmp' = {body[p]}
    BY <1>0, <1>5, <1>7
  <2>7. \A q \in Procs : fd'[q] = IF rm'[q] = "open" THEN "tmp" ELSE "none"
    BY <2>1, <2>3, <2>4 DEF Alone
  <2>8. \A q \in Procs : rm'[q] # "open" /\ (rm'[q] = "written" => q = p)
    BY <2>4
  <2> QED
    BY <1>0, <2>1, <2>2, <2>6, <2>7, <2>8 DEF Alone
<1> QED
  BY <1>6, <1>7, <1>8 DEF FileInv

\* What a process that ends leaves behind.
LEMMA ExitTyped ==
  ASSUME FileTyped, NEW p \in Procs, Exits(p)
  PROVE  /\ rm' \in [Procs -> {"none", "read", "open", "written"}]
         /\ rm_host' \in [Procs -> Hosts \cup {NoHost}]
         /\ body' \in [Procs -> Seq(KLines)]
         /\ rm'[p] = "none" /\ body'[p] = <<>> /\ Lines(<<>>) = {}
         /\ Rewriting' = Rewriting \ {p}
         /\ \A q \in Procs : q # p =>
              rm'[q] = rm[q] /\ body'[q] = body[q] /\ rm_host'[q] = rm_host[q]
<1>1. <<>> \in Seq(KLines) /\ Lines(<<>>) = {}
  BY DEF Lines
<1>2. /\ rm' \in [Procs -> {"none", "read", "open", "written"}]
      /\ rm'[p] = "none" /\ \A q \in Procs : q # p => rm'[q] = rm[q]
  BY DEF FileTyped, Exits
<1>3. Rewriting' = Rewriting \ {p}
  BY <1>2 DEF Rewriting
<1> QED
  BY <1>1, <1>2, <1>3 DEF FileTyped, Exits

LEMMA RenameStep ==
  ASSUME FileInv, NEW p \in Procs, RemoveRenames(p)
  PROVE  FileInv'
<1>0. rm[p] = "written" /\ Exits(p) /\ UNCHANGED <<approved, overlap>>
  BY DEF RemoveRenames
<1>1. /\ rm' \in [Procs -> {"none", "read", "open", "written"}]
      /\ rm_host' \in [Procs -> Hosts \cup {NoHost}]
      /\ body' \in [Procs -> Seq(KLines)]
      /\ rm'[p] = "none" /\ body'[p] = <<>> /\ Lines(<<>>) = {}
      /\ Rewriting' = Rewriting \ {p}
      /\ \A q \in Procs : q # p =>
           rm'[q] = rm[q] /\ body'[q] = body[q] /\ rm_host'[q] = rm_host[q]
  BY <1>0, ExitTyped DEF FileInv
<1>2. Owned \subseteq Owned' /\ \A q \in Procs : Lines(body'[q]) \subseteq Owned
  BY <1>0, <1>1, OwnedGrows DEF FileInv, Accounted
<1>3. ASSUME overlap = "no"
      PROVE  /\ Lines(file) = want /\ tmp = {body[p]} /\ Rewriting' = {}
             /\ Lines(body[p]) = {l \in Lines(file) : l.host # rm_host[p]}
             /\ \A q \in Procs : rm'[q] = "none" /\ fd[q] = "none"
  <2>1. Alone /\ p \in Rewriting
    BY <1>0, <1>3 DEF FileInv, Rewriting
  <2>2. \A q \in Procs : q # p => rm[q] = "none"
    BY <2>1 DEF Alone, Rewriting
  <2>3. \A q \in Procs : rm'[q] = "none"
    BY <1>1, <2>2
  <2>4. \A q \in Procs : fd[q] = "none"
    BY <1>0, <2>1, <2>2 DEF Alone
  <2>5. Rewriting' = {}
    BY <2>3 DEF Rewriting
  <2> QED
    BY <1>0, <2>1, <2>3, <2>4, <2>5 DEF Alone
<1>4. CASE /\ file' \in tmp /\ tmp' = {} /\ fd' = Followed
           /\ want' = {l \in want : l.host # rm_host[p]}
  <2>1. Followed \in [Procs -> {"none", "tmp", "file", "gone"}]
    BY DEF FileInv, FileTyped, Followed
  <2>2. FileTyped'
    BY <1>0, <1>1, <1>4, <2>1 DEF FileInv, FileTyped
  <2>3. Accounted'
    BY <1>0, <1>2, <1>4 DEF FileInv, Accounted
  <2>4. ASSUME overlap' = "no" PROVE Alone'
    <3>1. overlap = "no"
      BY <1>0, <2>4
    <3>2. file' = body[p] /\ Lines(file') = want'
      BY <1>3, <1>4, <3>1
    <3>3. \A q \in Procs : fd'[q] = "none" /\ rm'[q] = "none"
      BY <1>3, <1>4, <3>1 DEF Followed
    <3> QED
      BY <1>3, <3>1, <3>2, <3>3 DEF Alone
  <2> QED
    BY <2>2, <2>3, <2>4 DEF FileInv
<1>5. CASE tmp = {} /\ UNCHANGED <<file, tmp, fd, want>>
  <2>1. FileTyped'
    BY <1>0, <1>1, <1>5 DEF FileInv, FileTyped
  <2>2. Accounted'
    BY <1>0, <1>2, <1>5 DEF FileInv, Accounted
  <2>3. overlap' # "no"
    BY <1>0, <1>3, <1>5
  <2> QED
    BY <2>1, <2>2, <2>3 DEF FileInv
<1> QED
  BY <1>4, <1>5 DEF RemoveRenames

LEMMA KillStep ==
  ASSUME FileInv, NEW p \in Procs, RemoveKilled(p)
  PROVE  FileInv'
<1>0. /\ rm[p] # "none" /\ Exits(p) /\ fd' = [fd EXCEPT ![p] = "none"]
      /\ UNCHANGED <<file, tmp, want, approved, overlap>>
  BY DEF RemoveKilled
<1>1. /\ rm' \in [Procs -> {"none", "read", "open", "written"}]
      /\ rm_host' \in [Procs -> Hosts \cup {NoHost}]
      /\ body' \in [Procs -> Seq(KLines)]
      /\ rm'[p] = "none" /\ body'[p] = <<>> /\ Lines(<<>>) = {}
      /\ Rewriting' = Rewriting \ {p}
      /\ \A q \in Procs : q # p =>
           rm'[q] = rm[q] /\ body'[q] = body[q] /\ rm_host'[q] = rm_host[q]
  BY <1>0, ExitTyped DEF FileInv
<1>2. FileTyped'
  BY <1>0, <1>1 DEF FileInv, FileTyped
<1>3. Accounted'
  <2>1. Owned \subseteq Owned'
    BY <1>0, OwnedGrows
  <2> QED
    BY <1>0, <1>1, <2>1 DEF FileInv, Accounted
<1>4. ASSUME overlap' = "no" PROVE Alone'
  <2>1. Alone /\ p \in Rewriting
    BY <1>0, <1>4 DEF FileInv, Rewriting
  <2>2. \A q \in Procs : q # p => rm[q] = "none"
    BY <2>1 DEF Alone, Rewriting
  <2>3. \A q \in Procs : rm'[q] = "none"
    BY <1>1, <2>2
  <2>4. \A q \in Procs : fd'[q] = "none"
    BY <1>0, <2>1, <2>2 DEF Alone, FileInv, FileTyped
  <2>5. Rewriting' = {}
    BY <2>3 DEF Rewriting
  <2> QED
    BY <1>0, <2>1, <2>3, <2>4, <2>5 DEF Alone
<1> QED
  BY <1>2, <1>3, <1>4 DEF FileInv

LEMMA FileUnchanged ==
  ASSUME FileInv, UNCHANGED file_vars
  PROVE  FileInv'
<1> USE DEF file_vars
<1>1. FileTyped'
  BY DEF FileInv, FileTyped
<1>2. Accounted'
  <2>1. Owned \subseteq Owned'
    BY OwnedGrows
  <2> QED
    BY <2>1 DEF FileInv, Accounted
<1>3. overlap' = "no" => Alone'
  BY DEF FileInv, Alone, Rewriting
<1> QED
  BY <1>1, <1>2, <1>3 DEF FileInv

LEMMA RemoveStepKeeps ==
  ASSUME FileInv, NEW p \in Procs, RemoveReads(p) \/ RemoveStep(p)
  PROVE  FileInv' /\ UNCHANGED approved /\ (overlap = "yes" => overlap' = "yes")
<1>1. FileInv'
  BY ReadStep, OpenStep, WriteStep, RenameStep, KillStep DEF RemoveStep
<1> QED
  BY <1>1 DEF RemoveStep, RemoveReads, RemoveOpens, RemoveWrites, RemoveRenames, RemoveKilled

-----------------------------------------------------------------------------
(* The login                                                               *)

\* The certificates a client can have been shown for a host.
Certs(h) == IF h = "there" THEN {Theirs} ELSE served \cup {Fake}

LoginTyped ==
  /\ pc \in [Procs -> {"idle", "verify", "prompt", "auth", "open", "mismatch"}]
  /\ host \in [Procs -> Hosts \cup {NoHost}]
  /\ shown \in [Procs -> [cert : Int, genuine : {"yes", "no"}, web : {"yes", "no"}]]

\* Clients are shown, and users accept, what the host has, or an impostor.
Seen ==
  /\ \A l \in approved : \E c \in Certs(l.host) : l.fp = Fp(c)
  /\ \A p \in Procs : pc[p] # "idle" =>
       host[p] \in Hosts /\ shown[p].cert \in Certs(host[p])

\* Who got in got in with a line that may be there.
Entitled ==
  \A p \in Procs : pc[p] \in {"auth", "open"} /\ shown[p].web = "no" =>
    shown[p].genuine = "yes" /\ Line(host[p], Fp(shown[p].cert)) \in Owned

LoginInv ==
  /\ IdentityInv /\ Presents /\ FileInv /\ LoginTyped /\ Seen
  /\ NoFalseAlarm /\ Entitled

\* Certificates have fingerprints, and different ones have different ones.
LEMMA Fingerprints ==
  ASSUME IdentityTypeOK, NEW h
  PROVE  \A c \in Certs(h) : c \in Int /\ Fp(c) \in Int /\ Fp(c) # NoFp
BY IdentityAssumption DEF IdentityTypeOK, Certs, Theirs, Fake, Fp, NoFp, Pairs, Torn

LEMMA LoginInitial == Init => LoginInv
<1> SUFFICES ASSUME Init PROVE LoginInv
  OBVIOUS
<1>1. IdentityInv /\ Presents
  BY IdentityInitial DEF Init, IdentityInit, Presents
<1>2. FileInv
  BY FileInitial DEF Init
<1>3. LoginTyped
  BY DEF Init, LoginTyped, Nothing, Presented, Absent
<1>4. approved = {} /\ \A p \in Procs : pc[p] = "idle"
  BY DEF Init, FileInit
<1> QED
  BY <1>1, <1>2, <1>3, <1>4 DEF LoginInv, Seen, NoFalseAlarm, Entitled

\* A step of the server changes nothing for those who are connected.
LEMMA ServerStep ==
  ASSUME LoginInv, Server
  PROVE  LoginInv'
<1>1. IdentityInv' /\ Presents' /\ served \subseteq served' /\ UNCHANGED host_key
  BY IdentityStep, PresentsStep DEF LoginInv, Server
<1>2. FileInv'
  BY FileUnchanged DEF LoginInv, Server
<1>3. UNCHANGED <<pc, host, shown, approved, overlap>>
  BY DEF Server, login_vars, conn_vars, file_vars
<1>4. \A h : Certs(h) \subseteq Certs(h)'
  BY <1>1 DEF Certs, Theirs, Fake
<1>5. LoginTyped'
  BY <1>3 DEF LoginInv, LoginTyped
<1>6. Seen'
  <2>1. \A l \in approved' : \E c \in Certs(l.host)' : l.fp = Fp(c)
    BY <1>3, <1>4 DEF LoginInv, Seen, Fp
  <2>2. \A p \in Procs : pc'[p] # "idle" =>
          host'[p] \in Hosts /\ shown'[p].cert \in Certs(host[p])'
    BY <1>3, <1>4 DEF LoginInv, Seen
  <2> QED
    BY <2>1, <2>2, <1>3 DEF Seen, Fp
<1>7. NoFalseAlarm' /\ Entitled'
  <2>1. Owned \subseteq Owned'
    BY <1>3, OwnedGrows
  <2> QED
    BY <1>1, <1>3, <2>1 DEF LoginInv, NoFalseAlarm, Entitled, Fake, Fp, Line
<1> QED
  BY <1>1, <1>2, <1>5, <1>6, <1>7 DEF LoginInv

\* What the clients' steps have in common: the server stays as it is, nothing
\* accepted is forgotten, and only p moves.  The rest is left to show for p.
LEMMA ClientStep ==
  ASSUME LoginInv, UNCHANGED identity_vars, FileInv', LoginTyped',
         NEW p \in Procs, approved \subseteq approved', overlap = "yes" => overlap' = "yes",
         \A q \in Procs \ {p} :
           pc'[q] = pc[q] /\ host'[q] = host[q] /\ shown'[q] = shown[q],
         \A l \in approved' : \E c \in Certs(l.host) : l.fp = Fp(c),
         pc'[p] # "idle" => host'[p] \in Hosts /\ shown'[p].cert \in Certs(host'[p]),
         host_key = "persistent" /\ pc'[p] = "mismatch" =>
           \/ shown'[p].cert = Fake \/ Line("here", Fp(Fake)) \in approved'
           \/ overlap' = "yes" /\ \E a \in approved' : <<a.host, host'[p]>> \in Tails,
         pc'[p] \in {"auth", "open"} /\ shown'[p].web = "no" =>
           shown'[p].genuine = "yes" /\ Line(host'[p], Fp(shown'[p].cert)) \in Owned'
  PROVE  LoginInv'
<1>1. IdentityInv' /\ Presents' /\ UNCHANGED <<host_key, served>>
  BY IdentityStep, PresentsStep DEF LoginInv, identity_vars
<1>2. \A h : Certs(h)' = Certs(h)
  BY <1>1 DEF Certs, Theirs, Fake
<1>3. Seen'
  <2>1. \A q \in Procs : pc'[q] # "idle" =>
          host'[q] \in Hosts /\ shown'[q].cert \in Certs(host'[q])
    BY DEF LoginInv, Seen
  <2>2. \A q \in Procs : Certs(host[q])' = Certs(host'[q])
    BY <1>1 DEF Certs, Theirs, Fake
  <2>3. \A l \in approved' : \E c \in Certs(l.host)' : l.fp = Fp(c)
    BY <1>2
  <2> QED
    BY <2>1, <2>2, <2>3 DEF Seen, Fp
<1>4. NoFalseAlarm'
  BY <1>1 DEF LoginInv, NoFalseAlarm, Fake, Fp, Line
<1>5. Entitled'
  <2> SUFFICES ASSUME NEW q \in Procs, pc'[q] \in {"auth", "open"}, shown'[q].web = "no"
               PROVE  shown'[q].genuine = "yes" /\ Line(host'[q], Fp(shown'[q].cert)) \in Owned'
    BY DEF Entitled, Fp, Line
  <2>1. CASE q = p
    BY <2>1
  <2>2. CASE q # p
    <3>1. Owned \subseteq Owned'
      BY OwnedGrows
    <3> QED
      BY <2>2, <3>1 DEF LoginInv, Entitled
  <2> QED
    BY <2>1, <2>2
<1> QED
  BY <1>1, <1>3, <1>4, <1>5 DEF LoginInv

\* A process that ends is none of these.
LEMMA QuitStep ==
  ASSUME LoginInv, UNCHANGED identity_vars, NEW p \in Procs, Quit(p), FileInv',
         approved \subseteq approved', overlap = "yes" => overlap' = "yes",
         \A l \in approved' : \E c \in Certs(l.host) : l.fp = Fp(c)
  PROVE  LoginInv'
<1>1. LoginTyped' /\ pc'[p] = "idle"
      /\ \A q \in Procs \ {p} : pc'[q] = pc[q] /\ host'[q] = host[q] /\ shown'[q] = shown[q]
  BY DEF LoginInv, LoginTyped, Quit, Nothing, Presented, Absent
<1> QED
  BY <1>1, ClientStep

\* A process that only moves on.
LEMMA GotoTyped ==
  ASSUME LoginTyped, NEW p \in Procs,
         NEW s \in {"idle", "verify", "prompt", "auth", "open", "mismatch"}, Goto(p, s)
  PROVE  /\ LoginTyped' /\ pc'[p] = s /\ UNCHANGED <<host, shown>>
         /\ \A q \in Procs \ {p} : pc'[q] = pc[q]
BY DEF LoginTyped, Goto

\* verify_server_cert accepts what it found on the host's line, or pinned to it.
LEMMA AcceptedStep ==
  ASSUME LoginInv, UNCHANGED identity_vars, NEW p \in Procs, Accepted(p), FileInv',
         pc[p] # "idle", approved \subseteq approved', overlap = "yes" => overlap' = "yes",
         \A l \in approved' : \E c \in Certs(l.host) : l.fp = Fp(c),
         shown[p].web = "no" => Line(host[p], Fp(shown[p].cert)) \in Owned'
  PROVE  LoginInv'
<1>1. CASE shown[p].genuine = "yes" /\ Goto(p, "auth")
  <2>1. /\ LoginTyped' /\ pc'[p] = "auth" /\ UNCHANGED <<host, shown>>
        /\ \A q \in Procs \ {p} : pc'[q] = pc[q]
    BY <1>1, GotoTyped DEF LoginInv
  <2>2. host'[p] \in Hosts /\ shown'[p].cert \in Certs(host'[p])
    BY <2>1 DEF LoginInv, Seen
  <2> QED
    BY <1>1, <2>1, <2>2, ClientStep
<1>2. CASE Quit(p)
  BY <1>2, QuitStep
<1> QED
  BY <1>1, <1>2 DEF Accepted

LEMMA DialStep ==
  ASSUME LoginInv, NEW p \in Procs, Dial(p)
  PROVE  LoginInv'
<1>1. PICK h \in Hosts : \E c \in Servers(h) :
        host' = [host EXCEPT ![p] = h] /\ shown' = [shown EXCEPT ![p] = c]
  BY DEF Dial
<1>2. PICK c \in Servers(h) :
        host' = [host EXCEPT ![p] = h] /\ shown' = [shown EXCEPT ![p] = c]
  BY <1>1
<1>3. /\ pc' = [pc EXCEPT ![p] = "verify"] /\ UNCHANGED <<approved, overlap>>
      /\ UNCHANGED identity_vars /\ UNCHANGED file_vars
  BY DEF Dial, file_vars
<1>4. c.cert \in Certs(h) /\ c.genuine \in {"yes", "no"} /\ c.web \in {"yes", "no"}
      /\ c = [cert |-> c.cert, genuine |-> c.genuine, web |-> c.web]
  <2>1. CASE h = "there"
    <3>1. PICK w \in {"yes", "no"} : c = Presented(Theirs, "yes", w)
      BY <1>2, <2>1 DEF Servers
    <3> QED
      BY <2>1, <3>1 DEF Certs, Presented
  <2>2. CASE h # "there"
    <3>1. CASE c = Presented(Fake, "yes", "no")
      BY <2>2, <3>1 DEF Certs, Presented
    <3>2. CASE c \in {Presented(mem_cert, IF mem_key = mem_cert THEN "yes" ELSE "no", "no") :
                        b \in {boot} \cap {"up"}}
      <4>1. boot = "up" /\ c = Presented(mem_cert, IF mem_key = mem_cert THEN "yes" ELSE "no", "no")
        BY <3>2
      <4>2. mem_cert \in served
        BY <4>1 DEF LoginInv, Presents
      <4> QED
        BY <2>2, <4>1, <4>2 DEF Certs, Presented
    <3> QED
      BY <1>2, <2>2, <3>1, <3>2 DEF Servers
  <2> QED
    BY <2>1, <2>2
<1>5. c \in [cert : Int, genuine : {"yes", "no"}, web : {"yes", "no"}]
  <2>1. c.cert \in Int
    BY <1>4, Fingerprints DEF LoginInv, IdentityInv
  <2> QED
    BY <1>4, <2>1
<1>6. LoginTyped'
  BY <1>2, <1>3, <1>5 DEF LoginInv, LoginTyped
<1>7. /\ pc'[p] = "verify" /\ host'[p] = h /\ shown'[p] = c
      /\ \A q \in Procs \ {p} : pc'[q] = pc[q] /\ host'[q] = host[q] /\ shown'[q] = shown[q]
  BY <1>2, <1>3 DEF LoginInv, LoginTyped
<1>8. FileInv'
  BY <1>3, FileUnchanged DEF LoginInv
<1>9. \A l \in approved' : \E d \in Certs(l.host) : l.fp = Fp(d)
  BY <1>3 DEF LoginInv, Seen
<1> QED
  BY <1>3, <1>4, <1>6, <1>7, <1>8, <1>9, ClientStep

\* A pin that differs from what is shown: both are the host's, so they are the
\* same, unless one is an impostor's.
LEMMA Mismatch ==
  ASSUME LoginInv, NEW p \in Procs, pc[p] = "verify",
         lookup(host[p]) \notin {Fp(shown[p].cert), NoFp}, host_key = "persistent"
  PROVE  \/ shown[p].cert = Fake \/ Line("here", Fp(Fake)) \in approved
         \/ overlap = "yes" /\ \E a \in approved : <<a.host, host[p]>> \in Tails
<1> DEFINE pinned == lookup(host[p])
           found == Line(host[p], pinned)
<1>0. found.host = host[p] /\ found.fp = pinned /\ host[p] \in Hosts
  BY DEF Line, LoginInv, Seen
<1>1. found \in Owned
  <2>1. found \in Lines(file)
    BY LookupFinds DEF LoginInv, FileInv, FileTyped
  <2> QED
    BY <2>1 DEF LoginInv, FileInv, Accounted
<1>10. CASE found \notin approved
  <2> HIDE DEF found
  <2>1. PICK a \in approved : overlap = "yes" /\ found \in Cut(a)
    BY <1>1, <1>10 DEF Owned, Vouched
  <2>2. found # Junk
    BY <1>0, JunkHost
  <2>3. PICK g \in Hosts : found = Line(g, a.fp) /\ <<a.host, g>> \in Tails
    BY <2>1, <2>2 DEF Cut
  <2>4. g = host[p]
    BY <1>0, <2>3 DEF Line
  <2> QED
    BY <2>1, <2>3, <2>4
<1>11. SUFFICES ASSUME found \in approved
                PROVE  shown[p].cert = Fake \/ Line("here", Fp(Fake)) \in approved
  BY <1>10
<1>2. PICK c \in Certs(host[p]) : pinned = Fp(c)
  <2> HIDE DEF found, pinned
  <2> QED
    BY <1>0, <1>11 DEF LoginInv, Seen
<1> HIDE DEF pinned
<1>3. shown[p].cert \in Certs(host[p]) /\ host[p] \in Hosts
  BY DEF LoginInv, Seen
<1>4. c # shown[p].cert
  BY <1>2 DEF pinned
<1>5. host[p] = "here" /\ c \in served \cup {Fake} /\ shown[p].cert \in served \cup {Fake}
  BY <1>2, <1>3, <1>4, LoginAssumption DEF Certs
<1>6. \A a, b \in served : a = b
  BY DEF LoginInv, IdentityInv, Files
<1>7. CASE c = Fake
  BY <1>11, <1>2, <1>5, <1>7
<1>8. CASE c # Fake
  BY <1>4, <1>5, <1>6, <1>8
<1> QED
  BY <1>7, <1>8

LEMMA VerifyStep ==
  ASSUME LoginInv, NEW p \in Procs, Verify(p)
  PROVE  LoginInv'
<1>1. /\ pc[p] = "verify" /\ UNCHANGED identity_vars /\ UNCHANGED file_vars
      /\ UNCHANGED <<approved, overlap>>
  BY DEF Verify, file_vars
<1>2. FileInv'
  BY <1>1, FileUnchanged DEF LoginInv
<1>3. \A l \in approved' : \E d \in Certs(l.host) : l.fp = Fp(d)
  BY <1>1 DEF LoginInv, Seen
<1>4. host[p] \in Hosts /\ shown[p].cert \in Certs(host[p])
  BY <1>1 DEF LoginInv, Seen
<1>5. CASE (shown[p].web = "yes" \/ lookup(host[p]) = Fp(shown[p].cert)) /\ Accepted(p)
  <2>1. ASSUME shown[p].web = "no"
        PROVE  Line(host[p], Fp(shown[p].cert)) \in Owned'
    <3>1. lookup(host[p]) = Fp(shown[p].cert)
      BY <1>5, <2>1
    <3>2. lookup(host[p]) # NoFp
      BY <1>4, <3>1, Fingerprints DEF LoginInv, IdentityInv
    <3>3. Line(host[p], lookup(host[p])) \in Lines(file)
      BY <3>2, LookupFinds DEF LoginInv, FileInv, FileTyped
    <3>4. Owned \subseteq Owned'
      BY <1>1, OwnedGrows
    <3> QED
      BY <3>1, <3>3, <3>4 DEF LoginInv, FileInv, Accounted
  <2> QED
    BY <1>1, <1>2, <1>3, <1>5, <2>1, AcceptedStep
<1>6. CASE Goto(p, "prompt")
  <2>1. /\ LoginTyped' /\ pc'[p] = "prompt" /\ UNCHANGED <<host, shown>>
        /\ \A q \in Procs \ {p} : pc'[q] = pc[q]
    BY <1>6, GotoTyped DEF LoginInv
  <2> QED
    BY <1>1, <1>2, <1>3, <1>4, <2>1, ClientStep
<1>7. CASE lookup(host[p]) \notin {Fp(shown[p].cert), NoFp} /\ Goto(p, "mismatch")
  <2>1. /\ LoginTyped' /\ pc'[p] = "mismatch" /\ UNCHANGED <<host, shown>>
        /\ \A q \in Procs \ {p} : pc'[q] = pc[q]
    BY <1>7, GotoTyped DEF LoginInv
  <2>2. host_key = "persistent" =>
          \/ shown[p].cert = Fake \/ Line("here", Fp(Fake)) \in approved
          \/ overlap = "yes" /\ \E a \in approved : <<a.host, host[p]>> \in Tails
    BY <1>1, <1>7, Mismatch
  <2> QED
    BY <1>1, <1>2, <1>3, <1>4, <2>1, <2>2, ClientStep
<1> QED
  BY <1>5, <1>6, <1>7 DEF Verify

LEMMA AnswerStep ==
  ASSUME LoginInv, NEW p \in Procs, Answer(p)
  PROVE  LoginInv'
<1>1. pc[p] = "prompt" /\ UNCHANGED identity_vars
  BY DEF Answer
<1>2. host[p] \in Hosts /\ shown[p].cert \in Certs(host[p])
  BY <1>1 DEF LoginInv, Seen
<1>3. \A l \in approved : \E d \in Certs(l.host) : l.fp = Fp(d)
  BY DEF LoginInv, Seen
<1>4. CASE pin(host[p], Fp(shown[p].cert)) /\ Accepted(p)
  <2>1. FileInv'
    <3>1. Fp(shown[p].cert) \in Int
      BY <1>2, Fingerprints DEF LoginInv, IdentityInv
    <3> QED
      BY <1>2, <1>4, <3>1, PinStep DEF LoginInv
  <2>2. approved' = approved \cup {Line(host[p], Fp(shown[p].cert))}
    BY <1>4 DEF pin
  <2>4. overlap = "yes" => overlap' = "yes"
    BY <1>4 DEF pin
  <2>5. Line(host[p], Fp(shown[p].cert)) \in Owned'
    <3>1. Line(host[p], Fp(shown[p].cert)) \in approved' /\ approved' \in SUBSET KLines
      BY <2>1, <2>2 DEF FileInv, FileTyped, KLines
    <3> QED
      BY <3>1 DEF Owned, Vouched, KLines
  <2>3. \A l \in approved' : \E d \in Certs(l.host) : l.fp = Fp(d)
    <3>1. \E d \in Certs(Line(host[p], Fp(shown[p].cert)).host) :
            Line(host[p], Fp(shown[p].cert)).fp = Fp(d)
      BY <1>2 DEF Line
    <3> QED
      BY <1>3, <2>2, <3>1
  <2> QED
    BY <1>1, <1>4, <2>1, <2>2, <2>3, <2>4, <2>5, AcceptedStep
<1>5. CASE Quit(p) /\ UNCHANGED file_vars
  <2>1. FileInv' /\ UNCHANGED <<approved, overlap>>
    BY <1>5, FileUnchanged DEF LoginInv, file_vars
  <2> QED
    BY <1>1, <1>3, <1>5, <2>1, QuitStep
<1> QED
  BY <1>4, <1>5 DEF Answer

LEMMA RespondStep ==
  ASSUME LoginInv, NEW p \in Procs, Respond(p) \/ End(p)
  PROVE  LoginInv'
<1>1. /\ UNCHANGED identity_vars /\ UNCHANGED file_vars
      /\ UNCHANGED <<approved, overlap>> /\ Owned \subseteq Owned'
  BY OwnedGrows DEF Respond, End, file_vars
<1>2. FileInv'
  BY <1>1, FileUnchanged DEF LoginInv
<1>3. \A l \in approved' : \E d \in Certs(l.host) : l.fp = Fp(d)
  BY <1>1 DEF LoginInv, Seen
<1>4. ASSUME NEW s \in {"auth", "open"}, pc[p] = "auth", Goto(p, s)
      PROVE  LoginInv'
  <2>1. /\ LoginTyped' /\ pc'[p] = s /\ UNCHANGED <<host, shown>>
        /\ \A q \in Procs \ {p} : pc'[q] = pc[q]
    BY <1>4, GotoTyped DEF LoginInv
  <2>2. host[p] \in Hosts /\ shown[p].cert \in Certs(host[p])
    BY <1>4 DEF LoginInv, Seen
  <2>3. shown[p].web = "no" =>
          shown[p].genuine = "yes" /\ Line(host[p], Fp(shown[p].cert)) \in Owned'
    BY <1>1, <1>4 DEF LoginInv, Entitled
  <2> QED
    BY <1>1, <1>2, <1>3, <1>4, <2>1, <2>2, <2>3, ClientStep
<1>5. CASE Quit(p)
  BY <1>1, <1>2, <1>3, <1>5, QuitStep
<1>6. CASE Respond(p) /\ ~Quit(p)
  <2>1. pc[p] = "auth" /\ (Goto(p, "auth") \/ Goto(p, "open"))
    BY <1>6 DEF Respond
  <2> QED
    BY <1>4, <2>1
<1> QED
  BY <1>5, <1>6 DEF End

LEMMA RemovalStep ==
  ASSUME LoginInv, NEW p \in Procs, Remove(p)
  PROVE  LoginInv'
<1>1. /\ UNCHANGED identity_vars /\ UNCHANGED <<pc, host, shown>>
      /\ RemoveReads(p) \/ RemoveStep(p)
  BY DEF Remove, conn_vars
<1>2. FileInv' /\ UNCHANGED approved /\ (overlap = "yes" => overlap' = "yes")
  BY <1>1, RemoveStepKeeps DEF LoginInv
<1>3. \A l \in approved' : \E d \in Certs(l.host) : l.fp = Fp(d)
  BY <1>2 DEF LoginInv, Seen
<1>4. LoginTyped' /\ pc'[p] = "idle"
  BY <1>1 DEF LoginInv, LoginTyped, Remove
<1> QED
  BY <1>1, <1>2, <1>3, <1>4, ClientStep

LEMMA LoginUnchanged ==
  ASSUME LoginInv, UNCHANGED vars
  PROVE  LoginInv'
<1>1. UNCHANGED identity_vars /\ UNCHANGED file_vars
      /\ UNCHANGED <<pc, host, shown, approved, overlap>>
  BY DEF vars, login_vars, conn_vars, file_vars
<1>2. FileInv'
  BY <1>1, FileUnchanged DEF LoginInv
<1>3. IdentityInv' /\ Presents' /\ UNCHANGED <<host_key, served>>
  BY <1>1, IdentityStep, PresentsStep DEF LoginInv, identity_vars
<1>4. LoginTyped' /\ Seen'
  BY <1>1, <1>3 DEF LoginInv, LoginTyped, Seen, Certs, Theirs, Fake, Fp
<1>5. NoFalseAlarm' /\ Entitled'
  <2>1. Owned \subseteq Owned'
    BY <1>1, OwnedGrows
  <2> QED
    BY <1>1, <1>3, <2>1 DEF LoginInv, NoFalseAlarm, Entitled, Fake, Fp, Line
<1> QED
  BY <1>2, <1>3, <1>4, <1>5 DEF LoginInv

LEMMA LoginStepKeeps == LoginInv /\ [Next]_vars => LoginInv'
<1> SUFFICES ASSUME LoginInv, [Next]_vars PROVE LoginInv'
  OBVIOUS
<1>1. CASE Server
  BY <1>1, ServerStep
<1>2. ASSUME NEW p \in Procs, 
             Dial(p) \/ ClientGoesOn(p) \/ Respond(p) \/ Remove(p)
      PROVE  LoginInv'
  BY <1>2, DialStep, VerifyStep, AnswerStep, RespondStep, RemovalStep DEF ClientGoesOn
<1>3. CASE UNCHANGED vars
  BY <1>3, LoginUnchanged
<1> QED
  BY <1>1, <1>2, <1>3 DEF Next

LEMMA LoginAlways == Spec => []LoginInv
BY LoginInitial, LoginStepKeeps, PTL DEF Spec

-----------------------------------------------------------------------------
\* remove_known_host and pin: known_hosts is what was pinned and not removed,
\* whenever a removal is killed; and when removals and pins overlap, it still
\* holds only lines a user accepted, or ends of those.
THEOREM KnownHostsHolds == Spec => []KnownHostsExact
<1>1. LoginInv => KnownHostsExact
  BY DEF LoginInv, FileInv, Accounted, Owned, Alone, KnownHostsExact
<1> QED
  BY <1>1, LoginAlways, PTL

\* verify_server_cert: nobody gets past it, unless a web root vouches for the
\* host, with a certificate that no user accepted for that host, or for one whose
\* name ends with that host's, if removals cut a line.
THEOREM OnlyAcceptedHolds == Spec => []OnlyAccepted
<1>1. LoginInv => OnlyAccepted
  BY DEF LoginInv, Entitled, Owned, OnlyAccepted
<1> QED
  BY <1>1, LoginAlways, PTL

\* verify_server_cert and host_identity together: the client of a persistent
\* server refuses a certificate only if an impostor's is involved, or a line that
\* overlapping removals cut.
THEOREM NoFalseAlarmHolds == Spec => []NoFalseAlarm
<1>1. LoginInv => NoFalseAlarm
  BY DEF LoginInv
<1> QED
  BY <1>1, LoginAlways, PTL

-----------------------------------------------------------------------------
(* The host key's signatures, which the handshakes above rest on (Signing): *)
(* for every burst, refill interval and counter width, no more of them than *)
(* the throttle allows, and none for another handshake's message.           *)

\* The constants as the leaves below use them.
LEMMA SigningConstants ==
  /\ Burst \in Nat /\ MaxGain \in Nat /\ MaxTime \in Nat /\ MaxJobs \in Nat
  /\ Refill \in Nat /\ Refill > 0
BY SigningAssumption

\* Whole intervals never add up to more than the time elapsed.
LEMMA WholeIntervals ==
  ASSUME NEW a \in Nat, NEW n \in Nat, n > 0
  PROVE  a \div n \in Nat /\ (a \div n) * n <= a
OBVIOUS

\* Scaling keeps an order.
LEMMA ScaleMonotone ==
  ASSUME NEW a \in Nat, NEW b \in Nat, NEW n \in Nat, a <= b
  PROVE  a * n <= b * n
OBVIOUS

\* The inductive invariant: tokens in hand count as signatures already paid
\* for, and `last` is the time up to which refills have been credited.
Credit ==
  /\ now \in Nat /\ last \in Nat /\ tokens \in Nat /\ signed \in Nat
  /\ last <= now
  /\ (signed + tokens) * Refill <= Burst * Refill + last

\* One refill credits no more than the time it moves `last` over.
LEMMA RefillSound ==
  ASSUME Credit
  PROVE  /\ gained \in Nat /\ filled \in Nat
         /\ gained * Refill \in Nat
         /\ last + gained * Refill <= now
         /\ (signed + filled) * Refill <= Burst * Refill + (last + gained * Refill)
<1> DEFINE e == now - last
           w == e \div Refill
<1>1. e \in Nat
  BY DEF Credit
<1>2. w \in Nat /\ w * Refill <= e
  BY <1>1, SigningConstants, WholeIntervals
<1>3. gained \in Nat /\ gained <= w
  <2> HIDE DEF w
  <2>1. gained = Least(w, MaxGain)
    BY DEF gained, w
  <2> QED
    BY <1>2, <2>1, SigningConstants DEF Least
<1> HIDE DEF e, w
<1>4. gained * Refill <= w * Refill /\ gained * Refill \in Nat
  BY <1>2, <1>3, SigningConstants, ScaleMonotone
<1>5. last + gained * Refill <= now
  <2>1. now = last + e
    BY DEF Credit, e
  <2>2. w * Refill \in Nat
    BY <1>2, SigningConstants
  <2> QED
    BY <1>1, <1>2, <1>4, <2>1, <2>2 DEF Credit
<1>6. filled \in Nat /\ signed + filled <= (signed + tokens) + gained
  BY <1>3, SigningConstants DEF Credit, filled, Least
<1>7. (signed + filled) * Refill <= ((signed + tokens) + gained) * Refill
  BY <1>3, <1>6, SigningConstants, ScaleMonotone DEF Credit
<1>8. ((signed + tokens) + gained) * Refill = (signed + tokens) * Refill + gained * Refill
  BY <1>3, SigningConstants DEF Credit
<1> QED
  BY <1>3, <1>4, <1>5, <1>6, <1>7, <1>8, SigningConstants DEF Credit

\* The token bucket bounds the monitor's signatures, for every setting of it.
THEOREM ThrottleHolds == SigningSpec => []ThrottleBound
<1>1. SigningInit => Credit
  BY SigningConstants DEF SigningInit, Credit
<1>2. Credit /\ [SigningNext]_signing_vars => Credit'
  <2> SUFFICES ASSUME Credit, [SigningNext]_signing_vars PROVE Credit'
    OBVIOUS
  <2>1. CASE MonitorAnswers
    <3> DEFINE step == gained * Refill
    <3>1. /\ step \in Nat
          /\ last + step <= now
          /\ (signed + filled) * Refill <= Burst * Refill + (last + step)
      BY RefillSound
    <3>2. filled \in Nat /\ signed \in Nat
      BY RefillSound DEF Credit
    <3>3. last' = last + step /\ now' = now
      BY <2>1 DEF MonitorAnswers, Advance
    <3>4. tokens' \in Nat /\ signed' \in Nat
      BY <2>1, <3>2 DEF MonitorAnswers, Credit
    <3>5. signed' + tokens' <= signed + filled
      BY <2>1, <3>2 DEF MonitorAnswers, Credit
    <3> DEFINE a == signed' + tokens'
               b == signed + filled
    <3>6. a \in Nat /\ b \in Nat /\ a <= b
      <4>1. a \in Nat
        <5>1. \A x, y \in Nat : x + y \in Nat
          OBVIOUS
        <5> QED
          BY <3>4, <5>1, Zenon
      <4>2. b \in Nat
        BY <3>2
      <4>3. a <= b
        BY <3>5
      <4> QED
        BY <4>1, <4>2, <4>3
    <3>7. b * Refill <= Burst * Refill + (last + step)
      BY <3>1
    <3> HIDE DEF step, a, b
    <3>8. a * Refill <= b * Refill
      BY <3>6, SigningConstants, ScaleMonotone
    <3>9. a * Refill <= Burst * Refill + last'
      <4> DEFINE p == a * Refill
                 q == b * Refill
                 z == Burst * Refill
      <4>1. p \in Nat /\ q \in Nat /\ z \in Nat
        BY <3>6, SigningConstants
      <4>2. p <= q /\ q <= z + (last + step)
        BY <3>7, <3>8
      <4> HIDE DEF p, q, z
      <4>3. p <= z + last'
        BY <3>1, <3>3, <4>1, <4>2 DEF Credit
      <4> QED
        BY <4>3 DEF p, z
    <3>10. /\ now' \in Nat /\ last' \in Nat /\ tokens' \in Nat /\ signed' \in Nat
          /\ last' <= now'
      BY <3>1, <3>3, <3>4 DEF Credit
    <3> QED
      BY <3>9, <3>10 DEF Credit, a
  <2>2. CASE Tick
    BY <2>2, SigningConstants DEF Tick, throttle_vars, Credit
  <2>3. CASE \/ Sign \/ SignReturns \/ SignTimesOut
             \/ ThreadWrites \/ ThreadReads \/ ThreadBreaks
    BY <2>3 DEF Sign, SignReturns, SignTimesOut, ThreadWrites, ThreadReads,
                ThreadBreaks, throttle_vars, Credit
  <2>4. CASE UNCHANGED signing_vars
    BY <2>4 DEF signing_vars, throttle_vars, Credit
  <2> QED
    BY <2>1, <2>2, <2>3, <2>4 DEF SigningNext
<1>3. Credit => ThrottleBound
  <2> SUFFICES ASSUME Credit PROVE ThrottleBound
    OBVIOUS
  <2>1. signed * Refill <= (signed + tokens) * Refill
    BY SigningConstants, ScaleMonotone DEF Credit
  <2> QED
    BY <2>1, SigningConstants DEF Credit, ThrottleBound
<1> QED
  BY <1>1, <1>2, <1>3, PTL DEF SigningSpec

-----------------------------------------------------------------------------
(* Whose signature a handshake gets                                        *)

\* An answer that job j may be given.
OwnAnswer(a, j) == a \in SignAnswers /\ (a.kind = "signature" => a.of = j)

\* The signing socket in lockstep with the socket thread: empty while the
\* thread is idle, and holding either the request or the answer of the job at
\* hand while the thread reads.  Of a stopped thread nothing is asked, which
\* is why a broken exchange has to stop it.
Lockstep ==
  /\ thread \in {"idle", "reading", "stopped"}
  /\ thread = "idle" => to_mon = <<>> /\ to_thr = <<>>
  /\ thread = "reading" =>
       /\ job \in Jobs
       /\ \/ to_mon = <<job>> /\ to_thr = <<>>
          \/ to_mon = <<>> /\ \E a \in SignAnswers : to_thr = <<a>> /\ OwnAnswer(a, job)

\* The inductive invariant: what the reply channels hold is as good as what
\* sign() has returned, and the socket is in lockstep.
Straight ==
  /\ next_job \in 0..MaxJobs
  /\ waiting \in 0..MaxJobs
  /\ jobs \in Seq(Jobs)
  /\ reply \in [Jobs -> SignAnswers]
  /\ result \in [Jobs -> SignAnswers]
  /\ \A j \in Jobs : OwnAnswer(reply[j], j) /\ OwnAnswer(result[j], j)
  /\ Lockstep

LEMMA FailedIsOwn ==
  /\ \A j : OwnAnswer(Failed, j) /\ OwnAnswer(None, j)
  /\ \A j \in Jobs : OwnAnswer(Signature(j), j)
BY DEF OwnAnswer, SignAnswers, Failed, None, Signature

\* Answering a request leaves the socket in lockstep: the answer is for the
\* job the request was for.
LEMMA AnswerLockstep ==
  ASSUME Straight, MonitorAnswers
  PROVE  Lockstep'
<1>1. UNCHANGED <<thread, job>> /\ to_mon # <<>> /\ to_mon' = Tail(to_mon)
  BY DEF MonitorAnswers
<1>2. \/ to_thr' = Append(to_thr, Failed)
      \/ to_thr' = Append(to_thr, Signature(Head(to_mon)))
  BY DEF MonitorAnswers
<1>3. CASE thread = "reading"
  <2>1. job \in Jobs /\ to_mon = <<job>> /\ to_thr = <<>>
    BY <1>1, <1>3 DEF Straight, Lockstep
  <2>2. to_mon' = <<>> /\ (to_thr' = <<Failed>> \/ to_thr' = <<Signature(job)>>)
    BY <1>1, <1>2, <2>1
  <2>3. \E a \in SignAnswers : to_thr' = <<a>> /\ OwnAnswer(a, job)
    BY <2>1, <2>2, FailedIsOwn DEF OwnAnswer
  <2> QED
    BY <1>1, <1>3, <2>1, <2>2, <2>3 DEF Lockstep, OwnAnswer
<1>4. CASE thread # "reading"
  BY <1>1, <1>4 DEF Straight, Lockstep
<1> QED
  BY <1>3, <1>4

\* A handshake never gets the signature of another handshake's message,
\* however late a reply comes and however many jobs queue behind it.
THEOREM OwnSignatureHolds == SigningSpec => []OwnSignature
<1>1. SigningInit => Straight
  BY FailedIsOwn, SigningConstants DEF SigningInit, Straight, Lockstep, SignAnswers
<1>2. Straight /\ [SigningNext]_signing_vars => Straight'
  <2> SUFFICES ASSUME Straight, [SigningNext]_signing_vars PROVE Straight'
    OBVIOUS
  <2>0. \A n \in 0..MaxJobs : n # 0 => n \in Jobs
    BY SigningConstants DEF Jobs
  <2>1. CASE Sign
    <3>1. next_job + 1 \in Jobs /\ next_job' = next_job + 1 /\ next_job' \in 0..MaxJobs
      BY <2>1, SigningConstants DEF Sign, Straight, Jobs
    <3>2. waiting' \in 0..MaxJobs /\ jobs' \in Seq(Jobs)
      BY <2>1, <3>1 DEF Sign, Straight
    <3>3. /\ result' \in [Jobs -> SignAnswers]
          /\ \A j \in Jobs : OwnAnswer(result'[j], j)
      BY <2>1, <3>1, FailedIsOwn DEF Sign, Straight, SignAnswers
    <3>4. Lockstep'
      BY <2>1 DEF Sign, Straight, Lockstep, signing_socket
    <3> QED
      BY <2>1, <3>1, <3>2, <3>3, <3>4 DEF Sign, Straight
  <2>2. CASE SignReturns
    <3>1. waiting \in Jobs
      BY <2>0, <2>2 DEF SignReturns, Straight
    <3>2. /\ result' \in [Jobs -> SignAnswers]
          /\ \A j \in Jobs : OwnAnswer(result'[j], j)
      BY <2>2, <3>1 DEF SignReturns, Straight
    <3>3. Lockstep' /\ waiting' \in 0..MaxJobs
      BY <2>2, SigningConstants DEF SignReturns, Straight, Lockstep, signing_socket
    <3> QED
      BY <2>2, <3>2, <3>3 DEF SignReturns, Straight
  <2>3. CASE SignTimesOut
    <3>1. waiting \in Jobs
      BY <2>0, <2>3 DEF SignTimesOut, Straight
    <3>2. /\ result' \in [Jobs -> SignAnswers]
          /\ \A j \in Jobs : OwnAnswer(result'[j], j)
      BY <2>3, <3>1, FailedIsOwn DEF SignTimesOut, Straight, SignAnswers
    <3>3. Lockstep' /\ waiting' \in 0..MaxJobs
      BY <2>3, SigningConstants DEF SignTimesOut, Straight, Lockstep, signing_socket
    <3> QED
      BY <2>3, <3>2, <3>3 DEF SignTimesOut, Straight
  <2>4. CASE ThreadWrites
    <3>1. Head(jobs) \in Jobs /\ jobs' \in Seq(Jobs)
      BY <2>4 DEF ThreadWrites, Straight
    <3>2. to_mon = <<>> /\ to_thr = <<>>
      BY <2>4 DEF ThreadWrites, Straight, Lockstep
    <3>3. Lockstep'
      BY <2>4, <3>1, <3>2 DEF ThreadWrites, Lockstep
    <3> QED
      BY <2>4, <3>1, <3>3 DEF ThreadWrites, Straight
  <2>5. CASE ThreadReads
    <3>1. /\ job \in Jobs /\ to_mon = <<>>
          /\ \E a \in SignAnswers : to_thr = <<a>> /\ OwnAnswer(a, job)
      BY <2>5 DEF ThreadReads, Straight, Lockstep
    <3>2. OwnAnswer(Head(to_thr), job) /\ Tail(to_thr) = <<>>
      BY <3>1
    <3>3. /\ reply' \in [Jobs -> SignAnswers]
          /\ \A j \in Jobs : OwnAnswer(reply'[j], j)
      BY <2>5, <3>1, <3>2 DEF ThreadReads, Straight, OwnAnswer
    <3>4. Lockstep'
      BY <2>5, <3>1, <3>2 DEF ThreadReads, Lockstep
    <3> QED
      BY <2>5, <3>3, <3>4 DEF ThreadReads, Straight
  <2>6. CASE ThreadBreaks
    <3>1. job \in Jobs
      BY <2>6 DEF ThreadBreaks, Straight, Lockstep
    <3>2. /\ reply' \in [Jobs -> SignAnswers]
          /\ \A j \in Jobs : OwnAnswer(reply'[j], j)
      BY <2>6, <3>1, FailedIsOwn DEF ThreadBreaks, Straight, SignAnswers
    <3>3. Lockstep' /\ jobs' \in Seq(Jobs)
      BY <2>6 DEF ThreadBreaks, Lockstep
    <3> QED
      BY <2>6, <3>2, <3>3 DEF ThreadBreaks, Straight
  <2>7. CASE MonitorAnswers
    BY <2>7, AnswerLockstep DEF MonitorAnswers, Straight
  <2>8. CASE Tick \/ UNCHANGED signing_vars
    BY <2>8 DEF Tick, signing_vars, Straight, Lockstep, signing_socket
  <2> QED
    BY <2>1, <2>2, <2>3, <2>4, <2>5, <2>6, <2>7, <2>8 DEF SigningNext
<1>3. Straight => OwnSignature
  BY DEF Straight, OwnSignature, OwnAnswer
<1> QED
  BY <1>1, <1>2, <1>3, PTL DEF SigningSpec
=============================================================================
