----------------------------- MODULE UploadProofs -----------------------------
(***************************************************************************)
(* An upload to a privilege-separated server that reports success is       *)
(* complete, and its helper is never killed while the client waits: for    *)
(* every length of the file and every capacity of the queues.              *)
(*                                                                         *)
(* For a whole tree, of any finite shape: the walk visits everything in    *)
(* it, a directory before what is in it; a run over what earlier runs and  *)
(* their helpers left fails only if something fails in it or a read-only   *)
(* mode is in its way; and the whole                                       *)
(* implements TreeCopy.  What collect_dir computes is proved in the form   *)
(* of a least counterexample (LeastNumber), on a rank of its positions.    *)
(***************************************************************************)
EXTENDS UploadTree, SequenceTheorems, FiniteSetTheorems, WellFoundedInduction, TLAPS

\* The constants as the leaves below use them.
LEMMA ConstantsNat == FileLen \in Nat /\ UpCap \in Nat /\ InCap \in Nat
BY UploadAssumption

\* What each stage knows of the one before it.  The task leaves its loop for a
\* writer that failed, for a FIN with every chunk taken, or for a reset, which
\* no client that reports success has sent.
Pipeline ==
  /\ sent \in Nat /\ taken \in Nat /\ written \in Nat
  /\ fin \in {"no", "fin", "reset"}
  /\ writer \in {"starting", "running", "ok", "unopened", "failed", "killed"}
  /\ fin = "fin" => sent = FileLen
  /\ fin = "reset" => client \in {"returned", "killed"} /\ result # "ok"
  /\ client = "sending" => fin = "no"
  /\ client = "awaiting" => fin = "fin"
  /\ task # "frames" => \/ writer \in {"unopened", "failed", "killed"}
                        \/ fin = "fin" /\ taken = sent
                        \/ fin = "reset"
  /\ writer = "ok" => task # "frames" /\ written = taken
  /\ task \in {"status", "finished"} => ~Alive
  /\ code = "zero" => writer = "ok" \/ (server = "dev" /\ writer = "failed")
  /\ status = "zero" => code = "zero"
  /\ result = "ok" => status = "zero" /\ fin = "fin"
  /\ writer = "killed" => Gone /\ server = "privsep"
  /\ written <= taken /\ taken <= sent /\ sent <= FileLen
  /\ client = "returned" <=> result # "none"
  /\ code \notin {"none", "zero"} => writer \in {"unopened", "failed", "killed"}
  /\ status \notin {"none", "zero"} => writer \in {"unopened", "failed"}

LEMMA PipelineInit == Init => Pipeline
BY ConstantsNat DEF Init, Pipeline, Alive, Gone

\* Every step keeps it.
LEMMA PipelineNext ==
  ASSUME Pipeline, [Next]_vars
  PROVE  Pipeline'
<1> USE ConstantsNat DEF Pipeline, Alive, Gone
<1>1. CASE ClientSends
  BY <1>1 DEF ClientSends, task_vars, writer_vars
<1>2. CASE ClientFinishes
  BY <1>2 DEF ClientFinishes, task_vars, writer_vars
<1>3. CASE ClientSendFails
  BY <1>3 DEF ClientSendFails, ClientReturns, task_vars, writer_vars
<1>4. CASE ClientFails
  BY <1>4 DEF ClientFails, ClientReturns, task_vars, writer_vars
<1>5. CASE ClientStatus
  BY <1>5 DEF ClientStatus, ClientReturns, task_vars, writer_vars
<1>6. CASE ClientKilled
  BY <1>6 DEF ClientKilled, task_vars, writer_vars
<1>7. CASE WriterOpens
  BY <1>7 DEF WriterOpens, WriterMoves, client_vars, task_vars
<1>8. CASE WriterWrites
  BY <1>8 DEF WriterWrites, WriterMoves, client_vars, task_vars
<1>9. CASE WriterFails
  BY <1>9 DEF WriterFails, WriterMoves, client_vars, task_vars
<1>10. CASE WriterEof
  BY <1>10 DEF WriterEof, WriterMoves, client_vars, task_vars
<1>11. CASE CloseKills
  BY <1>11 DEF CloseKills, WriterMoves, client_vars, task_vars
<1>12. CASE TaskTakes
  BY <1>12 DEF TaskTakes, TaskMoves, client_vars, writer_vars
<1>13. CASE TaskFramesEnd
  BY <1>13 DEF TaskFramesEnd, TaskMoves, client_vars, writer_vars
<1>14. CASE TaskReaps
  BY <1>14 DEF TaskReaps, TaskMoves, ExitCode, client_vars, writer_vars
<1>15. CASE TaskSendsStatus
  BY <1>15 DEF TaskSendsStatus, TaskMoves, client_vars, writer_vars
<1>16. CASE UNCHANGED vars
  BY <1>16 DEF vars, client_vars, task_vars, writer_vars
<1> QED
  BY <1>1, <1>2, <1>3, <1>4, <1>5, <1>6, <1>7, <1>8, <1>9, <1>10, <1>11,
     <1>12, <1>13, <1>14, <1>15, <1>16
     DEF Next, ClientStep, WriterStep, TaskStep

\* upload_one's success means that every chunk is in the remote file (or that a
\* dev server's write failed), and the reaper never kills a helper that the
\* client waits for.
THEOREM UploadHolds == Spec => [](UploadExact /\ HelperSpared)
<1>1. Pipeline => UploadExact /\ HelperSpared
  BY DEF Pipeline, UploadExact, HelperSpared
<1>2. Pipeline /\ [Next]_vars => Pipeline'
  BY PipelineNext
<1> QED
  BY <1>1, <1>2, PipelineInit, PTL DEF Spec

-----------------------------------------------------------------------------
(* The walk                                                                *)

\* The least-number principle.
LEMMA LeastNumber ==
  ASSUME NEW T \in SUBSET Nat, T # {}
  PROVE  \E m \in T : \A k \in T : m <= k
<1>1. IsWellFoundedOn(OpToRel(<, Nat), Nat)
  BY NatLessThanWellFounded
<1>2. PICK m \in T : \A k \in T : ~(<<k, m>> \in OpToRel(<, Nat))
  BY <1>1, WFMin, Zenon
<1>3. \A k \in T : ~(k < m)
  BY <1>2 DEF OpToRel
<1> QED
  BY <1>3

\* What read_dir gives for a directory.
LEMMA Entries ==
  ASSUME NEW d \in Dirs
  PROVE  /\ Len(Children[d]) \in Nat
         /\ \A i \in 1..Len(Children[d]) : Children[d][i] \in (Nodes \cup Skipped) \ {Root}
<1>1. Children[d] \in Seq((Nodes \cup Skipped) \ {Root})
  BY TreeAssumption
<1> QED
  BY <1>1, LenProperties, ElementOfSeq

LEMMA InPositions ==
  /\ \A d \in Dirs : \A i \in 0..Len(Children[d]) : <<d, i>> \in Positions
  /\ \A p \in Positions : /\ p = <<p[1], p[2]>>
                          /\ p[1] \in Dirs
                          /\ p[2] \in 0..Len(Children[p[1]])
BY DEF Positions

\* No directory has more entries than there are.
LEMMA Widest ==
  ASSUME NEW d \in Dirs
  PROVE  Len(Children[d]) <= Cardinality(Nodes \cup Skipped)
<1> DEFINE S == 1..Len(Children[d])
           f == [i \in S |-> Children[d][i]]
<1>1. f \in Injection(S, Nodes \cup Skipped)
  <2>1. f \in [S -> Nodes \cup Skipped]
    BY Entries
  <2>2. \A i, j \in S : f[i] = f[j] => i = j
    BY TreeAssumption
  <2> QED
    BY <2>1, <2>2 DEF Injection, IsInjective
<1>2. Cardinality(S) <= Cardinality(Nodes \cup Skipped)
  <2>1. IsFiniteSet(Nodes \cup Skipped)
    BY TreeAssumption
  <2> HIDE DEF f, S
  <2> QED
    BY <1>1, <2>1, FS_Injection
<1>3. Cardinality(S) = Len(Children[d])
  BY Entries, FS_Interval
<1> QED
  BY <1>2, <1>3

LEMMA Scaled ==
  ASSUME NEW a \in Nat, NEW b \in Nat, NEW w \in Nat, a < b
  PROVE  a * w \in Nat /\ b * w \in Nat /\ a * w + w <= b * w
<1>1. PICK k \in Nat : b = a + 1 + k
  <2>1. b - a - 1 \in Nat /\ b = a + 1 + (b - a - 1)
    OBVIOUS
  <2> QED
    BY <2>1
<1>2. b * w = a * w + w + k * w /\ k * w \in Nat /\ a * w \in Nat
  BY <1>1
<1> QED
  BY <1>2

\* Each position comes after those it is made from: the walk recurses on entries
\* only, and a directory is higher than those in it.
LEMMA WalkRank ==
  \E rank \in [Positions -> Nat], top \in Nat :
    /\ \A p \in Positions : rank[p] < top
    /\ \A d \in Dirs : \A i \in 1..Len(Children[d]) :
         /\ rank[<<d, i - 1>>] < rank[<<d, i>>]
         /\ Children[d][i] \in Dirs =>
              rank[<<Children[d][i], Len(Children[Children[d][i]])>>] < rank[<<d, i>>]
<1>1. PICK height \in [Dirs -> 0..Cardinality(Dirs)] :
        \A d \in Dirs : \A i \in 1..Len(Children[d]) :
          Children[d][i] \in Dirs => height[Children[d][i]] < height[d]
  BY TreeAssumption
<1> DEFINE w == Cardinality(Nodes \cup Skipped) + 1
           tall == Cardinality(Dirs) + 1
           rank == [p \in Positions |-> height[p[1]] * w + p[2]]
           top == tall * w
<1>2. w \in Nat /\ tall \in Nat /\ \A d \in Dirs : height[d] \in Nat /\ height[d] < tall
  <2>1. IsFiniteSet(Nodes \cup Skipped) /\ Dirs \in SUBSET (Nodes \cup Skipped)
    BY TreeAssumption DEF Nodes
  <2>2. IsFiniteSet(Dirs)
    BY <2>1, FS_Subset
  <2>3. Cardinality(Nodes \cup Skipped) \in Nat /\ Cardinality(Dirs) \in Nat
    BY <2>1, <2>2, FS_CardinalityType
  <2> QED
    BY <1>1, <2>3
<1>3. \A d \in Dirs : Len(Children[d]) \in Nat /\ Len(Children[d]) < w
  <2>1. TAKE d \in Dirs
  <2>2. Cardinality(Nodes \cup Skipped) \in Int
    BY <1>2, TreeAssumption, FS_CardinalityType
  <2>3. Len(Children[d]) \in Nat /\ Len(Children[d]) <= Cardinality(Nodes \cup Skipped)
    BY Entries, Widest
  <2> QED
    BY <2>2, <2>3
<1>4. \A d \in Dirs : \A i \in 0..Len(Children[d]) : rank[<<d, i>>] = height[d] * w + i
  <2> HIDE DEF w
  <2> QED
    BY InPositions
<1> HIDE DEF w, tall
<1>5. \A d \in Dirs : \A i \in 0..Len(Children[d]) :
        rank[<<d, i>>] \in Nat /\ rank[<<d, i>>] < top
  <2>1. TAKE d \in Dirs
  <2>2. TAKE i \in 0..Len(Children[d])
  <2>3. height[d] * w \in Nat /\ top \in Nat /\ height[d] * w + w <= top
    BY <1>2, Scaled
  <2>4. i \in Nat /\ i < w
    BY <1>2, <1>3
  <2> HIDE DEF rank, top
  <2> QED
    BY <1>2, <1>4, <2>3, <2>4
<1>6. rank \in [Positions -> Nat] /\ \A p \in Positions : rank[p] < top
  <2>1. \A p \in Positions : rank[p] \in Nat /\ rank[p] < top
    <3> HIDE DEF rank, top
    <3> QED
      BY <1>5, InPositions
  <2> QED
    BY <2>1
<1>7. top \in Nat
  BY <1>2
<1>8. ASSUME NEW d \in Dirs, NEW i \in 1..Len(Children[d])
      PROVE  /\ rank[<<d, i - 1>>] < rank[<<d, i>>]
             /\ Children[d][i] \in Dirs =>
                  rank[<<Children[d][i], Len(Children[Children[d][i]])>>] < rank[<<d, i>>]
  <2>1. i \in 0..Len(Children[d]) /\ i - 1 \in 0..Len(Children[d]) /\ i \in Nat /\ i > 0
    BY <1>3
  <2>2. height[d] * w \in Nat
    BY <1>2
  <2>3. rank[<<d, i>>] = height[d] * w + i /\ rank[<<d, i - 1>>] = height[d] * w + (i - 1)
    BY <1>4, <2>1
  <2>4. ASSUME NEW n \in Dirs, height[n] < height[d]
        PROVE  rank[<<n, Len(Children[n])>>] < rank[<<d, i>>]
    <3>1. height[n] * w \in Nat /\ height[n] * w + w <= height[d] * w
      BY <1>2, <2>4, Scaled
    <3>2. rank[<<n, Len(Children[n])>>] = height[n] * w + Len(Children[n])
      BY <1>3, <1>4
    <3> DEFINE a == height[n] * w
               b == height[d] * w
               l == Len(Children[n])
    <3>3. /\ a \in Nat /\ b \in Nat /\ a + w <= b /\ l \in Nat /\ l < w /\ w \in Nat
          /\ rank[<<n, l>>] = a + l /\ rank[<<d, i>>] = b + i
      BY <3>1, <3>2, <2>2, <2>3, <1>2, <1>3
    <3> HIDE DEF rank, a, b, l
    <3>4. rank[<<n, l>>] < rank[<<d, i>>]
      BY <3>3, <2>1
    <3> QED
      BY <3>4 DEF l
  <2> HIDE DEF rank
  <2>5. rank[<<d, i - 1>>] < rank[<<d, i>>]
    BY <2>1, <2>2, <2>3
  <2> QED
    BY <1>1, <2>4, <2>5
<1> HIDE DEF rank, top
<1> QED
  BY <1>6, <1>7, <1>8

\* A step of the walk looks at two earlier positions only.
LEMMA PushLocal ==
  ASSUME NEW f, NEW g, NEW p,
         p[2] # 0 => f[<<p[1], p[2] - 1>>] = g[<<p[1], p[2] - 1>>],
         p[2] # 0 /\ Children[p[1]][p[2]] \in Dirs =>
           f[<<Children[p[1]][p[2]], Len(Children[Children[p[1]][p[2]]])>>]
             = g[<<Children[p[1]][p[2]], Len(Children[Children[p[1]][p[2]]])>>]
  PROVE  Push(f, p) = Push(g, p)
<1>1. CASE p[2] = 0
  BY <1>1 DEF Push
<1>2. CASE p[2] # 0 /\ Children[p[1]][p[2]] \in Dirs
  BY <1>2, Zenon DEF Push
<1>3. CASE p[2] # 0 /\ Children[p[1]][p[2]] \notin Dirs
  BY <1>3, Zenon DEF Push
<1> QED
  BY <1>1, <1>2, <1>3

\* collect_dir is defined at every position: the recursion of the code ends.
LEMMA CollectUnfolds == \A p \in Positions : collect_dir[p] = Push(collect_dir, p)
<1>1. PICK rank \in [Positions -> Nat], top \in Nat :
        /\ \A p \in Positions : rank[p] < top
        /\ \A d \in Dirs : \A i \in 1..Len(Children[d]) :
             /\ rank[<<d, i - 1>>] < rank[<<d, i>>]
             /\ Children[d][i] \in Dirs =>
                  rank[<<Children[d][i], Len(Children[Children[d][i]])>>] < rank[<<d, i>>]
  BY WalkRank
<1>2. ASSUME NEW f, NEW g, NEW p \in Positions,
             \A q \in Positions : rank[q] < rank[p] => f[q] = g[q]
      PROVE  Push(f, p) = Push(g, p)
  <2>1. p = <<p[1], p[2]>> /\ p[1] \in Dirs /\ p[2] \in 0..Len(Children[p[1]])
    BY InPositions
  <2>2. Len(Children[p[1]]) \in Nat
    BY <2>1, Entries
  <2>3. p[2] # 0 => f[<<p[1], p[2] - 1>>] = g[<<p[1], p[2] - 1>>]
    <3>1. SUFFICES ASSUME p[2] # 0 PROVE f[<<p[1], p[2] - 1>>] = g[<<p[1], p[2] - 1>>]
      OBVIOUS
    <3>2. p[2] \in 1..Len(Children[p[1]]) /\ p[2] - 1 \in 0..Len(Children[p[1]])
      BY <2>1, <2>2, <3>1
    <3>3. <<p[1], p[2] - 1>> \in Positions /\ rank[<<p[1], p[2] - 1>>] < rank[p]
      BY <2>1, <3>2, <1>1, InPositions
    <3> QED
      BY <3>3, <1>2
  <2>4. p[2] # 0 /\ Children[p[1]][p[2]] \in Dirs =>
          f[<<Children[p[1]][p[2]], Len(Children[Children[p[1]][p[2]]])>>]
            = g[<<Children[p[1]][p[2]], Len(Children[Children[p[1]][p[2]]])>>]
    <3> DEFINE n == Children[p[1]][p[2]]
    <3>1. SUFFICES ASSUME p[2] # 0, n \in Dirs
                   PROVE  f[<<n, Len(Children[n])>>] = g[<<n, Len(Children[n])>>]
      OBVIOUS
    <3>2. p[2] \in 1..Len(Children[p[1]])
      BY <2>1, <2>2, <3>1
    <3>3. rank[<<n, Len(Children[n])>>] < rank[p]
      BY <2>1, <3>1, <3>2, <1>1
    <3> HIDE DEF n
    <3>4. Len(Children[n]) \in 0..Len(Children[n])
      BY <3>1, Entries
    <3>5. <<n, Len(Children[n])>> \in Positions
      BY <3>1, <3>4, InPositions
    <3> QED
      BY <3>3, <3>5, <1>2
  <2> QED
    BY <2>3, <2>4, PushLocal
<1> DEFINE Fits(f, k) == \A p \in Positions : rank[p] < k => f[p] = Push(f, p)
           Bad == {k \in Nat : ~\E f : Fits(f, k)}
<1>3. Bad = {}
  <2>1. SUFFICES ASSUME Bad # {} PROVE FALSE
    OBVIOUS
  <2>2. PICK m \in Bad : \A k \in Bad : m <= k
    <3>1. Bad \in SUBSET Nat
      OBVIOUS
    <3> HIDE DEF Bad
    <3> QED
      BY <2>1, <3>1, LeastNumber
  <2>3. m \in Nat /\ ~\E f : Fits(f, m)
    BY <2>2
  <2>4. m # 0
    <3>1. \A p \in Positions : ~(rank[p] < 0)
      BY <1>1
    <3>2. Fits(rank, 0)
      BY <3>1
    <3> HIDE DEF Fits
    <3> QED
      BY <2>3, <3>2
  <2>5. m - 1 \in Nat /\ m - 1 \notin Bad
    <3> HIDE DEF Bad
    <3> QED
      BY <2>2, <2>3, <2>4
  <2>6. PICK f : Fits(f, m - 1)
    BY <2>5
  <2> DEFINE g == [p \in Positions |-> IF rank[p] < m - 1 THEN f[p] ELSE Push(f, p)]
  <2>7. ASSUME NEW p \in Positions, rank[p] < m
        PROVE  g[p] = Push(g, p)
    <3>1. rank[p] \in Nat /\ \A q \in Positions : rank[q] \in Nat
      BY <1>1
    <3>2. \A q \in Positions : rank[q] < rank[p] => f[q] = g[q]
      <4>1. TAKE q \in Positions
      <4>2. rank[q] < rank[p] => rank[q] < m - 1
        BY <3>1, <2>3, <2>7
      <4> QED
        BY <4>2
    <3> HIDE DEF g
    <3>3. Push(f, p) = Push(g, p)
      BY <3>2, <1>2
    <3>4. g[p] = Push(f, p)
      <4>1. CASE rank[p] < m - 1
        BY <4>1, <2>6 DEF g
      <4>2. CASE ~(rank[p] < m - 1)
        BY <4>2 DEF g
      <4> QED
        BY <4>1, <4>2
    <3> QED
      BY <3>3, <3>4
  <2>8. Fits(g, m)
    BY <2>7
  <2> HIDE DEF Fits
  <2> QED
    BY <2>3, <2>8
<1>4. PICK f : Fits(f, top)
  BY <1>1, <1>3
<1> DEFINE g == [p \in Positions |-> f[p]]
<1>5. g = [p \in Positions |-> Push(g, p)]
  <2>1. \A p \in Positions : g[p] = f[p]
    OBVIOUS
  <2>2. \A p \in Positions : f[p] = Push(f, p)
    BY <1>1, <1>4
  <2>3. \A p \in Positions : Push(f, p) = Push(g, p)
    <3> HIDE DEF g
    <3> QED
      BY <2>1, <1>2
  <2>4. \A p \in Positions : g[p] = Push(g, p)
    <3> HIDE DEF g
    <3> QED
      BY <2>1, <2>2, <2>3
  <2> DEFINE h == [p \in Positions |-> Push(g, p)]
  <2>5. \A p \in Positions : h[p] = Push(g, p)
    OBVIOUS
  <2> QED
    BY <2>4
<1>6. \E h : h = [p \in Positions |-> Push(h, p)]
  BY <1>5
<1>7. collect_dir = [p \in Positions |-> Push(collect_dir, p)]
  BY <1>6, Zenon DEF collect_dir
<1> QED
  BY <1>7, Zenon

\* The only directory that has n as an entry.
LEMMA ParentOf ==
  /\ \A d \in Dirs : \A i \in 1..Len(Children[d]) :
       Children[d][i] \in Nodes =>
         Children[d][i] \in Nodes \ {Root} /\ Parent[Children[d][i]] = d
  /\ \A n \in Nodes \ {Root} :
       Parent[n] \in Dirs /\ \E i \in 1..Len(Children[Parent[n]]) : Children[Parent[n]][i] = n
<1>1. \A n \in Nodes \ {Root} :
        Parent[n] \in Dirs /\ \E i \in 1..Len(Children[Parent[n]]) : Children[Parent[n]][i] = n
  <2>1. TAKE n \in Nodes \ {Root}
  <2>2. \E d \in Dirs : \E i \in 1..Len(Children[d]) : Children[d][i] = n
    BY TreeAssumption
  <2>3. Parent[n] = CHOOSE d \in Dirs : \E i \in 1..Len(Children[d]) : Children[d][i] = n
    BY DEF Parent
  <2> QED
    BY <2>2, <2>3, Zenon
<1>2. ASSUME NEW d \in Dirs, NEW i \in 1..Len(Children[d]), Children[d][i] \in Nodes
      PROVE  Children[d][i] \in Nodes \ {Root} /\ Parent[Children[d][i]] = d
  <2>1. Children[d][i] \in Nodes \ {Root}
    BY <1>2, Entries
  <2> DEFINE e == Parent[Children[d][i]]
  <2>2. PICK j \in 1..Len(Children[e]) : Children[e][j] = Children[d][i]
    BY <1>1, <2>1
  <2>3. e \in Dirs
    BY <1>1, <2>1
  <2> HIDE DEF e
  <2>4. e = d
    BY <2>2, <2>3, TreeAssumption
  <2> QED
    BY <2>1, <2>4 DEF e
<1> QED
  BY <1>1, <1>2

Listed(s) == {s[j] : j \in 1..Len(s)}

\* Below d: the parent of each element is d or comes before it.
ParentsFirst(d, s) ==
  \A k \in 1..Len(s) : Parent[s[k]] = d \/ \E j \in 1..(k - 1) : s[j] = Parent[s[k]]

LEMMA ListedOne == \A n : Listed(<<n>>) = {n} /\ Listed(<<>>) = {}
BY DEF Listed

LEMMA ListedConcat ==
  ASSUME NEW S, NEW s \in Seq(S), NEW t \in Seq(S)
  PROVE  Listed(s \o t) = Listed(s) \cup Listed(t)
<1>1. /\ Len(s) \in Nat /\ Len(t) \in Nat /\ Len(s \o t) = Len(s) + Len(t)
      /\ \A i \in 1..Len(s) : (s \o t)[i] = s[i]
      /\ \A i \in 1..Len(t) : (s \o t)[i + Len(s)] = t[i]
  BY ConcatProperties, LenProperties
<1>2. ASSUME NEW k \in 1..Len(s \o t) PROVE (s \o t)[k] \in Listed(s) \cup Listed(t)
  <2>1. CASE k <= Len(s)
    BY <1>1, <2>1 DEF Listed
  <2>2. CASE ~(k <= Len(s))
    <3>1. k - Len(s) \in 1..Len(t) /\ (s \o t)[k] = t[k - Len(s)]
      BY <1>1, <2>2
    <3> QED
      BY <3>1 DEF Listed
  <2> QED
    BY <2>1, <2>2
<1>3. \A i \in 1..Len(s) : s[i] \in Listed(s \o t)
  BY <1>1 DEF Listed
<1>4. \A i \in 1..Len(t) : t[i] \in Listed(s \o t)
  <2>1. TAKE i \in 1..Len(t)
  <2>2. i + Len(s) \in 1..Len(s \o t)
    BY <1>1
  <2> QED
    BY <1>1, <2>2 DEF Listed
<1> QED
  BY <1>2, <1>3, <1>4 DEF Listed

LEMMA ParentsFirstOne ==
  ASSUME NEW d
  PROVE  ParentsFirst(d, <<>>) /\ \A n : Parent[n] = d => ParentsFirst(d, <<n>>)
BY DEF ParentsFirst

LEMMA ParentsFirstConcat ==
  ASSUME NEW S, NEW s \in Seq(S), NEW t \in Seq(S), NEW d, NEW e,
         ParentsFirst(d, s), ParentsFirst(e, t), e = d \/ e \in Listed(s)
  PROVE  ParentsFirst(d, s \o t)
<1> DEFINE u == s \o t
<1>1. /\ Len(s) \in Nat /\ Len(t) \in Nat /\ Len(u) = Len(s) + Len(t)
      /\ \A i \in 1..Len(s) : u[i] = s[i]
      /\ \A i \in 1..Len(t) : u[i + Len(s)] = t[i]
  BY ConcatProperties, LenProperties
<1> HIDE DEF u
<1>2. ASSUME NEW k \in 1..Len(u)
      PROVE  Parent[u[k]] = d \/ \E j \in 1..(k - 1) : u[j] = Parent[u[k]]
  <2>1. CASE k <= Len(s)
    <3>1. k \in 1..Len(s) /\ u[k] = s[k]
      BY <1>1, <2>1
    <3>2. \A j \in 1..(k - 1) : u[j] = s[j]
      BY <1>1, <2>1
    <3> QED
      BY <3>1, <3>2 DEF ParentsFirst
  <2>2. CASE ~(k <= Len(s))
    <3> DEFINE l == k - Len(s)
    <3>1. l \in 1..Len(t) /\ u[k] = t[l]
      BY <1>1, <2>2
    <3>2. \A j \in 1..(l - 1) : j + Len(s) \in 1..(k - 1) /\ u[j + Len(s)] = t[j]
      BY <1>1, <2>2
    <3>3. \A j \in 1..Len(s) : j \in 1..(k - 1) /\ u[j] = s[j]
      BY <1>1, <2>2
    <3> HIDE DEF l
    <3>4. Parent[t[l]] = e \/ \E j \in 1..(l - 1) : t[j] = Parent[t[l]]
      BY <3>1 DEF ParentsFirst
    <3>5. CASE \E j \in 1..(l - 1) : t[j] = Parent[t[l]]
      BY <3>1, <3>2, <3>5
    <3>6. CASE Parent[t[l]] = e
      BY <3>1, <3>3, <3>6 DEF Listed
    <3> QED
      BY <3>4, <3>5, <3>6
  <2> QED
    BY <2>1, <2>2
<1> QED
  BY <1>2 DEF ParentsFirst, u

\* What the two vectors hold after i entries of d: directories and files below
\* d, each after its parent; all of those entries; and with a directory
\* everything in it.
Collected(d, i) ==
  LET c == collect_dir[<<d, i>>]
      all == Listed(c.dirs) \cup Listed(c.files)
  IN /\ c \in [dirs : Seq(Dirs), files : Seq(Files)]
     /\ ParentsFirst(d, c.dirs)
     /\ \A f \in Listed(c.files) : Parent[f] \in {d} \cup Listed(c.dirs)
     /\ \A j \in 1..i : Children[d][j] \in Nodes => Children[d][j] \in all
     /\ \A e \in Listed(c.dirs) : \A j \in 1..Len(Children[e]) :
          Children[e][j] \in Nodes => Children[e][j] \in all

LEMMA CollectStart == \A d \in Dirs : Collected(d, 0)
<1>1. TAKE d \in Dirs
<1>2. <<d, 0>> \in Positions
  <2>1. 0 \in 0..Len(Children[d])
    BY Entries
  <2> QED
    BY <2>1, InPositions
<1>3. collect_dir[<<d, 0>>] = [dirs |-> <<>>, files |-> <<>>]
  BY <1>2, CollectUnfolds DEF Push
<1>4. Listed(<<>>) = {} /\ ParentsFirst(d, <<>>)
  BY ListedOne, ParentsFirstOne
<1>5. [dirs |-> <<>>, files |-> <<>>] \in [dirs : Seq(Dirs), files : Seq(Files)]
  BY EmptySeq
<1> QED
  BY <1>3, <1>4, <1>5 DEF Collected

\* One turn of collect_dir's loop.
LEMMA CollectStep ==
  ASSUME NEW d \in Dirs, NEW i \in 1..Len(Children[d]), Collected(d, i - 1),
         Children[d][i] \in Dirs => Collected(Children[d][i], Len(Children[Children[d][i]]))
  PROVE  Collected(d, i)
<1> DEFINE n == Children[d][i]
           b == collect_dir[<<d, i - 1>>]
           w == collect_dir[<<n, Len(Children[n])>>]
           c == collect_dir[<<d, i>>]
           all == Listed(c.dirs) \cup Listed(c.files)
<1>1. i \in Nat /\ i # 0 /\ 1..i = (1..(i - 1)) \cup {i}
  BY Entries
<1>2. c = IF n \in Dirs
          THEN [dirs |-> (b.dirs \o <<n>>) \o w.dirs, files |-> b.files \o w.files]
          ELSE IF n \in Files
          THEN [dirs |-> b.dirs, files |-> Append(b.files, n)]
          ELSE b
  <2>1. i \in 0..Len(Children[d])
    BY Entries
  <2>2. <<d, i>> \in Positions /\ <<d, i>>[1] = d /\ <<d, i>>[2] = i
    BY <2>1, InPositions
  <2>3. c = Push(collect_dir, <<d, i>>)
    BY <2>2, CollectUnfolds
  <2> QED
    BY <2>2, <2>3, <1>1, Zenon DEF Push
<1>3. n \in Nodes => Parent[n] = d
  BY ParentOf
<1>4. /\ b \in [dirs : Seq(Dirs), files : Seq(Files)]
      /\ ParentsFirst(d, b.dirs)
      /\ \A f \in Listed(b.files) : Parent[f] \in {d} \cup Listed(b.dirs)
      /\ \A j \in 1..(i - 1) : Children[d][j] \in Nodes =>
           Children[d][j] \in Listed(b.dirs) \cup Listed(b.files)
      /\ \A e \in Listed(b.dirs) : \A j \in 1..Len(Children[e]) :
           Children[e][j] \in Nodes => Children[e][j] \in Listed(b.dirs) \cup Listed(b.files)
  BY Zenon DEF Collected
<1>5. n \in Dirs =>
        /\ w \in [dirs : Seq(Dirs), files : Seq(Files)]
        /\ ParentsFirst(n, w.dirs)
        /\ \A f \in Listed(w.files) : Parent[f] \in {n} \cup Listed(w.dirs)
        /\ \A j \in 1..Len(Children[n]) : Children[n][j] \in Nodes =>
             Children[n][j] \in Listed(w.dirs) \cup Listed(w.files)
        /\ \A e \in Listed(w.dirs) : \A j \in 1..Len(Children[e]) :
             Children[e][j] \in Nodes => Children[e][j] \in Listed(w.dirs) \cup Listed(w.files)
  BY Zenon DEF Collected
<1>6. SUFFICES
        /\ c \in [dirs : Seq(Dirs), files : Seq(Files)]
        /\ ParentsFirst(d, c.dirs)
        /\ \A f \in Listed(c.files) : Parent[f] \in {d} \cup Listed(c.dirs)
        /\ \A j \in 1..(i - 1) : Children[d][j] \in Nodes => Children[d][j] \in all
        /\ n \in Nodes => n \in all
        /\ \A e \in Listed(c.dirs) : \A j \in 1..Len(Children[e]) :
             Children[e][j] \in Nodes => Children[e][j] \in all
  <2>1. (\A j \in 1..(i - 1) : Children[d][j] \in Nodes => Children[d][j] \in all)
          /\ (n \in Nodes => n \in all)
        => \A j \in 1..i : Children[d][j] \in Nodes => Children[d][j] \in all
    BY <1>1, Zenon
  <2> QED
    BY <2>1, Zenon DEF Collected
<1> HIDE DEF n, b, w, c
<1>7. CASE n \in Dirs
  <2> DEFINE bn == b.dirs \o <<n>>
  <2>1. /\ b.dirs \in Seq(Dirs) /\ b.files \in Seq(Files) /\ <<n>> \in Seq(Dirs)
        /\ w.dirs \in Seq(Dirs) /\ w.files \in Seq(Files)
    BY <1>4, <1>5, <1>7
  <2>2. bn \in Seq(Dirs) /\ Listed(bn) = Listed(b.dirs) \cup {n}
    <3>1. Listed(<<n>>) = {n}
      BY ListedOne, Zenon
    <3>2. Listed(bn) = Listed(b.dirs) \cup Listed(<<n>>)
      BY <2>1, ListedConcat
    <3> QED
      BY <2>1, <3>1, <3>2, ConcatProperties
  <2>3. ParentsFirst(d, bn)
    <3>1. ParentsFirst(d, <<n>>)
      BY <1>3, <1>7, ParentsFirstOne DEF Nodes
    <3> QED
      BY <2>1, <3>1, <1>4, ParentsFirstConcat
  <2>4. c = [dirs |-> bn \o w.dirs, files |-> b.files \o w.files]
    BY <1>2, <1>7
  <2> HIDE DEF bn
  <2>5. c.dirs = bn \o w.dirs /\ c.files = b.files \o w.files
    BY <2>4
  <2>6. c \in [dirs : Seq(Dirs), files : Seq(Files)]
    <3>1. bn \o w.dirs \in Seq(Dirs) /\ b.files \o w.files \in Seq(Files)
      BY <2>1, <2>2, ConcatProperties
    <3> QED
      BY <3>1, <2>4
  <2>7. ParentsFirst(d, c.dirs)
    BY <2>1, <2>2, <2>3, <2>5, <1>5, <1>7, ParentsFirstConcat
  <2>8. /\ Listed(c.dirs) = (Listed(b.dirs) \cup {n}) \cup Listed(w.dirs)
        /\ Listed(c.files) = Listed(b.files) \cup Listed(w.files)
    BY <2>1, <2>2, <2>5, ListedConcat
  <2>9. \A f \in Listed(c.files) : Parent[f] \in {d} \cup Listed(c.dirs)
    BY <2>8, <1>4, <1>5, <1>7, Zenon
  <2>10. \A j \in 1..(i - 1) : Children[d][j] \in Nodes => Children[d][j] \in all
    BY <2>8, <1>4, Zenon
  <2>11. n \in all
    BY <2>8, Zenon
  <2>12. \A e \in Listed(c.dirs) : \A j \in 1..Len(Children[e]) :
           Children[e][j] \in Nodes => Children[e][j] \in all
    BY <2>8, <1>4, <1>5, <1>7, Zenon
  <2> QED
    BY <2>6, <2>7, <2>9, <2>10, <2>11, <2>12
<1>8. CASE n \notin Dirs /\ n \in Files
  <2>1. b.dirs \in Seq(Dirs) /\ b.files \in Seq(Files) /\ <<n>> \in Seq(Files)
    BY <1>4, <1>8
  <2>2. c = [dirs |-> b.dirs, files |-> Append(b.files, n)]
    BY <1>2, <1>8
  <2>3. Append(b.files, n) = b.files \o <<n>> /\ b.files \o <<n>> \in Seq(Files)
    BY <2>1, <1>8, ConcatProperties, AppendIsConcat
  <2>4. c.dirs = b.dirs /\ c.files = b.files \o <<n>>
    BY <2>2, <2>3
  <2>5. c \in [dirs : Seq(Dirs), files : Seq(Files)]
    BY <2>1, <2>2, <2>3
  <2>6. Listed(c.dirs) = Listed(b.dirs) /\ Listed(c.files) = Listed(b.files) \cup {n}
    <3>1. Listed(<<n>>) = {n}
      BY ListedOne, Zenon
    <3>2. Listed(b.files \o <<n>>) = Listed(b.files) \cup Listed(<<n>>)
      BY <2>1, ListedConcat
    <3> QED
      BY <2>4, <3>1, <3>2
  <2>7. \A f \in Listed(c.files) : Parent[f] \in {d} \cup Listed(c.dirs)
    BY <2>6, <1>3, <1>4, <1>8 DEF Nodes
  <2>8. \A j \in 1..(i - 1) : Children[d][j] \in Nodes => Children[d][j] \in all
    BY <2>6, <1>4, Zenon
  <2>9. n \in all
    BY <2>6, Zenon
  <2>10. \A e \in Listed(c.dirs) : \A j \in 1..Len(Children[e]) :
           Children[e][j] \in Nodes => Children[e][j] \in all
    BY <2>6, <1>4, Zenon
  <2> QED
    BY <2>4, <2>5, <2>7, <2>8, <2>9, <2>10, <1>4
<1>9. CASE n \notin Dirs /\ n \notin Files
  BY <1>2, <1>4, <1>9, Zenon DEF Nodes
<1> QED
  BY <1>7, <1>8, <1>9

LEMMA CollectAll == \A d \in Dirs : Collected(d, Len(Children[d]))
<1>1. PICK rank \in [Positions -> Nat], top \in Nat :
        /\ \A p \in Positions : rank[p] < top
        /\ \A d \in Dirs : \A i \in 1..Len(Children[d]) :
             /\ rank[<<d, i - 1>>] < rank[<<d, i>>]
             /\ Children[d][i] \in Dirs =>
                  rank[<<Children[d][i], Len(Children[Children[d][i]])>>] < rank[<<d, i>>]
  BY WalkRank
<1> DEFINE Bad == {k \in Nat : \E d \in Dirs : \E i \in 0..Len(Children[d]) :
                                  rank[<<d, i>>] = k /\ ~Collected(d, i)}
<1>2. Bad = {}
  <2>1. SUFFICES ASSUME Bad # {} PROVE FALSE
    OBVIOUS
  <2>2. PICK m \in Bad : \A k \in Bad : m <= k
    <3>1. Bad \in SUBSET Nat
      OBVIOUS
    <3> HIDE DEF Bad
    <3> QED
      BY <2>1, <3>1, LeastNumber
  <2>3. PICK d \in Dirs : \E i \in 0..Len(Children[d]) : rank[<<d, i>>] = m /\ ~Collected(d, i)
    BY <2>2
  <2>4. PICK i \in 0..Len(Children[d]) : rank[<<d, i>>] = m /\ ~Collected(d, i)
    BY <2>3
  <2>5. ASSUME NEW e \in Dirs, NEW j \in 0..Len(Children[e]), rank[<<e, j>>] < rank[<<d, i>>]
        PROVE  Collected(e, j)
    <3>1. <<e, j>> \in Positions /\ rank[<<e, j>>] \in Nat
      BY InPositions, <1>1
    <3>2. <<d, i>> \in Positions /\ rank[<<d, i>>] \in Nat
      BY InPositions, <1>1
    <3>3. rank[<<e, j>>] \notin Bad
      <4> HIDE DEF Bad
      <4> QED
        BY <2>2, <2>4, <2>5, <3>1, <3>2
    <3> QED
      BY <3>1, <3>3
  <2>6. Len(Children[d]) \in Nat
    BY Entries
  <2>7. i # 0
    BY <2>4, CollectStart
  <2>8. i \in 1..Len(Children[d]) /\ i - 1 \in 0..Len(Children[d])
    BY <2>6, <2>7
  <2>9. Collected(d, i - 1)
    BY <2>5, <2>8, <1>1
  <2>10. Children[d][i] \in Dirs =>
           Collected(Children[d][i], Len(Children[Children[d][i]]))
    <3> DEFINE n == Children[d][i]
    <3>1. SUFFICES ASSUME n \in Dirs PROVE Collected(n, Len(Children[n]))
      OBVIOUS
    <3>2. rank[<<n, Len(Children[n])>>] < rank[<<d, i>>]
      BY <3>1, <2>8, <1>1
    <3> HIDE DEF n
    <3>3. Len(Children[n]) \in 0..Len(Children[n])
      BY <3>1, Entries
    <3> QED
      BY <3>1, <3>2, <3>3, <2>5
  <2> QED
    BY <2>4, <2>8, <2>9, <2>10, CollectStep
<1>3. ASSUME NEW d \in Dirs PROVE Collected(d, Len(Children[d]))
  <2>1. Len(Children[d]) \in 0..Len(Children[d])
    BY Entries
  <2>2. <<d, Len(Children[d])>> \in Positions /\ rank[<<d, Len(Children[d])>>] \in Nat
    BY <2>1, InPositions, <1>1
  <2> QED
    BY <1>2, <2>1, <2>2
<1> QED
  BY <1>3

\* The order in which upload_tree visits a source tree, whatever its shape: the
\* root, every other directory and file of the tree, each after the directory it
\* lies in, and nothing else.
THEOREM WalkComplete ==
  /\ collect_walk \in Seq(Nodes) /\ Len(collect_walk) \in Nat \ {0}
  /\ \A k \in 1..Len(collect_walk) :
       \/ collect_walk[k] = Root
       \/ \E j \in 1..(k - 1) : collect_walk[j] = Parent[collect_walk[k]]
  /\ Nodes = {collect_walk[k] : k \in 1..Len(collect_walk)}
<1> DEFINE c == collect_dir[<<Root, Len(Children[Root])>>]
           s == <<Root>> \o c.dirs
           all == Listed(c.dirs) \cup Listed(c.files)
<1>1. Root \in Dirs
  BY TreeAssumption
<1>2. /\ c \in [dirs : Seq(Dirs), files : Seq(Files)]
      /\ ParentsFirst(Root, c.dirs)
      /\ \A f \in Listed(c.files) : Parent[f] \in {Root} \cup Listed(c.dirs)
      /\ \A j \in 1..Len(Children[Root]) : Children[Root][j] \in Nodes => Children[Root][j] \in all
      /\ \A e \in Listed(c.dirs) : \A j \in 1..Len(Children[e]) :
           Children[e][j] \in Nodes => Children[e][j] \in all
  BY <1>1, CollectAll, Zenon DEF Collected
<1>3. collect_walk = s \o c.files
  BY DEF collect_walk
<1> HIDE DEF c
<1>4. c.dirs \in Seq(Nodes) /\ c.files \in Seq(Nodes) /\ <<Root>> \in Seq(Nodes)
  <2>1. c.dirs \in Seq(Dirs) /\ c.files \in Seq(Files)
    BY <1>2
  <2>2. Dirs \subseteq Nodes /\ Files \subseteq Nodes
    BY DEF Nodes
  <2> QED
    BY <1>1, <2>1, <2>2, SeqMonotonic
<1>5. s \in Seq(Nodes) /\ Listed(s) = {Root} \cup Listed(c.dirs)
  <2>1. Listed(<<Root>>) = {Root}
    BY ListedOne, Zenon
  <2>2. Listed(s) = Listed(<<Root>>) \cup Listed(c.dirs)
    BY <1>4, ListedConcat
  <2> QED
    BY <1>4, <2>1, <2>2, ConcatProperties
<1>6. /\ Len(s) \in Nat \ {0} /\ s[1] = Root
      /\ \A k \in 1..Len(c.dirs) : s[k + 1] = c.dirs[k]
      /\ Len(s) = 1 + Len(c.dirs) /\ Len(c.dirs) \in Nat
  <2>1. Len(<<Root>>) = 1 /\ <<Root>>[1] = Root
    OBVIOUS
  <2>2. Len(c.dirs) \in Nat
    BY <1>4, LenProperties
  <2>3. /\ Len(s) = Len(<<Root>>) + Len(c.dirs)
        /\ \A i \in 1..(Len(<<Root>>) + Len(c.dirs)) :
             s[i] = IF i <= Len(<<Root>>) THEN <<Root>>[i] ELSE c.dirs[i - Len(<<Root>>)]
    BY <1>4, ConcatProperties
  <2> HIDE DEF s
  <2> QED
    BY <2>1, <2>2, <2>3
<1>7. ASSUME NEW k \in 1..Len(s)
      PROVE  s[k] = Root \/ \E j \in 1..(k - 1) : s[j] = Parent[s[k]]
  <2> HIDE DEF s
  <2>1. CASE k = 1
    BY <1>6, <2>1
  <2>2. CASE k # 1
    <3> DEFINE l == k - 1
    <3>1. l \in 1..Len(c.dirs) /\ s[k] = c.dirs[l]
      BY <1>6, <2>2
    <3>2. \A j \in 1..(l - 1) : j + 1 \in 1..(k - 1) /\ s[j + 1] = c.dirs[j]
      BY <1>6, <3>1
    <3>3. 1 \in 1..(k - 1) /\ s[1] = Root
      BY <1>6, <2>2
    <3> HIDE DEF l
    <3>4. Parent[c.dirs[l]] = Root \/ \E j \in 1..(l - 1) : c.dirs[j] = Parent[c.dirs[l]]
      BY <3>1, <1>2 DEF ParentsFirst
    <3> QED
      BY <3>1, <3>2, <3>3, <3>4
  <2> QED
    BY <2>1, <2>2
<1> HIDE DEF s
<1>8. /\ collect_walk \in Seq(Nodes) /\ Len(collect_walk) = Len(s) + Len(c.files)
      /\ Len(c.files) \in Nat
      /\ \A i \in 1..Len(s) : collect_walk[i] = s[i]
      /\ \A i \in 1..Len(c.files) : collect_walk[i + Len(s)] = c.files[i]
  <2>1. Len(c.files) \in Nat
    BY <1>4, LenProperties
  <2>2. /\ s \o c.files \in Seq(Nodes) /\ Len(s \o c.files) = Len(s) + Len(c.files)
        /\ \A i \in 1..(Len(s) + Len(c.files)) :
             (s \o c.files)[i] = IF i <= Len(s) THEN s[i] ELSE c.files[i - Len(s)]
    BY <1>4, <1>5, ConcatProperties
  <2> QED
    BY <1>3, <1>6, <2>1, <2>2
<1> DEFINE ls == Len(s)
           lf == Len(c.files)
           lw == Len(collect_walk)
<1>9. /\ ls \in Nat /\ ls # 0 /\ lf \in Nat /\ lw = ls + lf
      /\ \A i \in 1..ls : collect_walk[i] = s[i]
      /\ \A i \in 1..lf : collect_walk[i + ls] = c.files[i]
  BY <1>6, <1>8
<1>10. ASSUME NEW k \in 1..lw
      PROVE  \/ collect_walk[k] = Root
             \/ \E j \in 1..(k - 1) : collect_walk[j] = Parent[collect_walk[k]]
  <2>1. CASE k <= ls
    <3> HIDE DEF ls, lf, lw
    <3>1. k \in 1..ls /\ collect_walk[k] = s[k]
      BY <1>9, <2>1
    <3>2. \A j \in 1..(k - 1) : collect_walk[j] = s[j]
      BY <1>9, <2>1
    <3> QED
      BY <3>1, <3>2, <1>7 DEF ls
  <2>2. CASE ~(k <= ls)
    <3> HIDE DEF ls, lf, lw
    <3>1. k - ls \in 1..lf /\ collect_walk[k] = c.files[k - ls]
      BY <1>9, <2>2
    <3>2. Parent[collect_walk[k]] \in Listed(s)
      BY <3>1, <1>2, <1>5 DEF Listed, lf
    <3>3. \A j \in 1..ls : j \in 1..(k - 1) /\ collect_walk[j] = s[j]
      BY <1>9, <2>2
    <3> QED
      BY <3>2, <3>3 DEF Listed, ls
  <2> QED
    BY <2>1, <2>2
<1>11. Listed(collect_walk) = {Root} \cup all
  <2>1. Listed(collect_walk) = Listed(s) \cup Listed(c.files)
    BY <1>3, <1>4, <1>5, ListedConcat
  <2> QED
    BY <2>1, <1>5
<1>12. \A e \in {Root} \cup Listed(c.dirs) : \A j \in 1..Len(Children[e]) :
         Children[e][j] \in Nodes => Children[e][j] \in all
  BY <1>2, Zenon
<1>13. Dirs \subseteq {Root} \cup Listed(c.dirs)
  <2>1. PICK height \in [Dirs -> 0..Cardinality(Dirs)] :
          \A d \in Dirs : \A i \in 1..Len(Children[d]) :
            Children[d][i] \in Dirs => height[Children[d][i]] < height[d]
    BY TreeAssumption
  <2> DEFINE top == Cardinality(Dirs)
             Missing == Dirs \ ({Root} \cup Listed(c.dirs))
             Depths == {k \in Nat : \E d \in Missing : k = top - height[d]}
  <2>2. top \in Nat
    <3>1. IsFiniteSet(Nodes \cup Skipped) /\ Dirs \in SUBSET (Nodes \cup Skipped)
      BY TreeAssumption DEF Nodes
    <3> QED
      BY <3>1, FS_Subset, FS_CardinalityType
  <2>3. \A d \in Dirs : height[d] \in Nat /\ top - height[d] \in Nat
    BY <2>1, <2>2
  <2>4. SUFFICES ASSUME Missing # {} PROVE FALSE
    OBVIOUS
  <2>5. Depths # {}
    <3> HIDE DEF top
    <3> QED
      BY <2>3, <2>4
  <2>6. PICK m \in Depths : \A k \in Depths : m <= k
    <3>1. Depths \in SUBSET Nat
      OBVIOUS
    <3> HIDE DEF Depths
    <3> QED
      BY <2>5, <3>1, LeastNumber
  <2>7. PICK d \in Missing : m = top - height[d]
    BY <2>6
  <2>8. d \in Nodes \ {Root}
    BY <2>7 DEF Nodes
  <2>9. /\ Parent[d] \in Dirs
        /\ \E i \in 1..Len(Children[Parent[d]]) : Children[Parent[d]][i] = d
    BY <2>8, ParentOf
  <2>10. height[d] < height[Parent[d]]
    BY <2>1, <2>9
  <2>11. Parent[d] \notin Missing
    <3>1. Parent[d] \in Missing => top - height[Parent[d]] \in Depths
      <4> HIDE DEF top
      <4> QED
        BY <2>3
    <3> HIDE DEF Depths, top
    <3> QED
      BY <3>1, <2>2, <2>3, <2>6, <2>7, <2>9, <2>10
  <2>12. d \in all
    BY <1>12, <2>8, <2>9, <2>11
  <2>13. d \notin Listed(c.files)
    <3>1. Listed(c.files) \subseteq Files
      BY <1>2, ElementOfSeq DEF Listed
    <3> QED
      BY <3>1, <2>7, TreeAssumption
  <2> QED
    BY <2>7, <2>12, <2>13
<1>14. Nodes \subseteq {Root} \cup all
  <2>1. ASSUME NEW f \in Files PROVE f \in {Root} \cup all
    <3>1. f = Root \/ f \in Nodes \ {Root}
      BY DEF Nodes
    <3> QED
      BY <3>1, <1>12, <1>13, ParentOf
  <2> QED
    BY <1>13, <2>1 DEF Nodes
<1>15. Listed(collect_walk) \subseteq Nodes
  BY <1>8, ElementOfSeq DEF Listed
<1>16. Listed(collect_walk) = Nodes
  BY <1>11, <1>14, <1>15
<1>17. lw \in Nat \ {0}
  <2> HIDE DEF ls, lf, lw
  <2> QED
    BY <1>9
<1> HIDE DEF all
<1> QED
  BY <1>8, <1>10, <1>16, <1>17 DEF Listed

-----------------------------------------------------------------------------
(* The tree                                                                *)

\* The channel of a file whose turn has not come.
Fresh ==
  /\ client = "sending" /\ result = "none" /\ sent = 0 /\ fin = "no"
  /\ task = "frames" /\ taken = 0 /\ code = "none" /\ status = "none"
  /\ writer = "starting" /\ written = 0

\* The directories before this place in the walk exist, and the file a writer
\* has opened.
Walked ==
  /\ at \in 1..Len(collect_walk) /\ run \in 1..MaxRuns
  /\ \A j \in 1..(at - 1) : collect_walk[j] \in Dirs => collect_walk[j] \in made
  /\ mk = "zero" => Here \in made
  /\ Here \in Files => mk = "none"
  /\ Here \in Dirs => Fresh
  /\ writer \in {"running", "ok", "failed"} => Here \in made

\* Every way to fail leaves its mark.
Faults ==
  /\ mk \notin {"none", "zero"} => fault # "no"
  /\ writer \in {"unopened", "failed"} => fault # "no"
  /\ client = "killed" => fault # "no"
  /\ result \notin {"none", "ok"} => fault # "no"
  /\ tree_result = "failed" => fault # "no"
  /\ tree_result = "ok" /\ Here \in Files => result = "ok"

\* A run that met a mode in its way does not get past it.
Modes ==
  /\ fault \in {"no", "yes", "mode"}
  /\ fault = "mode" => /\ Blocked(Here)
                       /\ \/ writer = "unopened"
                          \/ Here \in Dirs /\ (mk = "nonzero" \/ tree_result = "failed")

\* A helper of an earlier run has a directory to write in.
HelperOK(h, nodes) ==
  /\ h \in [state : {"starting", "running"}, file : Files, written : Nat, limit : 0..FileLen]
  /\ Parent[h.file] \in nodes
  /\ h.state = "running" => h.file \in nodes

Helpers ==
  /\ DOMAIN stale = 1..MaxRuns
  /\ \A r \in 1..MaxRuns : stale[r].state = "none" \/ HelperOK(stale[r], made)

Whole(n) == n \in made /\ (n \in Files => data[n] = 1..FileLen)

\* The remote tree: as long as nothing has spoiled it, what the writer has
\* written is in the file, and what comes before this place is whole.
Remote ==
  /\ made \subseteq Nodes
  /\ data \in [Files -> SUBSET (1..FileLen)]
  /\ \A n \in made : HasParent(n)
  /\ spoiled \in {"no", "yes"}
  /\ spoiled = "no" /\ Here \in Files => 1..written \subseteq data[Here]
  /\ server = "dev" /\ writer = "failed" => spoiled = "yes"
  /\ spoiled = "no" =>
       \A j \in 1..(at - 1) : Whole(collect_walk[j]) \/ collect_walk[j] = Here

TreeInv == Pipeline /\ Walked /\ Faults /\ Modes /\ Helpers /\ Remote

-----------------------------------------------------------------------------
LEMMA HereIsNode ==
  ASSUME at \in 1..Len(collect_walk)
  PROVE  Here \in Nodes /\ (Here \in Files => Here \notin Dirs) /\ Root \notin Files
<1>1. Here \in Nodes
  BY WalkComplete DEF Here
<1> QED
  BY <1>1, TreeAssumption DEF Nodes

\* The walk is in an order in which mkdir and open find the directory they need.
LEMMA ParentMade ==
  ASSUME Walked
  PROVE  HasParent(Here)
<1>1. CASE Here = Root
  BY <1>1 DEF HasParent
<1>2. CASE Here # Root
  <2>1. PICK j \in 1..(at - 1) : collect_walk[j] = Parent[Here]
    BY <1>2, WalkComplete DEF Walked, Here
  <2>2. Parent[Here] \in Dirs
    BY <1>2, HereIsNode, ParentOf DEF Walked
  <2> QED
    BY <2>1, <2>2 DEF Walked, HasParent
<1> QED
  BY <1>1, <1>2

\* A step that stays where the run is, and creates nothing that is blocked.
LEMMA ModesKept ==
  ASSUME Modes, Here' = Here, made \subseteq made',
         Here \in made' => Here \in made \/ ~Blocked(Here),
         fault' \in {fault, "yes"},
         writer = "unopened" => writer' = "unopened",
         Here \in Dirs /\ (mk = "nonzero" \/ tree_result = "failed") =>
           mk' = "nonzero" \/ tree_result' = "failed"
  PROVE  Modes'
<1>1. fault = "mode" => Blocked(Here)'
  BY DEF Modes, Blocked
<1> QED
  BY <1>1 DEF Modes

LEMMA FreshPipeline ==
  ASSUME FreshChannel
  PROVE  Pipeline' /\ Fresh'
BY ConstantsNat DEF FreshChannel, Pipeline, Fresh, Alive, Gone

LEMMA TreeStart == TreeInit => TreeInv
<1> SUFFICES ASSUME TreeInit PROVE TreeInv
  OBVIOUS
<1>1. Pipeline
  BY PipelineInit DEF TreeInit
<1>2. at = 1 /\ 1 \in 1..Len(collect_walk) /\ 1..(at - 1) = {}
  BY WalkComplete DEF TreeInit
<1>3. Fresh
  BY DEF TreeInit, Init, Fresh
<1>4. Walked
  <2>1. run \in 1..MaxRuns
    BY TreeAssumption DEF TreeInit
  <2> QED
    BY <1>2, <1>3, <2>1 DEF TreeInit, Walked, Fresh
<1>5. Faults
  BY <1>3 DEF TreeInit, Faults, Fresh
<1>6. Helpers
  BY DEF TreeInit, Helpers, NoHelper
<1>7. Remote
  <2>1. data \in [Files -> SUBSET (1..FileLen)]
    BY DEF TreeInit
  <2>2. 1..written = {}
    BY <1>3 DEF Fresh
  <2> QED
    BY <1>2, <1>3, <2>1, <2>2 DEF TreeInit, Remote, Fresh
<1> QED
  BY <1>1, <1>4, <1>5, <1>6, <1>7 DEF TreeInv, TreeInit, Modes

LEMMA MkdirRunsKeeps ==
  ASSUME TreeInv, MkdirRuns
  PROVE  TreeInv'
<1> USE DEF TreeInv
<1>1. Pipeline'
  BY PipelineNext DEF MkdirRuns
<1>2. HasParent(Here) /\ Here \in Nodes /\ Here \notin Files
  BY ParentMade, HereIsNode DEF Walked, MkdirRuns
<1>3. /\ UNCHANGED <<vars, run, at, tree_result, data, stale, spoiled>>
      /\ Here' = Here
      /\ tree_result = "none" /\ mk = "none" /\ Here \in Dirs
      /\ \/ mk' = "zero" /\ made' = made \cup {Here} /\ fault' = fault
         \/ /\ mk' = "nonzero" /\ made' = made
            /\ fault' = "yes" \/ (fault' = "mode" /\ Blocked(Here))
  BY <1>2 DEF MkdirRuns, MkdirCode, Mark, Here
<1>4. UNCHANGED <<client, result, sent, fin, task, taken, code, status, server, writer, written>>
  BY <1>3 DEF vars, client_vars, task_vars, writer_vars
<1>5. made \subseteq made' /\ made' \subseteq made \cup {Here}
  BY <1>3
<1>6. Walked'
  BY <1>2, <1>3, <1>4 DEF Walked, Fresh
<1>7. Faults'
  BY <1>3, <1>4 DEF Faults
<1>8. Helpers'
  BY <1>3, <1>5 DEF Helpers, HelperOK
<1>9. Remote'
  BY <1>2, <1>3, <1>4, <1>5 DEF Remote, HasParent, Whole
<1>10. Modes'
  <2>1. writer # "unopened" /\ fault # "mode"
    BY <1>2, <1>3 DEF Walked, Fresh, Modes
  <2>2. Blocked(Here) /\ made' = made => Blocked(Here)'
    BY <1>3 DEF Blocked
  <2> QED
    BY <1>3, <2>1, <2>2 DEF Modes
<1> QED
  BY <1>1, <1>6, <1>7, <1>8, <1>9, <1>10

LEMMA MkdirDoneKeeps ==
  ASSUME TreeInv, MkdirDone
  PROVE  TreeInv'
<1> USE DEF TreeInv
<1>1. Pipeline'
  BY PipelineNext DEF MkdirDone
<1>2. /\ Here \in Dirs /\ Here \notin Files /\ mk # "none" /\ mk' = "none"
      /\ UNCHANGED <<vars, run, made, data, stale, fault, spoiled>>
      /\ \/ mk = "zero" /\ at < Len(collect_walk) /\ at' = at + 1 /\ tree_result' = tree_result
         \/ mk = "zero" /\ at' = at /\ tree_result' = "ok"
         \/ mk # "zero" /\ at' = at /\ tree_result' = "failed"
      /\ tree_result = "none"
  BY TreeAssumption DEF MkdirDone, Advance, RunFails
<1>3. UNCHANGED <<client, result, sent, fin, task, taken, code, status, server, writer, written>>
  BY <1>2 DEF vars, client_vars, task_vars, writer_vars
<1>4. Fresh /\ Fresh'
  BY <1>2, <1>3 DEF Walked, Fresh
<1>5. mk = "zero" => Here \in made /\ Whole(Here)
  BY <1>2 DEF Walked, Whole
<1>6. /\ Len(collect_walk) \in Nat /\ at \in 1..Len(collect_walk) /\ at' \in 1..Len(collect_walk)
      /\ \A j \in 1..(at' - 1) : j \in 1..(at - 1) \/ (mk = "zero" /\ j = at)
  <2>1. Len(collect_walk) \in Nat /\ at \in 1..Len(collect_walk)
    BY WalkComplete DEF Walked
  <2>2. at' = at \/ (mk = "zero" /\ at < Len(collect_walk) /\ at' = at + 1)
    BY <1>2
  <2> QED
    BY <2>1, <2>2
<1>7. Walked'
  <2>1. \A j \in 1..(at' - 1) : collect_walk[j] \in Dirs => collect_walk[j] \in made
    BY <1>5, <1>6 DEF Walked, Here
  <2> QED
    BY <1>2, <1>4, <1>6, <2>1 DEF Walked, Fresh
<1>8. Faults'
  <2>1. tree_result' = "ok" => Here' \notin Files
    BY <1>2 DEF Here
  <2> QED
    BY <1>2, <1>3, <2>1 DEF Faults
<1>9. Helpers'
  BY <1>2 DEF Helpers, HelperOK
<1>10. Remote'
  <2>1. spoiled = "no" => \A j \in 1..(at' - 1) : Whole(collect_walk[j]) \/ collect_walk[j] = Here'
    <3>1. CASE mk = "zero"
      BY <3>1, <1>5, <1>6 DEF Remote, Here
    <3>2. CASE mk # "zero"
      BY <3>2, <1>2 DEF Remote, Here
    <3> QED
      BY <3>1, <3>2
  <2>2. 1..written' = {}
    BY <1>4 DEF Fresh
  <2>3. \A n : Whole(n)' <=> Whole(n)
    BY <1>2 DEF Whole
  <2> QED
    BY <1>2, <1>3, <2>1, <2>2, <2>3 DEF Remote, HasParent
<1>11. Modes'
  <2>1. CASE mk = "zero"
    BY <1>2, <1>4, <2>1 DEF Modes, Fresh
  <2>2. CASE mk # "zero"
    <3>1. Here' = Here /\ tree_result' = "failed" /\ writer' = writer
      BY <1>2, <1>3, <2>2 DEF Here
    <3> QED
      BY <1>2, <3>1, ModesKept
  <2> QED
    BY <2>1, <2>2
<1> QED
  BY <1>1, <1>7, <1>8, <1>9, <1>10, <1>11

LEMMA MkdirLostKeeps ==
  ASSUME TreeInv, MkdirLost
  PROVE  TreeInv'
<1> USE DEF TreeInv
<1>1. Pipeline'
  BY PipelineNext DEF MkdirLost
<1>2. /\ Here' = Here /\ mk' = "none" /\ tree_result' = "failed" /\ fault' = "yes"
      /\ UNCHANGED <<vars, run, at, made, data, stale, spoiled>>
  BY DEF MkdirLost, RunFails, Here
<1>3. UNCHANGED <<client, result, sent, fin, task, taken, code, status, server, writer, written>>
  BY <1>2 DEF vars, client_vars, task_vars, writer_vars
<1>4. Walked' /\ Faults'
  BY <1>2, <1>3 DEF Walked, Fresh, Faults
<1>5. Helpers' /\ Remote'
  BY <1>2, <1>3 DEF Helpers, HelperOK, Remote, HasParent, Whole
<1>6. Modes'
  BY <1>2 DEF Modes
<1> QED
  BY <1>1, <1>4, <1>5, <1>6

-----------------------------------------------------------------------------
(* The steps of an upload                                                  *)

\* What they share: none moves the walk, and all but two leave the tree alone.
LEMMA UploadStepShape ==
  ASSUME TreeInv, UploadStep
  PROVE  /\ Here \in Files /\ Here \notin Dirs /\ Here' = Here /\ Parent[Here] \in made
         /\ UNCHANGED <<run, at, mk, tree_result, stale>>
         /\ Pipeline'
<1>1. Here \in Files /\ UNCHANGED <<run, at, mk, tree_result, stale>> /\ Here' = Here
  BY DEF UploadStep, Uploading, Here
<1>2. Next
  BY DEF UploadStep, ClientLost, ServerSide, Quiet, FileOpened, FileWritten, FileFailed, Next,
         WriterStep
<1>3. HasParent(Here) /\ Here \notin Dirs /\ Here # Root
  BY <1>1, ParentMade, HereIsNode DEF TreeInv, Walked
<1> QED
  BY <1>1, <1>2, <1>3, PipelineNext DEF TreeInv, HasParent

LEMMA ClientKeeps ==
  ASSUME TreeInv, UploadStep, Quiet(ClientStep) \/ ClientLost
  PROVE  TreeInv'
<1> USE DEF TreeInv
<1>1. /\ Here \in Files /\ Here \notin Dirs /\ Here' = Here
      /\ UNCHANGED <<run, at, mk, tree_result, stale>> /\ Pipeline'
  BY UploadStepShape
<1>2. /\ UNCHANGED <<made, data, spoiled>>
      /\ UNCHANGED <<task, taken, code, status, server, writer, written>>
      /\ client \in {"sending", "awaiting"}
      /\ fault' = "yes" \/ fault' = fault
  BY DEF Quiet, ClientLost, ClientStep, ClientSends, ClientFinishes, ClientSendFails, ClientFails,
         ClientStatus, ClientKilled, ClientReturns, task_vars, writer_vars
<1>3. result = "none" /\ tree_result # "ok"
  BY <1>1, <1>2 DEF Pipeline, Faults
<1>4. fault' # "no" \/ (client' # "killed" /\ result' \in {"none", "ok"} /\ fault' = fault)
  <2>1. CASE ClientLost
    BY <2>1 DEF ClientLost
  <2>2. CASE Quiet(ClientSends \/ ClientFinishes)
    BY <2>2, <1>3 DEF Quiet, ClientSends, ClientFinishes
  <2>3. CASE Quiet(ClientSendFails)
    <3>1. fault' = fault /\ client = "sending" /\ task = "finished"
      BY <2>3 DEF Quiet, ClientSendFails
    <3>2. writer \in {"unopened", "failed"}
      BY <3>1 DEF Pipeline, Gone
    <3> QED
      BY <3>1, <3>2 DEF Faults
  <2>4. CASE Quiet(ClientStatus)
    <3>1. /\ fault' = fault /\ client' = "returned" /\ status # "none"
          /\ result' = IF status = "zero" THEN "ok" ELSE "status"
      BY <2>4 DEF Quiet, ClientStatus, ClientReturns
    <3>2. status # "zero" => fault # "no"
      BY <3>1 DEF Pipeline, Faults
    <3> QED
      BY <3>1, <3>2
  <2> QED
    BY <2>1, <2>2, <2>3, <2>4 DEF Quiet, ClientStep
<1>5. Walked'
  BY <1>1, <1>2 DEF Walked
<1>6. Faults'
  BY <1>1, <1>2, <1>3, <1>4 DEF Faults
<1>7. Helpers' /\ Remote'
  BY <1>1, <1>2 DEF Helpers, HelperOK, Remote, HasParent, Whole
<1>8. Modes'
  BY <1>1, <1>2, ModesKept
<1> QED
  BY <1>1, <1>5, <1>6, <1>7, <1>8

\* The steps of the server that leave the tree alone.
LEMMA ServerQuiet ==
  ASSUME TreeInv, UploadStep, Quiet(WriterEof \/ TaskStep \/ CloseKills)
  PROVE  TreeInv'
<1> USE DEF TreeInv
<1>1. /\ Here \in Files /\ Here \notin Dirs /\ Here' = Here
      /\ UNCHANGED <<run, at, mk, tree_result, stale>> /\ Pipeline'
  BY UploadStepShape
<1>2. /\ UNCHANGED <<made, data, fault, spoiled, client, result, server, written>>
      /\ \/ writer' = writer
         \/ writer' = "ok" /\ writer = "running"
         \/ writer' = "killed" /\ Alive
  BY DEF Quiet, WriterEof, TaskStep, TaskTakes, TaskFramesEnd, TaskReaps, TaskSendsStatus,
         TaskMoves, CloseKills, WriterMoves, client_vars, writer_vars
<1>3. Walked' /\ Faults'
  BY <1>1, <1>2 DEF Walked, Faults
<1>4. Helpers' /\ Remote'
  BY <1>1, <1>2 DEF Helpers, HelperOK, Remote, HasParent, Whole
<1>5. Modes'
  BY <1>1, <1>2, ModesKept DEF Alive
<1> QED
  BY <1>1, <1>3, <1>4, <1>5

LEMMA FileOpenedKeeps ==
  ASSUME TreeInv, UploadStep, FileOpened
  PROVE  TreeInv'
<1> USE DEF TreeInv
<1>1. /\ Here \in Files /\ Here \notin Dirs /\ Here' = Here /\ Parent[Here] \in made
      /\ UNCHANGED <<run, at, mk, tree_result, stale>> /\ Pipeline'
  BY UploadStepShape
<1>2. /\ UNCHANGED <<client, result, server, spoiled>> /\ written' = 0 /\ writer = "starting"
      /\ \/ /\ writer' = "running" /\ made' = made \cup {Here} /\ fault' = fault
            /\ data' = [data EXCEPT ![Here] = {}]
         \/ /\ writer' = "unopened" /\ made' = made /\ data' = data
            /\ fault' = "yes" \/ (fault' = "mode" /\ Blocked(Here))
  BY <1>1 DEF FileOpened, WriterOpens, WriterMoves, client_vars, HasParent, Mark
<1>3. data' \in [Files -> SUBSET (1..FileLen)]
  BY <1>1, <1>2 DEF Remote
<1>4. made \subseteq made' /\ made' \subseteq made \cup {Here} /\ Here \in Nodes
  BY <1>1, <1>2 DEF Nodes
<1>5. Walked'
  BY <1>1, <1>2 DEF Walked
<1>6. Faults'
  BY <1>1, <1>2 DEF Faults
<1>7. Helpers'
  BY <1>1, <1>4 DEF Helpers, HelperOK
<1>8. Remote'
  <2>1. \A n : n # Here /\ Whole(n) => Whole(n)'
    BY <1>2, <1>4 DEF Whole, Remote
  <2>2. spoiled' = "no" =>
          \A j \in 1..(at' - 1) : Whole(collect_walk[j])' \/ collect_walk[j] = Here'
    BY <1>1, <1>2, <2>1 DEF Remote
  <2>3. 1..written' = {}
    BY <1>2
  <2>4. \A n \in made' : HasParent(n)'
    BY <1>1, <1>4 DEF Remote, HasParent
  <2> QED
    BY <1>1, <1>2, <1>3, <1>4, <2>2, <2>3, <2>4 DEF Remote
<1>9. Modes'
  <2>1. fault # "mode"
    BY <1>1, <1>2 DEF Modes
  <2>2. Blocked(Here) /\ made' = made => Blocked(Here)'
    BY <1>1 DEF Blocked
  <2> QED
    BY <1>2, <2>1, <2>2 DEF Modes
<1> QED
  BY <1>1, <1>5, <1>6, <1>7, <1>8, <1>9

LEMMA FileWrittenKeeps ==
  ASSUME TreeInv, UploadStep, FileWritten
  PROVE  TreeInv'
<1> USE DEF TreeInv
<1>1. /\ Here \in Files /\ Here \notin Dirs /\ Here' = Here
      /\ UNCHANGED <<run, at, mk, tree_result, stale>> /\ Pipeline'
  BY UploadStepShape
<1>2. /\ UNCHANGED <<made, fault, spoiled, client, result, server>>
      /\ writer = "running" /\ writer' = "running" /\ written' = written + 1
      /\ data' = [data EXCEPT ![Here] = @ \cup {written'}]
  BY DEF FileWritten, WriterWrites, WriterMoves, client_vars
<1>3. written \in Nat /\ written' \in 1..FileLen
  BY <1>1, <1>2, ConstantsNat DEF Pipeline
<1>4. /\ data' \in [Files -> SUBSET (1..FileLen)]
      /\ \A f \in Files : data'[f] = IF f = Here THEN data[f] \cup {written'} ELSE data[f]
  BY <1>1, <1>2, <1>3 DEF Remote
<1>5. Walked' /\ Faults'
  BY <1>1, <1>2 DEF Walked, Faults
<1>6. Helpers'
  BY <1>1, <1>2 DEF Helpers, HelperOK
<1>7. Remote'
  <2>1. \A n : Whole(n) => Whole(n)'
    BY <1>1, <1>2, <1>3, <1>4 DEF Whole
  <2>2. spoiled' = "no" => 1..written' \subseteq data'[Here]
    <3>1. 1..written' = (1..written) \cup {written'}
      BY <1>2, <1>3
    <3> QED
      BY <1>1, <1>2, <1>4, <3>1 DEF Remote
  <2> QED
    BY <1>1, <1>2, <1>4, <2>1, <2>2 DEF Remote, HasParent
<1>8. Modes'
  BY <1>1, <1>2, ModesKept
<1> QED
  BY <1>1, <1>5, <1>6, <1>7, <1>8

LEMMA FileFailedKeeps ==
  ASSUME TreeInv, UploadStep, FileFailed
  PROVE  TreeInv'
<1> USE DEF TreeInv
<1>1. /\ Here \in Files /\ Here \notin Dirs /\ Here' = Here
      /\ UNCHANGED <<run, at, mk, tree_result, stale>> /\ Pipeline'
  BY UploadStepShape
<1>2. /\ UNCHANGED <<made, data, client, result, server, written>>
      /\ writer = "running" /\ writer' = "failed" /\ fault' = "yes"
      /\ spoiled' = IF server = "dev" THEN "yes" ELSE spoiled
  BY DEF FileFailed, WriterFails, WriterMoves, client_vars
<1>3. Walked' /\ Faults'
  BY <1>1, <1>2 DEF Walked, Faults
<1>4. Helpers'
  BY <1>1, <1>2 DEF Helpers, HelperOK
<1>5. Remote'
  BY <1>1, <1>2 DEF Remote, HasParent, Whole
<1>6. Modes'
  BY <1>1, <1>2, ModesKept
<1> QED
  BY <1>1, <1>3, <1>4, <1>5, <1>6

\* A file reported as uploaded is whole, unless the tree is spoiled.
LEMMA UploadedWhole ==
  ASSUME TreeInv, Here \in Files, result = "ok", spoiled = "no"
  PROVE  Whole(Here)
<1>1. writer = "ok" /\ written = FileLen
  <2>1. writer = "ok" \/ (server = "dev" /\ writer = "failed")
    BY DEF TreeInv, Pipeline
  <2>2. writer = "ok"
    BY <2>1 DEF TreeInv, Remote
  <2> QED
    BY <2>2 DEF TreeInv, Pipeline
<1>2. Here \in made /\ 1..FileLen \subseteq data[Here] /\ data[Here] \subseteq 1..FileLen
  BY <1>1 DEF TreeInv, Walked, Remote
<1> QED
  BY <1>2 DEF Whole

LEMMA FileDoneKeeps ==
  ASSUME TreeInv, FileDone
  PROVE  TreeInv'
<1> USE DEF TreeInv
<1>1. /\ Here \in Files /\ tree_result = "none" /\ Gone
      /\ UNCHANGED <<run, mk, made, data, stale, fault, spoiled>>
      /\ \/ /\ result = "ok" /\ at < Len(collect_walk) /\ at' = at + 1
            /\ tree_result' = tree_result /\ FreshChannel
         \/ result = "ok" /\ at' = at /\ tree_result' = "ok" /\ UNCHANGED vars
         \/ result # "ok" /\ at' = at /\ tree_result' = "failed" /\ UNCHANGED vars
  <2>1. at = Len(collect_walk) => ~(at < Len(collect_walk))
    BY WalkComplete
  <2> QED
    BY <2>1 DEF FileDone, Advance, RunFails
<1>2. \A n : Whole(n)' <=> Whole(n)
  BY <1>1 DEF Whole
<1>3. mk = "none"
  BY <1>1 DEF Walked
<1>4. Helpers'
  BY <1>1 DEF Helpers, HelperOK
<1>5. CASE UNCHANGED vars /\ at' = at
  <2>1. /\ UNCHANGED <<client, result, sent, fin, task, taken, code, status, server, writer,
                        written>>
        /\ Here' = Here
    BY <1>5 DEF vars, client_vars, task_vars, writer_vars, Here
  <2>2. Pipeline'
    BY <1>5, PipelineNext
  <2>3. Walked'
    BY <1>1, <1>5, <2>1 DEF Walked, Fresh
  <2>4. result # "ok" => fault # "no"
    BY <1>1 DEF Gone, Faults, Pipeline
  <2>5. Faults'
    BY <1>1, <2>1, <2>4 DEF Faults
  <2>6. Remote'
    BY <1>1, <1>2, <1>5, <2>1 DEF Remote, HasParent
  <2>7. Modes'
    BY <1>1, <1>5, <2>1, ModesKept
  <2> QED
    BY <2>2, <2>3, <2>5, <2>6, <2>7, <1>4
<1>6. CASE result = "ok" /\ at < Len(collect_walk) /\ at' = at + 1 /\ FreshChannel
           /\ tree_result' = tree_result
  <2>1. Pipeline' /\ Fresh'
    BY <1>6, FreshPipeline
  <2>2. /\ Len(collect_walk) \in Nat /\ at' \in 1..Len(collect_walk)
        /\ \A j \in 1..(at' - 1) : j \in 1..(at - 1) \/ j = at
    <3>1. Len(collect_walk) \in Nat /\ at \in 1..Len(collect_walk)
      BY WalkComplete DEF Walked
    <3> QED
      BY <1>6, <3>1
  <2>3. Here \notin Dirs
    BY <1>1, TreeAssumption
  <2>4. Walked'
    <3>1. \A j \in 1..(at' - 1) : collect_walk[j] \in Dirs => collect_walk[j] \in made
      BY <2>2, <2>3 DEF Walked, Here
    <3> QED
      BY <1>1, <1>3, <2>1, <2>2, <3>1 DEF Walked, Fresh
  <2>5. Faults'
    BY <1>1, <1>6, <2>1 DEF Faults, Fresh
  <2>6. Remote'
    <3>1. spoiled = "no" => \A j \in 1..(at' - 1) : Whole(collect_walk[j])
      <4>1. spoiled = "no" => Whole(Here)
        BY <1>1, <1>6, UploadedWhole
      <4> QED
        BY <4>1, <2>2 DEF Remote, Here
    <3>2. 1..written' = {} /\ writer' # "failed"
      BY <2>1 DEF Fresh
    <3> QED
      BY <1>1, <1>2, <3>1, <3>2 DEF Remote, HasParent
  <2>7. Modes'
    <3>1. writer # "unopened"
      BY <1>6 DEF Pipeline
    <3> QED
      BY <1>1, <2>3, <3>1 DEF Modes
  <2> QED
    BY <2>1, <2>4, <2>5, <2>6, <2>7, <1>4
<1> QED
  BY <1>1, <1>5, <1>6

-----------------------------------------------------------------------------
(* The next run, and the helpers of those before it                        *)

LEMMA RerunKeeps ==
  ASSUME TreeInv, Rerun
  PROVE  TreeInv'
<1> USE DEF TreeInv
<1>1. Pipeline' /\ Fresh'
  BY FreshPipeline DEF Rerun
<1>2. /\ run' = run + 1 /\ run < MaxRuns /\ at' = 1 /\ mk' = "none" /\ tree_result' = "none"
      /\ UNCHANGED <<made, data, spoiled>>
  BY DEF Rerun
<1>3. at' \in 1..Len(collect_walk) /\ 1..(at' - 1) = {}
  BY <1>2, WalkComplete
<1>4. Walked'
  <2>1. run' \in 1..MaxRuns
    BY <1>2, TreeAssumption DEF Walked
  <2> QED
    BY <1>1, <1>2, <1>3, <2>1 DEF Walked, Fresh
<1>5. Faults'
  BY <1>1, <1>2 DEF Faults, Fresh
<1>6. Helpers'
  <2> DEFINE h == [state |-> writer, file |-> Here, written |-> written, limit |-> sent]
  <2>1. CASE Here \in Files /\ Alive
    <3>1. stale' = [stale EXCEPT ![run] = h]
      BY <2>1 DEF Rerun
    <3>2. /\ DOMAIN stale' = 1..MaxRuns
          /\ \A r \in 1..MaxRuns : stale'[r] = IF r = run THEN h ELSE stale[r]
      BY <3>1 DEF Helpers
    <3>3. Parent[Here] \in made
      BY <2>1, ParentMade, HereIsNode DEF Walked, HasParent
    <3>4. HelperOK(h, made)
      <4>1. writer \in {"starting", "running"} /\ (writer = "running" => Here \in made)
        BY <2>1 DEF Walked, Alive
      <4>2. sent \in 0..FileLen /\ written \in Nat
        BY ConstantsNat DEF Pipeline
      <4> QED
        BY <2>1, <3>3, <4>1, <4>2 DEF HelperOK
    <3> HIDE DEF h
    <3> QED
      BY <1>2, <3>2, <3>4 DEF Helpers
  <2>2. CASE ~(Here \in Files /\ Alive)
    <3>1. stale' = stale
      BY <2>2 DEF Rerun
    <3> QED
      BY <1>2, <3>1 DEF Helpers, HelperOK
  <2> QED
    BY <2>1, <2>2
<1>7. Remote'
  <2>1. 1..written' = {} /\ writer' # "failed"
    BY <1>1 DEF Fresh
  <2> QED
    BY <1>2, <1>3, <2>1 DEF Remote, HasParent
<1>8. Modes'
  BY DEF Rerun, Modes
<1> QED
  BY <1>1, <1>4, <1>5, <1>6, <1>7, <1>8

\* What a step of an old helper cannot reach.
LEMMA StaleShape ==
  ASSUME TreeInv, UNCHANGED <<vars, run, at, mk, tree_result, fault>>, made \subseteq made',
         Here \in made' => Here \in made \/ ~Blocked(Here)
  PROVE  /\ Pipeline' /\ Walked' /\ Faults' /\ Modes' /\ Here' = Here
         /\ UNCHANGED <<server, writer, written>>
<1>1. UNCHANGED <<client, result, sent, fin, task, taken, code, status, server, writer, written>>
  BY DEF vars, client_vars, task_vars, writer_vars
<1>2. Pipeline'
  BY PipelineNext DEF TreeInv
<1>3. Here' = Here
  BY DEF Here
<1>4. Walked' /\ Faults'
  BY <1>1, <1>3 DEF TreeInv, Walked, Faults, Fresh
<1>5. Modes'
  BY <1>1, <1>3, ModesKept DEF TreeInv
<1> QED
  BY <1>1, <1>2, <1>3, <1>4, <1>5

LEMMA StaleOpensKeeps ==
  ASSUME TreeInv, NEW r \in 1..MaxRuns, StaleOpens(r)
  PROVE  TreeInv'
<1> DEFINE h == stale[r]
<1>1. /\ h.state = "starting" /\ stale' = [stale EXCEPT ![r].state = "running"]
      /\ made' = made \cup {h.file} /\ data' = [data EXCEPT ![h.file] = {}]
      /\ spoiled' = "yes" /\ UNCHANGED <<vars, run, at, mk, tree_result, fault>>
      /\ ~Blocked(h.file)
  BY DEF StaleOpens
<1>2. HelperOK(h, made) /\ h.file \in Files /\ Parent[h.file] \in made
  BY <1>1 DEF TreeInv, Helpers, HelperOK
<1>3. /\ Pipeline' /\ Walked' /\ Faults' /\ Modes' /\ Here' = Here
      /\ UNCHANGED <<server, writer, written>>
  BY <1>1, StaleShape
<1>4. Helpers'
  <2>1. /\ DOMAIN stale' = 1..MaxRuns
        /\ \A q \in 1..MaxRuns : q # r => stale'[q] = stale[q]
        /\ stale'[r] = [h EXCEPT !.state = "running"]
    BY <1>1 DEF TreeInv, Helpers
  <2>2. \A q : HelperOK(q, made) => HelperOK(q, made')
    BY <1>1 DEF HelperOK
  <2> HIDE DEF h
  <2>3. HelperOK(stale'[r], made')
    BY <1>1, <1>2, <2>1 DEF HelperOK
  <2> QED
    BY <2>1, <2>2, <2>3 DEF TreeInv, Helpers
<1>5. Remote'
  <2>1. data' \in [Files -> SUBSET (1..FileLen)]
    <3> HIDE DEF h
    <3> QED
      BY <1>1, <1>2 DEF TreeInv, Remote
  <2>2. \A n \in made' : HasParent(n)'
    <3> HIDE DEF h
    <3> QED
      BY <1>1, <1>2 DEF TreeInv, Remote, HasParent
  <2>3. made' \subseteq Nodes
    <3> HIDE DEF h
    <3> QED
      BY <1>1, <1>2 DEF TreeInv, Remote, Nodes
  <2> QED
    BY <1>1, <2>1, <2>2, <2>3 DEF Remote
<1> QED
  BY <1>3, <1>4, <1>5 DEF TreeInv

LEMMA StaleWritesKeeps ==
  ASSUME TreeInv, NEW r \in 1..MaxRuns, StaleWrites(r)
  PROVE  TreeInv'
<1> DEFINE h == stale[r]
           k == h.written + 1
<1>1. /\ h.state = "running" /\ h.written < h.limit
      /\ stale' = [stale EXCEPT ![r].written = @ + 1]
      /\ data' = [data EXCEPT ![h.file] = @ \cup {k}]
      /\ UNCHANGED <<vars, run, at, mk, tree_result, made, fault, spoiled>>
  BY DEF StaleWrites
<1>2. HelperOK(h, made) /\ h.file \in Files /\ h.written \in Nat /\ k \in Nat /\ k \in 1..FileLen
  <2>1. HelperOK(h, made)
    BY <1>1 DEF TreeInv, Helpers
  <2> QED
    BY <1>1, <2>1, ConstantsNat DEF HelperOK
<1>3. /\ Pipeline' /\ Walked' /\ Faults' /\ Modes' /\ Here' = Here
      /\ UNCHANGED <<server, writer, written>>
  BY <1>1, StaleShape
<1>4. Helpers'
  <2>1. /\ DOMAIN stale' = 1..MaxRuns
        /\ \A q \in 1..MaxRuns : q # r => stale'[q] = stale[q]
        /\ stale'[r] = [h EXCEPT !.written = @ + 1]
    BY <1>1 DEF TreeInv, Helpers
  <2> HIDE DEF h
  <2>2. HelperOK(stale'[r], made)
    BY <1>2, <2>1 DEF HelperOK
  <2> QED
    BY <1>1, <2>1, <2>2 DEF TreeInv, Helpers
<1>5. Remote'
  <2> HIDE DEF h, k
  <2>1. /\ data' \in [Files -> SUBSET (1..FileLen)]
        /\ \A f \in Files : data'[f] = IF f = h.file THEN data[f] \cup {k} ELSE data[f]
    BY <1>1, <1>2 DEF TreeInv, Remote
  <2>2. \A n : Whole(n) => Whole(n)'
    BY <1>1, <1>2, <2>1 DEF Whole
  <2> QED
    BY <1>1, <1>3, <2>1, <2>2 DEF TreeInv, Remote, HasParent
<1> QED
  BY <1>3, <1>4, <1>5 DEF TreeInv

LEMMA StaleEndsKeeps ==
  ASSUME TreeInv, NEW r \in 1..MaxRuns, StaleEnds(r)
  PROVE  TreeInv'
<1>1. /\ stale' = [stale EXCEPT ![r] = NoHelper]
      /\ UNCHANGED <<vars, run, at, mk, tree_result, made, data, fault, spoiled>>
  BY DEF StaleEnds
<1>2. /\ Pipeline' /\ Walked' /\ Faults' /\ Modes' /\ Here' = Here
      /\ UNCHANGED <<server, writer, written>>
  BY <1>1, StaleShape
<1>3. Helpers'
  BY <1>1 DEF TreeInv, Helpers, HelperOK, NoHelper
<1>4. Remote'
  BY <1>1, <1>2 DEF TreeInv, Remote, HasParent, Whole
<1> QED
  BY <1>2, <1>3, <1>4 DEF TreeInv

LEMMA TreeKeeps ==
  ASSUME TreeInv, [TreeNext]_all_vars
  PROVE  TreeInv'
<1>1. CASE UploadStep
  <2>1. Quiet(ClientStep) \/ ClientLost \/ ServerSide
    BY <1>1 DEF UploadStep
  <2> QED
    BY <1>1, <2>1, ClientKeeps, ServerQuiet, FileOpenedKeeps, FileWrittenKeeps, FileFailedKeeps
       DEF ServerSide
<1>2. CASE UNCHANGED all_vars
  <2>1. UNCHANGED vars /\ UNCHANGED <<run, at, mk, tree_result, made, data, stale, fault, spoiled>>
    BY <1>2 DEF all_vars, tree_vars
  <2>2. /\ Pipeline' /\ Walked' /\ Faults' /\ Modes' /\ Here' = Here
        /\ UNCHANGED <<server, writer, written>>
    BY <2>1, StaleShape
  <2>3. Helpers' /\ Remote'
    BY <2>1, <2>2 DEF TreeInv, Helpers, HelperOK, Remote, HasParent, Whole
  <2> QED
    BY <2>2, <2>3 DEF TreeInv
<1> QED
  BY <1>1, <1>2, MkdirRunsKeeps, MkdirDoneKeeps, MkdirLostKeeps, FileDoneKeeps, RerunKeeps,
     StaleOpensKeeps, StaleWritesKeeps, StaleEndsKeeps DEF TreeNext

\* A run of upload_tree over what earlier runs and their helpers left fails only if
\* something fails in it, or at a node whose mode, or whose directory's, denies the
\* user a write.
THEOREM RerunSucceedsHolds == TreeSpec => []RerunSucceeds
<1>1. TreeInv => RerunSucceeds
  BY DEF TreeInv, Faults, Modes, RerunSucceeds
<1> QED
  BY <1>1, TreeStart, TreeKeeps, PTL DEF TreeSpec

\* Each file of a tree is uploaded as a file alone is: upload_one's success means
\* that all of it is on the server, and no helper is killed under a waiting client.
THEOREM TreeUploadHolds == TreeSpec => [](UploadExact /\ HelperSpared)
<1>1. TreeInv => UploadExact /\ HelperSpared
  BY DEF TreeInv, Pipeline, UploadExact, HelperSpared
<1> QED
  BY <1>1, TreeStart, TreeKeeps, PTL DEF TreeSpec

-----------------------------------------------------------------------------
(* Refinement                                                              *)

Bar == [n \in Nodes |-> NodeState(n)]
Empty == IF FileLen = 0 THEN "whole" ELSE "partial"

LEMMA NodeCases ==
  \A n \in Nodes :
    /\ NodeState(n) = IF n \notin made THEN "absent"
                      ELSE IF n \in Dirs \/ data[n] = 1..FileLen THEN "whole" ELSE "partial"
    /\ NodeState(n)' = IF n \notin made' THEN "absent"
                       ELSE IF n \in Dirs \/ data'[n] = 1..FileLen THEN "whole" ELSE "partial"
BY DEF NodeState, Nodes

LEMMA BarSame ==
  ASSUME UNCHANGED <<made, data>>
  PROVE  Bar' = Bar
BY DEF Bar, NodeState

LEMMA BarBecomes ==
  ASSUME NEW x \in Nodes, NEW v, NodeState(x)' = v,
         \A n \in Nodes \ {x} : NodeState(n)' = NodeState(n)
  PROVE  Bar' = [Bar EXCEPT ![x] = v]
BY DEF Bar

\* The step relation of TreeCopy, in terms of Bar.
LEMMA CopyNext ==
  /\ Copy!Init <=> Bar = [n \in Nodes |-> "absent"] /\ tree_result = "none" /\ spoiled = "no"
  /\ UNCHANGED <<Bar, tree_result, spoiled>> => UNCHANGED Copy!copy_vars
  /\ \A d \in Dirs :
       /\ Bar[d] = "absent" /\ (d = Root \/ Bar[Parent[d]] = "whole")
       /\ Bar' = [Bar EXCEPT ![d] = "whole"] /\ UNCHANGED <<tree_result, spoiled>>
       => Copy!Next
  /\ \A f \in Files :
       /\ Bar[Parent[f]] = "whole" /\ Bar' = [Bar EXCEPT ![f] = Empty]
       /\ (tree_result # "ok" /\ UNCHANGED spoiled) \/ spoiled' = "yes"
       /\ UNCHANGED tree_result
       => Copy!Next
  /\ \A f \in Files :
       /\ Bar[f] = "partial" /\ Bar' = [Bar EXCEPT ![f] = "whole"]
       /\ UNCHANGED <<tree_result, spoiled>>
       => Copy!Next
  /\ spoiled' = "yes" /\ UNCHANGED <<Bar, tree_result>> => Copy!Next
  /\ /\ tree_result = "none"
     /\ \/ tree_result' = "failed"
        \/ (spoiled = "yes" \/ \A n \in Nodes : Bar[n] = "whole") /\ tree_result' = "ok"
     /\ UNCHANGED <<Bar, spoiled>>
     => Copy!Next
  /\ tree_result = "failed" /\ tree_result' = "none" /\ UNCHANGED <<Bar, spoiled>> => Copy!Next
BY DEF Bar, Empty, Copy!Init, Copy!Next, Copy!copy_vars, Copy!MakeDir, Copy!OpenFile, Copy!FillFile,
       Copy!Spoil, Copy!Report, Copy!Repeat, Copy!Becomes, Copy!Nodes, Nodes

\* At the end of the walk every node has had its turn.
LEMMA AllWhole ==
  ASSUME TreeInv, spoiled = "no", at = Len(collect_walk), Whole(Here)
  PROVE  \A n \in Nodes : Bar[n] = "whole"
<1>1. TAKE n \in Nodes
<1>2. PICK k \in 1..Len(collect_walk) : n = collect_walk[k]
  BY WalkComplete
<1>3. Whole(n)
  <2>1. Len(collect_walk) \in Nat
    BY WalkComplete
  <2>2. k = at \/ k \in 1..(at - 1)
    BY <2>1
  <2> QED
    BY <1>2, <2>2 DEF TreeInv, Remote, Here
<1> QED
  BY <1>3, NodeCases DEF Bar, Whole, Nodes

LEMMA DirBecomes ==
  ASSUME NEW d \in Dirs, made' = made \cup {d}, data' = data
  PROVE  Bar' = [Bar EXCEPT ![d] = "whole"]
<1>1. d \in Nodes
  BY DEF Nodes
<1>2. NodeState(d)' = "whole" /\ \A n \in Nodes \ {d} : NodeState(n)' = NodeState(n)
  BY <1>1, NodeCases
<1> QED
  BY <1>1, <1>2, BarBecomes

LEMMA EmptyRange == 1..FileLen = {} <=> FileLen = 0
<1>1. FileLen \in Nat
  BY ConstantsNat
<1>2. CASE FileLen = 0
  BY <1>2
<1>3. CASE FileLen # 0
  <2>1. 1 \in 1..FileLen
    BY <1>1, <1>3
  <2> QED
    BY <1>3, <2>1
<1> QED
  BY <1>2, <1>3

\* A file whose directory exists is emptied, or becomes longer.
LEMMA FileBecomes ==
  ASSUME NEW f \in Files, NEW chunks, data \in [Files -> SUBSET (1..FileLen)],
         made' = made \cup {f}, data' = [data EXCEPT ![f] = chunks]
  PROVE  /\ chunks = {} => Bar' = [Bar EXCEPT ![f] = Empty]
         /\ f \in made /\ data[f] \subseteq chunks /\ chunks \subseteq 1..FileLen =>
              \/ Bar' = Bar
              \/ Bar[f] = "partial" /\ Bar' = [Bar EXCEPT ![f] = "whole"]
<1>1. f \in Nodes /\ f \notin Dirs
  BY TreeAssumption DEF Nodes
<1>2. data'[f] = chunks /\ \A n \in Files : n # f => data'[n] = data[n]
  OBVIOUS
<1>3. \A n \in Nodes \ {f} : NodeState(n)' = NodeState(n)
  BY <1>2, NodeCases DEF Nodes
<1>4. NodeState(f)' = IF chunks = 1..FileLen THEN "whole" ELSE "partial"
  BY <1>1, <1>2, NodeCases
<1>5. chunks = {} => Bar' = [Bar EXCEPT ![f] = Empty]
  <2>1. 1..FileLen = {} <=> FileLen = 0
    BY EmptyRange
  <2>2. chunks = {} => NodeState(f)' = Empty
    BY <1>4, <2>1 DEF Empty
  <2> QED
    BY <1>1, <1>3, <2>2, BarBecomes
<1>6. ASSUME f \in made, data[f] \subseteq chunks, chunks \subseteq 1..FileLen
      PROVE  \/ Bar' = Bar
             \/ Bar[f] = "partial" /\ Bar' = [Bar EXCEPT ![f] = "whole"]
  <2>1. NodeState(f) = IF data[f] = 1..FileLen THEN "whole" ELSE "partial"
    BY <1>1, <1>6, NodeCases
  <2>2. Bar[f] = NodeState(f)
    BY <1>1 DEF Bar
  <2>3. CASE data[f] # 1..FileLen /\ chunks = 1..FileLen
    BY <1>1, <1>3, <1>4, <2>1, <2>2, <2>3, BarBecomes
  <2>4. CASE ~(data[f] # 1..FileLen /\ chunks = 1..FileLen)
    <3>1. chunks = 1..FileLen <=> data[f] = 1..FileLen
      BY <1>6, <2>4, Zenon
    <3>2. NodeState(f)' = NodeState(f)
      BY <1>4, <2>1, <3>1
    <3> QED
      BY <1>3, <3>2 DEF Bar
  <2> QED
    BY <2>3, <2>4
<1> QED
  BY <1>5, <1>6

LEMMA ParentWhole ==
  ASSUME NEW n \in Nodes \ {Root}, Parent[n] \in made
  PROVE  Bar[Parent[n]] = "whole"
<1>1. Parent[n] \in Dirs
  BY ParentOf
<1> QED
  BY <1>1, NodeCases DEF Bar, Nodes

\* Every step is a step of TreeCopy, or none.
LEMMA CopyStep ==
  ASSUME TreeInv, [TreeNext]_all_vars
  PROVE  [Copy!Next]_Copy!copy_vars
<1> DEFINE Goal == [Copy!Next]_Copy!copy_vars
<1>0. SUFFICES Goal
  OBVIOUS
<1>1. UNCHANGED <<made, data, tree_result, spoiled>> => Goal
  BY BarSame, CopyNext
<1>2. CASE MkdirRuns
  <2>1. /\ Here \in Dirs /\ HasParent(Here)
        /\ UNCHANGED <<data, tree_result, spoiled>>
        /\ made' = made \cup {Here} \/ made' = made
    BY <1>2, ParentMade DEF MkdirRuns, TreeInv
  <2>2. CASE Here \in made \/ made' = made
    <3>1. made' = made
      BY <2>1, <2>2
    <3> QED
      BY <2>1, <3>1, <1>1
  <2>3. CASE Here \notin made /\ made' = made \cup {Here}
    <3>1. Here \in Nodes
      BY <2>1 DEF Nodes
    <3>2. Bar[Here] = "absent"
      BY <2>3, <3>1, NodeCases DEF Bar
    <3>3. Here = Root \/ Bar[Parent[Here]] = "whole"
      BY <2>1, <3>1, ParentWhole DEF HasParent
    <3>4. Bar' = [Bar EXCEPT ![Here] = "whole"]
      BY <2>1, <2>3, DirBecomes
    <3> QED
      BY <2>1, <3>2, <3>3, <3>4, CopyNext
  <2> QED
    BY <2>1, <2>2, <2>3
<1>3. CASE MkdirDone
  <2>1. UNCHANGED <<made, data, spoiled>> /\ tree_result = "none" /\ Here \in Dirs
    BY <1>3 DEF MkdirDone
  <2>2. \/ tree_result' \in {tree_result, "failed"}
        \/ tree_result' = "ok" /\ at = Len(collect_walk) /\ mk = "zero"
    BY <1>3 DEF MkdirDone, Advance, RunFails
  <2>3. tree_result' = "ok" => spoiled = "yes" \/ \A n \in Nodes : Bar[n] = "whole"
    <3>1. SUFFICES ASSUME tree_result' = "ok", spoiled = "no"
                   PROVE  \A n \in Nodes : Bar[n] = "whole"
      BY DEF TreeInv, Remote
    <3>2. at = Len(collect_walk) /\ mk = "zero"
      BY <2>1, <2>2, <3>1
    <3>3. Whole(Here)
      BY <2>1, <3>2, TreeAssumption DEF TreeInv, Walked, Whole
    <3> QED
      BY <3>1, <3>2, <3>3, AllWhole
  <2> QED
    BY <1>1, <2>1, <2>2, <2>3, BarSame, CopyNext
<1>4. CASE MkdirLost
  <2>1. UNCHANGED <<made, data, spoiled>> /\ tree_result = "none" /\ tree_result' = "failed"
    BY <1>4 DEF MkdirLost, RunFails
  <2> QED
    BY <2>1, BarSame, CopyNext
<1>5. CASE FileDone
  <2>1. UNCHANGED <<made, data, spoiled>> /\ tree_result = "none" /\ Here \in Files
    BY <1>5 DEF FileDone
  <2>2. \/ tree_result' \in {tree_result, "failed"}
        \/ tree_result' = "ok" /\ at = Len(collect_walk) /\ result = "ok"
    BY <1>5 DEF FileDone, Advance, RunFails
  <2>3. tree_result' = "ok" => spoiled = "yes" \/ \A n \in Nodes : Bar[n] = "whole"
    <3>1. SUFFICES ASSUME tree_result' = "ok", spoiled = "no"
                   PROVE  \A n \in Nodes : Bar[n] = "whole"
      BY DEF TreeInv, Remote
    <3>2. at = Len(collect_walk) /\ result = "ok"
      BY <2>1, <2>2, <3>1
    <3> QED
      BY <2>1, <3>1, <3>2, UploadedWhole, AllWhole
  <2> QED
    BY <1>1, <2>1, <2>2, <2>3, BarSame, CopyNext
<1>6. CASE UploadStep
  <2>1. /\ Here \in Files /\ Parent[Here] \in made /\ UNCHANGED tree_result /\ Pipeline'
    BY <1>6, UploadStepShape
  <2> DEFINE f == Here
  <2>2. f \in Files /\ f \in Nodes \ {Root} /\ Bar[Parent[f]] = "whole"
    <3>1. f \in Nodes \ {Root}
      BY <2>1, TreeAssumption DEF Nodes
    <3> QED
      BY <2>1, <3>1, ParentWhole
  <2>3. data \in [Files -> SUBSET (1..FileLen)]
    BY DEF TreeInv, Remote
  <2>4. CASE FileOpened /\ writer' = "running"
    <3>1. /\ made' = made \cup {f} /\ data' = [data EXCEPT ![f] = {}] /\ UNCHANGED spoiled
          /\ writer = "starting"
      BY <2>4 DEF FileOpened, WriterOpens
    <3>2. tree_result # "ok"
      BY <2>1, <3>1 DEF TreeInv, Faults, Pipeline
    <3> HIDE DEF f
    <3>3. Bar' = [Bar EXCEPT ![f] = Empty]
      BY <3>1, <2>2, <2>3, FileBecomes
    <3> QED
      BY <2>1, <2>2, <3>1, <3>2, <3>3, CopyNext
  <2>5. CASE FileOpened /\ writer' # "running"
    BY <2>1, <2>5, <1>1 DEF FileOpened
  <2>6. CASE FileWritten
    <3> DEFINE chunks == data[f] \cup {written'}
    <3>1. /\ made' = made /\ data' = [data EXCEPT ![f] = chunks] /\ UNCHANGED spoiled
          /\ writer = "running" /\ written' = written + 1
      BY <2>2, <2>3, <2>6 DEF FileWritten, WriterWrites, WriterMoves
    <3>2. f \in made
      BY <3>1 DEF TreeInv, Walked
    <3>3. written' \in 1..FileLen
      BY <2>1, <3>1, ConstantsNat DEF TreeInv, Pipeline
    <3>4. data[f] \subseteq chunks /\ chunks \subseteq 1..FileLen /\ made' = made \cup {f}
      BY <2>2, <2>3, <3>1, <3>2, <3>3
    <3> HIDE DEF f, chunks
    <3>5. Bar' = Bar \/ (Bar[f] = "partial" /\ Bar' = [Bar EXCEPT ![f] = "whole"])
      BY <2>2, <2>3, <3>1, <3>2, <3>4, FileBecomes
    <3> QED
      BY <2>1, <2>2, <3>1, <3>5, CopyNext
  <2>7. CASE FileFailed
    <3>1. UNCHANGED <<made, data>> /\ spoiled' \in {"yes", spoiled}
      BY <2>7 DEF FileFailed
    <3> QED
      BY <2>1, <3>1, <1>1, BarSame, CopyNext
  <2>8. CASE Quiet(ClientStep) \/ ClientLost \/ Quiet(WriterEof \/ TaskStep \/ CloseKills)
    BY <2>1, <2>8, <1>1 DEF Quiet, ClientLost
  <2> QED
    BY <1>6, <2>4, <2>5, <2>6, <2>7, <2>8 DEF UploadStep, ServerSide
<1>7. CASE Rerun
  <2>1. /\ UNCHANGED <<made, data, spoiled>>
        /\ tree_result = "failed" /\ tree_result' = "none"
    BY <1>7 DEF Rerun
  <2> QED
    BY <2>1, BarSame, CopyNext
<1>8. ASSUME NEW r \in 1..MaxRuns, StaleOpens(r) \/ StaleWrites(r)
      PROVE  Goal
  <2> DEFINE h == stale[r]
             f == h.file
  <2>1. HelperOK(h, made)
    BY <1>8 DEF TreeInv, Helpers, StaleOpens, StaleWrites
  <2>2. f \in Files /\ f \in Nodes \ {Root} /\ Bar[Parent[f]] = "whole"
    <3>1. f \in Files /\ Parent[f] \in made
      BY <2>1 DEF HelperOK
    <3>2. f \in Nodes \ {Root}
      BY <3>1, TreeAssumption DEF Nodes
    <3> HIDE DEF f
    <3> QED
      BY <3>1, <3>2, ParentWhole
  <2>3. data \in [Files -> SUBSET (1..FileLen)]
    BY DEF TreeInv, Remote
  <2>4. CASE StaleOpens(r)
    <3>1. /\ made' = made \cup {f} /\ data' = [data EXCEPT ![f] = {}] /\ spoiled' = "yes"
          /\ UNCHANGED tree_result
      BY <2>4 DEF StaleOpens
    <3> HIDE DEF f
    <3>2. Bar' = [Bar EXCEPT ![f] = Empty]
      BY <3>1, <2>2, <2>3, FileBecomes
    <3> QED
      BY <2>2, <3>1, <3>2, CopyNext
  <2>5. CASE StaleWrites(r)
    <3> DEFINE k == h.written + 1
               chunks == data[f] \cup {k}
    <3>1. /\ made' = made /\ UNCHANGED <<tree_result, spoiled>>
          /\ h.state = "running" /\ h.written < h.limit
          /\ data' = [data EXCEPT ![f] = @ \cup {k}]
      BY <2>5 DEF StaleWrites
    <3>2. f \in made /\ k \in 1..FileLen
      <4> HIDE DEF h
      <4> QED
        BY <2>1, <3>1, ConstantsNat DEF HelperOK
    <3> HIDE DEF f, k
    <3>3. /\ data' = [data EXCEPT ![f] = chunks] /\ made' = made \cup {f}
          /\ data[f] \subseteq chunks /\ chunks \subseteq 1..FileLen
      BY <2>2, <2>3, <3>1, <3>2
    <3> HIDE DEF chunks
    <3>4. Bar' = Bar \/ (Bar[f] = "partial" /\ Bar' = [Bar EXCEPT ![f] = "whole"])
      BY <2>2, <2>3, <3>2, <3>3, FileBecomes
    <3> QED
      BY <2>2, <3>1, <3>4, CopyNext
  <2> QED
    BY <1>8, <2>4, <2>5
<1>9. ASSUME NEW r \in 1..MaxRuns, StaleEnds(r)
      PROVE  Goal
  BY <1>9, <1>1 DEF StaleEnds
<1>10. CASE UNCHANGED all_vars
  BY <1>10, <1>1 DEF all_vars, tree_vars
<1> HIDE DEF Goal
<1> QED
  BY <1>2, <1>3, <1>4, <1>5, <1>6, <1>7, <1>8, <1>9, <1>10 DEF TreeNext

\* upload_tree keeps the promise of TreeCopy for every source tree, file length
\* and number of runs: the remote tree grows from its root, nothing in it
\* vanishes, and success is reported for a whole tree only, unless a dev server's
\* failed write or a late helper has spoiled it.
THEOREM UploadRefinesTreeCopy == TreeSpec => RefinesTreeCopy
<1>1. TreeInit => Copy!Init
  <2>1. SUFFICES ASSUME TreeInit PROVE Copy!Init
    OBVIOUS
  <2>2. made = {} /\ tree_result = "none" /\ spoiled = "no"
    BY <2>1 DEF TreeInit
  <2>3. Bar = [n \in Nodes |-> "absent"]
    BY <2>2, NodeCases DEF Bar
  <2> QED
    BY <2>2, <2>3, CopyNext
<1>2. TreeInv /\ [TreeNext]_all_vars => [Copy!Next]_Copy!copy_vars
  BY CopyStep
<1> QED
  BY <1>1, <1>2, TreeStart, TreeKeeps, PTL DEF TreeSpec, RefinesTreeCopy, Copy!Spec
=============================================================================
