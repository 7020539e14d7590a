---------------------------- MODULE ForwardProofs ----------------------------
(***************************************************************************)
(* A forwarded connection, for every frame size, queue and socket and      *)
(* however the stream is cut.  First the frame buffer of both readers: a   *)
(* whole frame comes out as it went in and leaves the rest, and no part of *)
(* a frame is taken for one.  Then the forward that is built on it: either *)
(* peer receives the other's bytes in order and without a gap, and before  *)
(* its input ends it has received them all.  Last, the table that holds    *)
(* the sockets of -R forwards: a socket has one holder.                    *)
(*                                                                         *)
(* That bytes are frames is said by witnesses: where each frame starts and *)
(* which byte it starts with (Layout).  A step changes the witnesses at    *)
(* one end, so that no induction over the stream is needed.                *)
(***************************************************************************)
EXTENDS Forward, RemoteForward, SequenceTheorems, TLAPS

-----------------------------------------------------------------------------
(* The frame buffer                                                        *)

\* The two digits of a length, and the number they name.
LEMMA Digits ==
  ASSUME NEW n \in Nat, NEW b \in Nat \ {0}
  PROVE  n \div b \in Nat /\ n % b \in Nat /\ (n \div b) * b + (n % b) = n
OBVIOUS

\* Concatenation and subsequences of byte sequences, as the steps below use them.
LEMMA Joined ==
  ASSUME NEW s \in Seq(Nat), NEW t \in Seq(Nat)
  PROVE  /\ s \o t \in Seq(Nat)
         /\ Len(s) \in Nat /\ Len(t) \in Nat
         /\ Len(s \o t) = Len(s) + Len(t)
         /\ \A i \in 1..Len(s) : (s \o t)[i] = s[i]
         /\ \A i \in 1..Len(t) : (s \o t)[Len(s) + i] = t[i]
<1>1. /\ s \o t \in Seq(Nat) /\ Len(s \o t) = Len(s) + Len(t)
      /\ Len(s) \in Nat /\ Len(t) \in Nat
      /\ \A i \in 1..(Len(s) + Len(t)) :
           (s \o t)[i] = IF i <= Len(s) THEN s[i] ELSE t[i - Len(s)]
  BY ConcatProperties, LenProperties
<1>2. \A i \in 1..Len(s) : (s \o t)[i] = s[i]
  BY <1>1
<1>3. ASSUME NEW i \in 1..Len(t)
      PROVE  (s \o t)[Len(s) + i] = t[i]
  <2>1. /\ Len(s) + i \in 1..(Len(s) + Len(t))
        /\ ~(Len(s) + i <= Len(s))
        /\ Len(s) + i - Len(s) = i
    BY <1>1
  <2> QED
    BY <1>1, <2>1
<1> QED
  BY <1>1, <1>2, <1>3

LEMMA Cut ==
  ASSUME NEW s \in Seq(Nat), NEW m \in Nat \ {0}, NEW n \in Nat,
         m <= n + 1, n <= Len(s)
  PROVE  /\ SubSeq(s, m, n) \in Seq(Nat)
         /\ Len(SubSeq(s, m, n)) = n - m + 1
         /\ \A i \in 1..(n - m + 1) : SubSeq(s, m, n)[i] = s[m + i - 1]
<1>1. \A i \in m..n : s[i] \in Nat
  <2>1. \A i \in m..n : i \in 1..Len(s)
    BY LenProperties
  <2> QED
    BY <2>1, ElementOfSeq
<1>2. /\ SubSeq(s, m, n) \in Seq(Nat)
      /\ Len(SubSeq(s, m, n)) = IF m <= n THEN n - m + 1 ELSE 0
      /\ \A i \in 1..(n - m + 1) : SubSeq(s, m, n)[i] = s[m + i - 1]
  BY <1>1, SubSeqProperties
<1> QED
  BY <1>2

\* encode's prefix and the bytes after it.
LEMMA EncodeShape ==
  ASSUME NEW body \in Seq(Nat)
  PROVE  /\ encode(body) \in Seq(Nat)
         /\ Len(encode(body)) = LenPrefix + Len(body)
         /\ parse_len(encode(body)) = Len(body)
         /\ \A i \in 1..Len(body) : encode(body)[LenPrefix + i] = body[i]
<1> DEFINE prefix == <<Len(body) \div Base, Len(body) % Base>>
<1>1. /\ Len(body) \div Base \in Nat /\ Len(body) % Base \in Nat
      /\ (Len(body) \div Base) * Base + (Len(body) % Base) = Len(body)
  BY Digits, FramingAssumption
<1>2. prefix \in Seq(Nat) /\ Len(prefix) = 2
      /\ prefix[1] = Len(body) \div Base /\ prefix[2] = Len(body) % Base
  BY <1>1
<1>3. encode(body) = prefix \o body
  BY DEF encode
<1> HIDE DEF prefix
<1>4. /\ encode(body) \in Seq(Nat) /\ Len(encode(body)) = 2 + Len(body)
      /\ encode(body)[1] = prefix[1] /\ encode(body)[2] = prefix[2]
      /\ \A i \in 1..Len(body) : encode(body)[2 + i] = body[i]
  <2>1. /\ prefix \o body \in Seq(Nat) /\ Len(prefix \o body) = Len(prefix) + Len(body)
        /\ \A i \in 1..Len(prefix) : (prefix \o body)[i] = prefix[i]
        /\ \A i \in 1..Len(body) : (prefix \o body)[Len(prefix) + i] = body[i]
    BY <1>2, Joined
  <2> QED
    BY <1>2, <1>3, <2>1
<1> QED
  BY <1>1, <1>2, <1>4 DEF parse_len, LenPrefix

\* take_frame undoes encode, whatever follows the frame in the buffer: the body
\* is the one that was sent and the bytes after it stay (lib.rs:207-226).
THEOREM FrameRoundTrip ==
  ASSUME NEW body \in Seq(Nat), Len(body) <= MaxFrameLen,
         NEW rest \in Seq(Nat)
  PROVE  LET buf == encode(body) \o rest
         IN HasFrame(buf) /\ frame_body(buf) = body /\ frame_rest(buf) = rest
<1> DEFINE e == encode(body)
           buf == e \o rest
           n == Len(body)
<1>1. /\ e \in Seq(Nat) /\ n \in Nat /\ Len(e) = 2 + n
      /\ e[1] * Base + e[2] = n
      /\ \A i \in 1..n : e[2 + i] = body[i]
  BY EncodeShape DEF LenPrefix, parse_len
<1> HIDE DEF e
<1>2. /\ buf \in Seq(Nat) /\ Len(buf) = 2 + n + Len(rest)
      /\ \A i \in 1..(2 + n) : buf[i] = e[i]
      /\ \A i \in 1..Len(rest) : buf[2 + n + i] = rest[i]
  <2>1. /\ buf \in Seq(Nat) /\ Len(buf) = Len(e) + Len(rest)
        /\ \A i \in 1..Len(e) : buf[i] = e[i]
        /\ \A i \in 1..Len(rest) : buf[Len(e) + i] = rest[i]
    BY <1>1, Joined
  <2> QED
    BY <1>1, <2>1
<1> HIDE DEF buf
<1>3. parse_len(buf) = n
  BY <1>1, <1>2 DEF parse_len
<1>4. HasFrame(buf)
  BY <1>1, <1>2, <1>3 DEF HasFrame, LenPrefix
<1>5. frame_body(buf) = body
  <2>1. frame_body(buf) = SubSeq(buf, 3, 2 + n)
    BY <1>3 DEF frame_body, LenPrefix
  <2>2. /\ SubSeq(buf, 3, 2 + n) \in Seq(Nat) /\ Len(SubSeq(buf, 3, 2 + n)) = n
        /\ \A i \in 1..n : SubSeq(buf, 3, 2 + n)[i] = buf[2 + i]
    <3>1. 3 <= 2 + n + 1 /\ 2 + n <= Len(buf) /\ 2 + n - 3 + 1 = n /\ 2 + n \in Nat
      BY <1>1, <1>2, LenProperties
    <3>2. /\ SubSeq(buf, 3, 2 + n) \in Seq(Nat)
          /\ Len(SubSeq(buf, 3, 2 + n)) = 2 + n - 3 + 1
          /\ \A i \in 1..(2 + n - 3 + 1) : SubSeq(buf, 3, 2 + n)[i] = buf[3 + i - 1]
      BY <1>2, <3>1, Cut
    <3> DEFINE cut == SubSeq(buf, 3, 2 + n)
    <3> HIDE DEF cut
    <3>3. Len(cut) = n
      BY <3>1, <3>2 DEF cut
    <3>4. \A i \in 1..n : cut[i] = buf[3 + i - 1]
      BY <3>1, <3>2 DEF cut
    <3>5. \A i \in 1..n : 3 + i - 1 = 2 + i
      BY <1>1
    <3>6. \A i \in 1..n : cut[i] = buf[2 + i]
      BY <3>4, <3>5
    <3> QED
      BY <3>2, <3>3, <3>6 DEF cut
  <2>3. ASSUME NEW i \in 1..n
        PROVE  SubSeq(buf, 3, 2 + n)[i] = body[i]
    <3>1. 2 + i \in 1..(2 + n)
      BY <1>1
    <3> QED
      BY <1>1, <1>2, <2>2, <3>1
  <2> QED
    BY <2>1, <2>2, <2>3, SeqEqual
<1>6. frame_rest(buf) = rest
  <2>1. frame_rest(buf) = SubSeq(buf, 3 + n, Len(buf))
    BY <1>1, <1>3 DEF frame_rest, LenPrefix
  <2>2. /\ SubSeq(buf, 3 + n, Len(buf)) \in Seq(Nat)
        /\ Len(SubSeq(buf, 3 + n, Len(buf))) = Len(rest)
        /\ \A i \in 1..Len(rest) : SubSeq(buf, 3 + n, Len(buf))[i] = buf[2 + n + i]
    <3> DEFINE m == 3 + n
               l == Len(buf)
    <3>1. /\ m \in Nat \ {0} /\ l \in Nat /\ m <= l + 1 /\ l <= Len(buf)
          /\ l - m + 1 = Len(rest)
      BY <1>1, <1>2, LenProperties
    <3>2. /\ SubSeq(buf, m, l) \in Seq(Nat)
          /\ Len(SubSeq(buf, m, l)) = l - m + 1
          /\ \A i \in 1..(l - m + 1) : SubSeq(buf, m, l)[i] = buf[m + i - 1]
      BY <1>2, <3>1, Cut
    <3>3. \A i \in 1..Len(rest) : m + i - 1 = 2 + n + i
      BY <1>1
    <3> QED
      BY <3>1, <3>2, <3>3
  <2>3. \A i \in 1..Len(rest) : SubSeq(buf, 3 + n, Len(buf))[i] = rest[i]
    BY <1>1, <1>2, <2>2
  <2> QED
    BY <2>1, <2>2, <2>3, SeqEqual
<1> QED
  BY <1>4, <1>5, <1>6 DEF buf, e

\* A reader that has only part of a frame asks for more: it neither returns a
\* frame nor fails.
THEOREM PartialFrameWaits ==
  ASSUME NEW body \in Seq(Nat), Len(body) <= MaxFrameLen,
         NEW k \in 0..(Len(encode(body)) - 1)
  PROVE  LET buf == SubSeq(encode(body), 1, k)
         IN ~HasFrame(buf) /\ ~TooLarge(buf)
<1> DEFINE e == encode(body)
           buf == SubSeq(e, 1, k)
<1>1. /\ e \in Seq(Nat) /\ Len(body) \in Nat /\ Len(e) = 2 + Len(body)
      /\ e[1] * Base + e[2] = Len(body)
  BY EncodeShape DEF LenPrefix, parse_len
<1> HIDE DEF e
<1>2. k \in Nat /\ k < Len(e)
  BY <1>1 DEF e
<1>3. /\ Len(buf) = k
      /\ k >= 2 => buf[1] = e[1] /\ buf[2] = e[2]
  <2>1. /\ Len(SubSeq(e, 1, k)) = k - 1 + 1
        /\ \A i \in 1..(k - 1 + 1) : SubSeq(e, 1, k)[i] = e[1 + i - 1]
    BY <1>1, <1>2, Cut
  <2> QED
    BY <1>2, <2>1
<1> HIDE DEF buf
<1>4. k >= 2 => parse_len(buf) = Len(body)
  BY <1>1, <1>3 DEF parse_len
<1>5. MaxFrameLen \in Nat
  BY FramingAssumption
<1> QED
  <2>1. ~HasFrame(buf) /\ ~TooLarge(buf)
    BY <1>1, <1>2, <1>3, <1>4, <1>5 DEF HasFrame, TooLarge, LenPrefix
  <2> QED
    BY <2>1 DEF buf, e

-----------------------------------------------------------------------------
(* Bytes that are frames                                                   *)

\* After position a, as far as s goes: a frame whose body is the l bytes that
\* follow byte m.
FrameAt(s, a, l, m) ==
  /\ a + 1 <= Len(s) => s[a + 1] = l \div Base
  /\ a + 2 <= Len(s) => s[a + 2] = l % Base
  /\ \A j \in 1..l : a + 2 + j <= Len(s) => s[a + 2 + j] = m + j

\* s is made of K frames, the last of which may be incomplete: the k-th ends at
\* position cut[k] and with byte num[k].
Layout(s, n, K, cut, num) ==
  /\ K \in Nat /\ cut \in [0..K -> Nat] /\ num \in [0..K -> Nat]
  /\ cut[0] = 0 /\ num[0] = n
  /\ \A i, j \in 0..K : i <= j => cut[i] <= cut[j]
  /\ \A k \in 1..K : /\ num[k] - num[k - 1] \in 1..MaxFrameLen
                     /\ cut[k] = cut[k - 1] + 2 + (num[k] - num[k - 1])
                     /\ FrameAt(s, cut[k - 1], num[k] - num[k - 1], num[k - 1])
  /\ Len(s) <= cut[K]

\* s carries the bytes after n up to e; all of them, unless the connection was
\* lost.
Stream(s, n, e, gone) ==
  \E K, cut, num :
    Layout(s, n, K, cut, num) /\ num[K] = e /\ (gone = "no" => Len(s) = cut[K])

\* A frame depends on its own bytes only.
LEMMA FrameAgree ==
  ASSUME NEW s, NEW t, NEW a \in Nat, NEW l \in Nat, l >= 1, NEW m, FrameAt(s, a, l, m),
         \A i \in Nat : i >= 1 /\ i <= a + 2 + l /\ i <= Len(t) => i <= Len(s) /\ t[i] = s[i]
  PROVE  FrameAt(t, a, l, m)
<1>1. a + 1 \in Nat /\ a + 1 >= 1 /\ a + 1 <= a + 2 + l
  OBVIOUS
<1>2. a + 2 \in Nat /\ a + 2 >= 1 /\ a + 2 <= a + 2 + l
  OBVIOUS
<1>3. \A j \in 1..l : a + 2 + j \in Nat /\ a + 2 + j >= 1 /\ a + 2 + j <= a + 2 + l
  OBVIOUS
<1>4. a + 1 <= Len(t) => t[a + 1] = l \div Base
  <2> DEFINE q == l \div Base
  <2>1. a + 1 <= Len(s) => s[a + 1] = q
    BY DEF FrameAt
  <2> HIDE DEF q
  <2>2. a + 1 <= Len(t) => t[a + 1] = q
    BY <1>1, <2>1
  <2> QED
    BY <2>2 DEF q
<1>5. a + 2 <= Len(t) => t[a + 2] = l % Base
  <2> DEFINE q == l % Base
  <2>1. a + 2 <= Len(s) => s[a + 2] = q
    BY DEF FrameAt
  <2> HIDE DEF q
  <2>2. a + 2 <= Len(t) => t[a + 2] = q
    BY <1>2, <2>1
  <2> QED
    BY <2>2 DEF q
<1>6. \A j \in 1..l : a + 2 + j <= Len(t) => t[a + 2 + j] = m + j
  <2> SUFFICES ASSUME NEW j \in 1..l, a + 2 + j <= Len(t)
               PROVE  t[a + 2 + j] = m + j
    OBVIOUS
  <2>1. a + 2 + j <= Len(s) /\ t[a + 2 + j] = s[a + 2 + j]
    BY <1>3
  <2> QED
    BY <2>1 DEF FrameAt
<1> QED
  BY <1>4, <1>5, <1>6 DEF FrameAt

LEMMA StreamEmpty ==
  ASSUME NEW n \in Nat, NEW g
  PROVE  Stream(<<>>, n, n, g)
<1> DEFINE cut == [i \in 0..0 |-> 0]
           num == [i \in 0..0 |-> n]
<1>1. Layout(<<>>, n, 0, cut, num) /\ num[0] = n /\ Len(<<>>) = cut[0]
  BY DEF Layout
<1> HIDE DEF cut, num
<1> QED
  BY <1>1 DEF Stream

\* The connection is lost: what was not read is gone.
LEMMA StreamLost ==
  ASSUME NEW buf \in Seq(Nat), NEW w \in Seq(Nat), NEW n \in Nat, NEW e, NEW g,
         Stream(buf \o w, n, e, g)
  PROVE  Stream(buf \o <<>>, n, e, "yes")
<1>1. PICK K, cut, num :
        Layout(buf \o w, n, K, cut, num) /\ num[K] = e
  BY DEF Stream
<1> K \in Nat /\ cut \in [0..K -> Nat] /\ num \in [0..K -> Nat]
  BY <1>1 DEF Layout
<1>2. /\ Len(buf \o w) = Len(buf) + Len(w) /\ Len(buf) \in Nat /\ Len(w) \in Nat
      /\ \A i \in 1..Len(buf) : (buf \o w)[i] = buf[i]
  BY Joined
<1>3. buf \o <<>> = buf
  OBVIOUS
<1> DEFINE s == buf \o w
<1> HIDE DEF s
<1>4. \A k \in 1..K : FrameAt(buf, cut[k - 1], num[k] - num[k - 1], num[k - 1])
  <2> SUFFICES ASSUME NEW k \in 1..K
               PROVE  FrameAt(buf, cut[k - 1], num[k] - num[k - 1], num[k - 1])
    OBVIOUS
  <2>1. FrameAt(s, cut[k - 1], num[k] - num[k - 1], num[k - 1])
    BY <1>1 DEF Layout, s
  <2>2. cut[k - 1] \in Nat /\ num[k] - num[k - 1] \in Nat /\ num[k] - num[k - 1] >= 1
    <3>1. k - 1 \in 0..K
      OBVIOUS
    <3>2. num[k] - num[k - 1] \in 1..MaxFrameLen
      BY <1>1 DEF Layout
    <3>3. cut[k - 1] \in Nat
      BY <3>1
    <3> QED
      BY <3>2, <3>3, FramingAssumption
  <2>3. \A i \in Nat : i >= 1 /\ i <= Len(buf) => i <= Len(s) /\ buf[i] = s[i]
    BY <1>2 DEF s
  <2> DEFINE a == cut[k - 1]
             d == num[k] - num[k - 1]
  <2> HIDE DEF a, d
  <2>4. a \in Nat /\ d \in Nat /\ d >= 1 /\ FrameAt(s, a, d, num[k - 1])
    BY <2>1, <2>2 DEF a, d
  <2>5. FrameAt(buf, a, d, num[k - 1])
    BY <2>3, <2>4, FrameAgree
  <2> QED
    BY <2>5 DEF a, d
<1>5. Len(buf) <= cut[K]
  <2>1. cut[K] \in Nat
    OBVIOUS
  <2> QED
    BY <1>1, <1>2, <2>1 DEF Layout
<1>6. Layout(buf, n, K, cut, num)
  BY <1>1, <1>4, <1>5 DEF Layout
<1>7. Stream(buf, n, e, "yes")
  BY <1>1, <1>6 DEF Stream
<1> QED
  BY <1>3, <1>7

\* encode at the end of a stream goes on with it.
LEMMA StreamPush ==
  ASSUME NEW s \in Seq(Nat), NEW n \in Nat, NEW e, Stream(s, n, e, "no"),
         NEW body \in Seq(Nat), Len(body) \in 1..MaxFrameLen,
         \A j \in 1..Len(body) : body[j] = e + j
  PROVE  Stream(s \o encode(body), n, e + Len(body), "no")
<1>1. PICK K, cut, num :
        Layout(s, n, K, cut, num) /\ num[K] = e /\ Len(s) = cut[K]
  BY DEF Stream
<1> K \in Nat /\ cut \in [0..K -> Nat] /\ num \in [0..K -> Nat]
  BY <1>1 DEF Layout
<1> DEFINE c == encode(body)
           l == Len(body)
           t == s \o c
           cut2 == [i \in 0..(K + 1) |-> IF i <= K THEN cut[i] ELSE cut[K] + 2 + l]
           num2 == [i \in 0..(K + 1) |-> IF i <= K THEN num[i] ELSE e + l]
<1>0. l \in Nat /\ l \in 1..MaxFrameLen /\ MaxFrameLen \in Nat /\ e \in Nat /\ Len(s) \in Nat
  BY <1>1, FramingAssumption
<1>2. /\ c \in Seq(Nat) /\ Len(c) = 2 + l
      /\ c[1] = l \div Base /\ c[2] = l % Base
      /\ \A i \in 1..l : c[2 + i] = body[i]
  <2>1. /\ c \in Seq(Nat) /\ Len(c) = 2 + l /\ \A i \in 1..l : c[2 + i] = body[i]
    BY EncodeShape DEF LenPrefix
  <2>2. c[1] = l \div Base /\ c[2] = l % Base
    BY DEF encode
  <2> QED
    BY <2>1, <2>2
<1> HIDE DEF c, l
<1>3. /\ t \in Seq(Nat) /\ Len(t) = Len(s) + 2 + l
      /\ \A i \in 1..Len(s) : t[i] = s[i]
      /\ \A i \in 1..(2 + l) : t[Len(s) + i] = c[i]
  <2>1. /\ t \in Seq(Nat) /\ Len(t) = Len(s) + Len(c)
        /\ \A i \in 1..Len(s) : t[i] = s[i]
        /\ \A i \in 1..Len(c) : t[Len(s) + i] = c[i]
    BY <1>2, Joined
  <2> HIDE DEF t
  <2>2. Len(c) = 2 + l
    BY <1>2
  <2>3. Len(t) = Len(s) + 2 + l
    BY <1>0, <2>1, <2>2
  <2>4. \A i \in 1..(2 + l) : t[Len(s) + i] = c[i]
    BY <2>1, <2>2
  <2> QED
    BY <2>1, <2>3, <2>4
<1> HIDE DEF t
<1>4. /\ cut2 \in [0..(K + 1) -> Nat] /\ num2 \in [0..(K + 1) -> Nat]
      /\ cut2[0] = 0 /\ num2[0] = n
      /\ \A i \in 0..K : cut2[i] = cut[i] /\ num2[i] = num[i]
      /\ cut2[K + 1] = cut[K] + 2 + l /\ num2[K + 1] = e + l
  BY <1>0, <1>1 DEF Layout
<1> HIDE DEF cut2, num2
<1>5. \A i, j \in 0..(K + 1) : i <= j => cut2[i] <= cut2[j]
  <2> SUFFICES ASSUME NEW i \in 0..(K + 1), NEW j \in 0..(K + 1), i <= j
               PROVE  cut2[i] <= cut2[j]
    OBVIOUS
  <2>1. \A m \in 0..K : cut[m] <= cut[K] /\ cut[m] \in Nat
    <3>1. K \in 0..K
      OBVIOUS
    <3> QED
      BY <1>1, <3>1 DEF Layout
  <2>2. CASE j \in 0..K
    <3>1. i \in 0..K
      BY <2>2
    <3> QED
      BY <1>1, <1>4, <2>2, <3>1 DEF Layout
  <2>3. CASE j = K + 1 /\ i \in 0..K
    <3>1. cut2[i] = cut[i] /\ cut2[j] = cut[K] + 2 + l
      BY <1>4, <2>3
    <3>2. cut[i] \in Nat /\ cut[K] \in Nat /\ cut[i] <= cut[K]
      BY <2>1, <2>3
    <3>3. \A x, y \in Nat : x <= y => x <= y + 2 + l
      BY <1>0
    <3> QED
      BY <3>1, <3>2, <3>3
  <2>4. CASE j = K + 1 /\ i = K + 1
    BY <1>4, <2>4
  <2> QED
    BY <2>2, <2>3, <2>4
<1>6. ASSUME NEW k \in 1..K
      PROVE  /\ num2[k] - num2[k - 1] \in 1..MaxFrameLen
             /\ cut2[k] = cut2[k - 1] + 2 + (num2[k] - num2[k - 1])
             /\ FrameAt(t, cut2[k - 1], num2[k] - num2[k - 1], num2[k - 1])
  <2>1. k \in 0..K /\ k - 1 \in 0..K
    BY <1>6
  <2>2. cut2[k] = cut[k] /\ num2[k] = num[k] /\ cut2[k - 1] = cut[k - 1] /\ num2[k - 1] = num[k - 1]
    BY <1>4, <2>1
  <2>3. /\ num[k] - num[k - 1] \in 1..MaxFrameLen
        /\ cut[k] = cut[k - 1] + 2 + (num[k] - num[k - 1])
        /\ FrameAt(s, cut[k - 1], num[k] - num[k - 1], num[k - 1])
    BY <1>1, <1>6 DEF Layout
  <2>4. cut[k] <= Len(s) /\ cut[k - 1] \in Nat /\ cut[k] \in Nat
    <3>1. K \in 0..K /\ k <= K
      BY <1>6
    <3> QED
      BY <1>1, <2>1, <3>1 DEF Layout
  <2>5. \A i \in Nat : i >= 1 /\ i <= cut[k] => i <= Len(s) /\ t[i] = s[i]
    <3>1. \A i \in Nat : i >= 1 /\ i <= cut[k] => i \in 1..Len(s)
      BY <1>0, <2>4
    <3> QED
      BY <1>3, <3>1
  <2> DEFINE a == cut[k - 1]
             d == num[k] - num[k - 1]
  <2> HIDE DEF a, d
  <2>6. a \in Nat /\ d \in Nat /\ d >= 1 /\ cut[k] = a + 2 + d /\ FrameAt(s, a, d, num[k - 1])
    BY <2>3, <2>4, <1>0 DEF a, d
  <2>7. \A i \in Nat : i >= 1 /\ i <= a + 2 + d => i <= Len(s) /\ t[i] = s[i]
    BY <2>5, <2>6
  <2>8. FrameAt(t, a, d, num[k - 1])
    BY <2>6, <2>7, FrameAgree
  <2> QED
    BY <2>2, <2>3, <2>8 DEF a, d
<1>7. /\ num2[K + 1] - num2[K] = l
      /\ cut2[K + 1] = cut2[K] + 2 + l
      /\ FrameAt(t, cut2[K], l, num2[K])
  <2>1. cut2[K] = Len(s) /\ num2[K] = e
    BY <1>1, <1>4
  <2>2. FrameAt(t, Len(s), l, e)
    <3>1. t[Len(s) + 1] = l \div Base /\ t[Len(s) + 2] = l % Base
      <4>1. 1 \in 1..(2 + l) /\ 2 \in 1..(2 + l)
        BY <1>0
      <4> QED
        BY <1>2, <1>3, <4>1
    <3>2. ASSUME NEW j \in 1..l PROVE t[Len(s) + 2 + j] = e + j
      <4>1. 2 + j \in 1..(2 + l) /\ Len(s) + (2 + j) = Len(s) + 2 + j
        BY <1>0
      <4>2. body[j] = e + j
        BY DEF l
      <4> QED
        BY <1>2, <1>3, <4>1, <4>2
    <3> QED
      BY <3>1, <3>2 DEF FrameAt
  <2> QED
    BY <1>0, <1>1, <1>4, <2>1, <2>2
<1>8. \A k \in 1..(K + 1) :
        /\ num2[k] - num2[k - 1] \in 1..MaxFrameLen
        /\ cut2[k] = cut2[k - 1] + 2 + (num2[k] - num2[k - 1])
        /\ FrameAt(t, cut2[k - 1], num2[k] - num2[k - 1], num2[k - 1])
  <2> SUFFICES ASSUME NEW k \in 1..(K + 1)
               PROVE  /\ num2[k] - num2[k - 1] \in 1..MaxFrameLen
                      /\ cut2[k] = cut2[k - 1] + 2 + (num2[k] - num2[k - 1])
                      /\ FrameAt(t, cut2[k - 1], num2[k] - num2[k - 1], num2[k - 1])
    OBVIOUS
  <2>1. CASE k \in 1..K
    BY <1>6, <2>1
  <2>2. CASE k = K + 1
    <3>1. k - 1 = K
      BY <2>2
    <3> QED
      BY <1>0, <1>7, <2>2, <3>1
  <2> QED
    BY <2>1, <2>2
<1>9. Len(t) = cut2[K + 1]
  BY <1>0, <1>1, <1>3, <1>4
<1>10. Layout(t, n, K + 1, cut2, num2)
  <2>1. Len(t) <= cut2[K + 1]
    BY <1>9, <1>4
  <2>2. K + 1 \in Nat
    OBVIOUS
  <2> QED
    BY <1>4, <1>5, <1>8, <2>1, <2>2, Zenon DEF Layout
<1> QED
  BY <1>4, <1>9, <1>10 DEF Stream, t, l, c

\* What a reader can take from a stream is its next frame; what is left is the
\* stream after it.
LEMMA StreamTake ==
  ASSUME NEW buf \in Seq(Nat), NEW w \in Seq(Nat), NEW n \in Nat, NEW e, NEW g,
         Stream(buf \o w, n, e, g), HasFrame(buf)
  PROVE  /\ frame_body(buf) \in Seq(Nat) /\ frame_rest(buf) \in Seq(Nat)
         /\ Len(frame_body(buf)) \in 1..MaxFrameLen
         /\ \A j \in 1..Len(frame_body(buf)) : frame_body(buf)[j] = n + j
         /\ Stream(frame_rest(buf) \o w, n + Len(frame_body(buf)), e, g)
<1> DEFINE s == buf \o w
<1>1. PICK K, cut, num :
        Layout(s, n, K, cut, num) /\ num[K] = e /\ (g = "no" => Len(s) = cut[K])
  BY DEF Stream
<1> K \in Nat /\ cut \in [0..K -> Nat] /\ num \in [0..K -> Nat]
  BY <1>1 DEF Layout
<1>2. /\ s \in Seq(Nat) /\ Len(s) = Len(buf) + Len(w) /\ Len(buf) \in Nat /\ Len(w) \in Nat
  BY Joined
<1>0. /\ \A i \in 1..Len(buf) : s[i] = buf[i]
      /\ \A i \in 1..Len(w) : s[Len(buf) + i] = w[i]
  BY Joined
<1> HIDE DEF s
<1>3. Len(buf) >= 2
  BY DEF HasFrame, LenPrefix
<1>4. K >= 1
  <2>1. Len(s) <= cut[K] /\ cut[0] = 0
    BY <1>1 DEF Layout
  <2>2. CASE K = 0
    BY <1>2, <1>3, <2>1, <2>2
  <2> QED
    BY <2>2
<1> DEFINE l == num[1] - num[0]
<1>5a. /\ l \in 1..MaxFrameLen /\ cut[1] = 2 + l /\ num[1] = n + l /\ FrameAt(s, 0, l, n)
       /\ l \in Nat /\ l >= 1
  <2>1. 1 \in 1..K /\ 1 - 1 = 0 /\ 1 \in 0..K /\ 0 \in 0..K
    BY <1>4
  <2>2. /\ l \in 1..MaxFrameLen /\ cut[1] = cut[0] + 2 + l /\ FrameAt(s, cut[0], l, num[0])
        /\ cut[0] = 0 /\ num[0] = n
    BY <1>1, <2>1 DEF Layout
  <2>3. cut[1] \in Nat /\ num[1] \in Nat /\ MaxFrameLen \in Nat
    BY <2>1, FramingAssumption
  <2>4. num[1] = n + l
    BY <2>2, <2>3
  <2> HIDE DEF l
  <2>5. l \in Nat /\ l >= 1 /\ cut[1] = 2 + l
    BY <2>2, <2>3
  <2> QED
    BY <2>2, <2>4, <2>5
<1> HIDE DEF l
<1>5. l \in Nat /\ l >= 1 /\ l \in 1..MaxFrameLen /\ cut[1] = 2 + l /\ num[1] = n + l
  BY <1>5a
<1>6. parse_len(buf) = l
  <2>1. s[1] = l \div Base /\ s[2] = l % Base
    <3>1. 0 + 1 = 1 /\ 0 + 2 = 2 /\ 1 <= Len(s) /\ 2 <= Len(s)
      BY ONLY <1>2, <1>3
    <3>2. FrameAt(s, 0, l, n)
      BY <1>5a
    <3>3. /\ 0 + 1 <= Len(s) => s[0 + 1] = l \div Base
          /\ 0 + 2 <= Len(s) => s[0 + 2] = l % Base
      BY ONLY <3>2, Zenon DEF FrameAt
    <3> QED
      BY ONLY <3>1, <3>3, Zenon
  <2>2. buf[1] = s[1] /\ buf[2] = s[2]
    BY <1>0, <1>2, <1>3
  <2>3. (l \div Base) * Base + (l % Base) = l
    BY <1>5, Digits, FramingAssumption
  <2> QED
    BY <2>1, <2>2, <2>3 DEF parse_len
<1>7. Len(buf) >= 2 + l
  BY <1>6 DEF HasFrame, LenPrefix
<1> DEFINE body == SubSeq(buf, 3, 2 + l)
           rest == SubSeq(buf, 3 + l, Len(buf))
<1>8. frame_body(buf) = body /\ frame_rest(buf) = rest
  <2>1. LenPrefix + l + 1 = 3 + l /\ LenPrefix + 1 = 3 /\ LenPrefix + l = 2 + l
    BY <1>5 DEF LenPrefix
  <2> QED
    BY <1>6, <2>1 DEF frame_body, frame_rest
<1>9. /\ body \in Seq(Nat) /\ Len(body) = l /\ \A j \in 1..l : body[j] = n + j
  <2>1. 3 <= (2 + l) + 1 /\ 2 + l <= Len(buf) /\ (2 + l) - 3 + 1 = l /\ 2 + l \in Nat
    BY <1>2, <1>5, <1>7
  <2>2. /\ body \in Seq(Nat) /\ Len(body) = (2 + l) - 3 + 1
        /\ \A j \in 1..((2 + l) - 3 + 1) : body[j] = buf[3 + j - 1]
    BY <2>1, Cut, 3 \in Nat \ {0}
  <2> HIDE DEF body
  <2>3. Len(body) = l /\ \A j \in 1..l : body[j] = buf[3 + j - 1]
    BY <2>1, <2>2
  <2>4. ASSUME NEW j \in 1..l PROVE body[j] = n + j
    <3>0. j \in Nat /\ j >= 1 /\ j <= l
      BY <1>5
    <3>1. 3 + j - 1 = 0 + 2 + j /\ 0 + 2 + j \in 1..Len(buf) /\ 0 + 2 + j <= Len(s)
      <4>1. 3 + j - 1 = 2 + j /\ 0 + 2 + j = 2 + j /\ 2 + j <= 2 + l /\ 2 + j \in Nat /\ 2 + j >= 1
        BY <1>5, <3>0
      <4> DEFINE x == Len(buf)
                 y == Len(s)
      <4>2. x \in Nat /\ y \in Nat /\ x <= y /\ 2 + l <= x
        BY <1>2, <1>7
      <4> HIDE DEF x, y
      <4>3. 2 + j <= x /\ 2 + j <= y
        BY <1>5, <3>0, <4>1, <4>2
      <4> QED
        BY <4>1, <4>2, <4>3 DEF x, y
    <3>2. s[0 + 2 + j] = n + j
      BY <1>5a, <3>1 DEF FrameAt
    <3> QED
      BY <1>0, <2>3, <3>1, <3>2
  <2> QED
    BY <2>2, <2>3, <2>4
<1>10. /\ rest \in Seq(Nat) /\ Len(rest) = Len(buf) - (2 + l)
       /\ \A i \in 1..Len(rest) : rest[i] = buf[(2 + l) + i]
  <2>1. /\ 3 + l \in Nat \ {0} /\ 3 + l <= Len(buf) + 1
        /\ Len(buf) - (3 + l) + 1 = Len(buf) - (2 + l)
    <3> DEFINE x == Len(buf)
    <3>1. x \in Nat /\ 2 + l <= x
      BY <1>2, <1>7
    <3> HIDE DEF x
    <3>2. 3 + l \in Nat \ {0} /\ 3 + l <= x + 1 /\ x - (3 + l) + 1 = x - (2 + l)
      BY <1>5, <3>1
    <3> QED
      BY <3>2 DEF x
  <2>2. /\ rest \in Seq(Nat) /\ Len(rest) = Len(buf) - (3 + l) + 1
        /\ \A i \in 1..(Len(buf) - (3 + l) + 1) : rest[i] = buf[(3 + l) + i - 1]
    <3> DEFINE m == 3 + l
               k == Len(buf)
    <3>1. m \in Nat \ {0} /\ k \in Nat /\ m <= k + 1 /\ k <= Len(buf)
      BY <1>2, <2>1
    <3> HIDE DEF m, k
    <3>2. /\ SubSeq(buf, m, k) \in Seq(Nat)
          /\ Len(SubSeq(buf, m, k)) = k - m + 1
          /\ \A i \in 1..(k - m + 1) : SubSeq(buf, m, k)[i] = buf[m + i - 1]
      BY <3>1, Cut
    <3> QED
      BY <3>2 DEF m, k
  <2> HIDE DEF rest
  <2>3. \A i \in 1..Len(rest) : rest[i] = buf[(3 + l) + i - 1]
    BY <2>2
  <2>4. \A i \in 1..Len(rest) : (3 + l) + i - 1 = (2 + l) + i
    BY <1>5
  <2>5. \A i \in 1..Len(rest) : rest[i] = buf[(2 + l) + i]
    BY <2>3, <2>4
  <2> QED
    BY <2>1, <2>2, <2>5
<1> HIDE DEF body, rest
<1> DEFINE t == rest \o w
<1>11. /\ t \in Seq(Nat) /\ Len(t) = Len(s) - (2 + l)
       /\ \A i \in 1..Len(t) : t[i] = s[(2 + l) + i]
  <2>1. /\ t \in Seq(Nat) /\ Len(t) = Len(rest) + Len(w) /\ Len(rest) \in Nat
        /\ \A i \in 1..Len(rest) : t[i] = rest[i]
        /\ \A i \in 1..Len(w) : t[Len(rest) + i] = w[i]
    BY <1>10, Joined
  <2> HIDE DEF t
  <2>2. Len(t) = Len(s) - (2 + l)
    BY <1>2, <1>5, <1>10, <2>1
  <2>3. ASSUME NEW i \in 1..Len(t) PROVE t[i] = s[(2 + l) + i]
    <3>1. CASE i <= Len(rest)
      <4>1. i \in 1..Len(rest) /\ (2 + l) + i \in 1..Len(buf)
        BY <1>2, <1>5, <1>7, <1>10, <2>1, <3>1
      <4> QED
        BY <1>0, <1>10, <2>1, <4>1
    <3>2. CASE i > Len(rest)
      <4>1. /\ i - Len(rest) \in 1..Len(w) /\ Len(rest) + (i - Len(rest)) = i
            /\ Len(buf) + (i - Len(rest)) = (2 + l) + i
        BY <1>2, <1>5, <1>10, <2>1, <3>2
      <4>2. w[i - Len(rest)] = t[i] /\ w[i - Len(rest)] = s[(2 + l) + i]
        BY <1>0, <2>1, <4>1
      <4> QED
        BY <4>2
    <3> QED
      BY <2>1, <3>1, <3>2
  <2> QED
    BY <2>1, <2>2, <2>3
<1> HIDE DEF t
<1> DEFINE cut2 == [i \in 0..(K - 1) |-> cut[i + 1] - (2 + l)]
           num2 == [i \in 0..(K - 1) |-> num[i + 1]]
<1>12. \A i \in 0..(K - 1) : /\ cut2[i] = cut[i + 1] - (2 + l) /\ num2[i] = num[i + 1]
                             /\ i + 1 \in 1..K /\ i + 1 \in 0..K
                             /\ cut[i + 1] \in Nat /\ cut[i + 1] >= 2 + l /\ cut2[i] \in Nat
  <2> SUFFICES ASSUME NEW i \in 0..(K - 1)
               PROVE  /\ cut2[i] = cut[i + 1] - (2 + l) /\ num2[i] = num[i + 1]
                      /\ i + 1 \in 1..K /\ i + 1 \in 0..K
                      /\ cut[i + 1] \in Nat /\ cut[i + 1] >= 2 + l /\ cut2[i] \in Nat
    OBVIOUS
  <2>1. i + 1 \in 1..K /\ i + 1 \in 0..K /\ 1 \in 0..K /\ 1 <= i + 1
    BY <1>4
  <2>2. cut[i + 1] \in Nat /\ cut[1] <= cut[i + 1]
    BY <1>1, <2>1 DEF Layout
  <2>3. cut2[i] = cut[i + 1] - (2 + l) /\ num2[i] = num[i + 1]
    OBVIOUS
  <2> HIDE DEF cut2, num2
  <2>4. cut[i + 1] >= 2 + l /\ cut2[i] \in Nat
    <3> DEFINE x == cut[i + 1]
    <3>1. x \in Nat /\ 2 + l <= x /\ cut2[i] = x - (2 + l)
      BY <1>5, <2>2, <2>3
    <3> HIDE DEF x
    <3>2. x >= 2 + l /\ x - (2 + l) \in Nat
      BY <1>5, <3>1
    <3> QED
      BY <3>1, <3>2 DEF x
  <2> QED
    BY <2>1, <2>2, <2>3, <2>4
<1>13. cut2 \in [0..(K - 1) -> Nat] /\ num2 \in [0..(K - 1) -> Nat]
  <2>1. \A i \in 0..(K - 1) : num[i + 1] \in Nat /\ cut[i + 1] - (2 + l) \in Nat
    BY <1>12
  <2> QED
    BY <2>1
<1> HIDE DEF cut2, num2
<1>14. cut2[0] = 0 /\ num2[0] = n + l
  <2>1. 0 \in 0..(K - 1) /\ 0 + 1 = 1
    BY <1>4
  <2> QED
    BY <1>5, <1>12, <2>1
<1>15. \A i, j \in 0..(K - 1) : i <= j => cut2[i] <= cut2[j]
  <2> SUFFICES ASSUME NEW i \in 0..(K - 1), NEW j \in 0..(K - 1), i <= j
               PROVE  cut2[i] <= cut2[j]
    OBVIOUS
  <2>1. cut[i + 1] <= cut[j + 1]
    BY <1>1, <1>12 DEF Layout
  <2>2. /\ cut2[i] = cut[i + 1] - (2 + l) /\ cut2[j] = cut[j + 1] - (2 + l)
        /\ cut[i + 1] \in Nat /\ cut[j + 1] \in Nat
    BY <1>12
  <2>3. \A x, y \in Nat : x <= y => x - (2 + l) <= y - (2 + l)
    BY <1>5
  <2> QED
    BY <2>1, <2>2, <2>3
<1>16. ASSUME NEW k \in 1..(K - 1)
       PROVE  /\ num2[k] - num2[k - 1] \in 1..MaxFrameLen
              /\ cut2[k] = cut2[k - 1] + 2 + (num2[k] - num2[k - 1])
              /\ FrameAt(t, cut2[k - 1], num2[k] - num2[k - 1], num2[k - 1])
  <2>1. k \in 0..(K - 1) /\ k - 1 \in 0..(K - 1) /\ k - 1 + 1 = k /\ k + 1 \in 1..K
        /\ k + 1 - 1 = k
    BY <1>16
  <2> DEFINE d == num[k + 1] - num[k]
             a == cut[k]
  <2>2. d \in 1..MaxFrameLen /\ cut[k + 1] = a + 2 + d /\ FrameAt(s, a, d, num[k])
    <3>1. /\ num[k + 1] - num[k + 1 - 1] \in 1..MaxFrameLen
          /\ cut[k + 1] = cut[k + 1 - 1] + 2 + (num[k + 1] - num[k + 1 - 1])
          /\ FrameAt(s, cut[k + 1 - 1], num[k + 1] - num[k + 1 - 1], num[k + 1 - 1])
      <4> DEFINE i == k + 1
      <4>1. i \in 1..K
        BY <2>1
      <4> HIDE DEF i
      <4>2. /\ num[i] - num[i - 1] \in 1..MaxFrameLen
            /\ cut[i] = cut[i - 1] + 2 + (num[i] - num[i - 1])
            /\ FrameAt(s, cut[i - 1], num[i] - num[i - 1], num[i - 1])
        BY <1>1, <4>1 DEF Layout
      <4> QED
        BY <4>2 DEF i
    <3> QED
      BY <2>1, <3>1
  <2>3. /\ cut2[k] = cut[k + 1] - (2 + l) /\ num2[k] = num[k + 1]
        /\ cut2[k - 1] = a - (2 + l) /\ num2[k - 1] = num[k] /\ a \in Nat /\ a >= 2 + l
        /\ cut[k + 1] \in Nat
    BY <1>12, <2>1
  <2>4. d \in Nat /\ d >= 1 /\ num2[k] - num2[k - 1] = d
    BY <2>2, <2>3, FramingAssumption
  <2> HIDE DEF d, a
  <2> DEFINE b == cut2[k - 1]
  <2>5. b \in Nat /\ a = (2 + l) + b
    BY <1>5, <2>3
  <2> HIDE DEF b
  <2>6. cut2[k] = b + 2 + d
    BY <1>5, <2>2, <2>3, <2>4, <2>5
  <2>7. FrameAt(t, b, d, num[k])
    <3>0. \A i \in Nat : i >= 1 /\ i <= Len(t) => (2 + l) + i <= Len(s) /\ t[i] = s[(2 + l) + i]
      <4> SUFFICES ASSUME NEW i \in Nat, i >= 1, i <= Len(t)
                   PROVE  (2 + l) + i <= Len(s) /\ t[i] = s[(2 + l) + i]
        OBVIOUS
      <4>1. Len(t) \in Nat /\ Len(s) \in Nat /\ Len(t) = Len(s) - (2 + l)
        BY <1>2, <1>11
      <4>2. i \in 1..Len(t)
        BY <4>1
      <4>3. (2 + l) + i <= Len(s)
        BY <1>5, <4>1
      <4> QED
        BY <1>11, <4>2, <4>3
    <3>1. b + 1 <= Len(t) => t[b + 1] = d \div Base
      <4> SUFFICES ASSUME b + 1 <= Len(t) PROVE t[b + 1] = d \div Base
        OBVIOUS
      <4>1. b + 1 \in Nat /\ b + 1 >= 1 /\ (2 + l) + (b + 1) = a + 1
        BY <1>5, <2>5
      <4>2. a + 1 <= Len(s) /\ t[b + 1] = s[a + 1]
        BY <3>0, <4>1
      <4> QED
        BY <2>2, <4>2 DEF FrameAt
    <3>2. b + 2 <= Len(t) => t[b + 2] = d % Base
      <4> SUFFICES ASSUME b + 2 <= Len(t) PROVE t[b + 2] = d % Base
        OBVIOUS
      <4>1. b + 2 \in Nat /\ b + 2 >= 1 /\ (2 + l) + (b + 2) = a + 2
        BY <1>5, <2>5
      <4>2. a + 2 <= Len(s) /\ t[b + 2] = s[a + 2]
        BY <3>0, <4>1
      <4> QED
        BY <2>2, <4>2 DEF FrameAt
    <3>3. \A j \in 1..d : b + 2 + j <= Len(t) => t[b + 2 + j] = num[k] + j
      <4> SUFFICES ASSUME NEW j \in 1..d, b + 2 + j <= Len(t)
                   PROVE  t[b + 2 + j] = num[k] + j
        OBVIOUS
      <4>1. b + 2 + j \in Nat /\ b + 2 + j >= 1 /\ (2 + l) + (b + 2 + j) = a + 2 + j
        BY <1>5, <2>4, <2>5
      <4>2. a + 2 + j <= Len(s) /\ t[b + 2 + j] = s[a + 2 + j]
        BY <3>0, <4>1
      <4> QED
        BY <2>2, <4>2 DEF FrameAt
    <3> QED
      BY <3>1, <3>2, <3>3 DEF FrameAt
  <2> QED
    BY <2>2, <2>3, <2>4, <2>6, <2>7 DEF b
<1>17. Len(t) <= cut2[K - 1] /\ num2[K - 1] = e /\ (g = "no" => Len(t) = cut2[K - 1])
  <2>1. K - 1 \in 0..(K - 1) /\ K - 1 + 1 = K
    BY <1>4
  <2>2. cut2[K - 1] = cut[K] - (2 + l) /\ num2[K - 1] = num[K] /\ cut[K] \in Nat
    BY <1>12, <2>1
  <2>3. Len(s) <= cut[K]
    BY <1>1 DEF Layout
  <2>4. Len(s) \in Nat /\ Len(t) = Len(s) - (2 + l)
    BY <1>2, <1>11
  <2>5. Len(t) <= cut2[K - 1]
    BY <1>5, <2>2, <2>3, <2>4
  <2>6. g = "no" => Len(t) = cut2[K - 1]
    BY <1>1, <2>2, <2>4
  <2> QED
    BY <1>1, <2>2, <2>5, <2>6
<1>18. Layout(t, n + l, K - 1, cut2, num2)
  <2>1. K - 1 \in Nat
    BY <1>4
  <2> QED
    BY <1>13, <1>14, <1>15, <1>16, <1>17, <2>1, Zenon DEF Layout
<1>19. Stream(t, n + l, e, g)
  BY <1>17, <1>18 DEF Stream
<1> QED
  BY <1>5, <1>8, <1>9, <1>10, <1>19 DEF t

\* A stream never names a length above the cap; and a reader that has the whole
\* stream in its buffer, and no frame, has read everything.
LEMMA StreamHead ==
  ASSUME NEW buf \in Seq(Nat), NEW w \in Seq(Nat), NEW n \in Nat, NEW e, NEW g,
         Stream(buf \o w, n, e, g)
  PROVE  /\ ~TooLarge(buf)
         /\ g = "no" /\ w = <<>> /\ ~HasFrame(buf) => buf = <<>> /\ e = n
<1> DEFINE s == buf \o w
<1>1. PICK K, cut, num :
        Layout(s, n, K, cut, num) /\ num[K] = e /\ (g = "no" => Len(s) = cut[K])
  BY DEF Stream
<1> K \in Nat /\ cut \in [0..K -> Nat] /\ num \in [0..K -> Nat]
  BY <1>1 DEF Layout
<1>2. /\ s \in Seq(Nat) /\ Len(s) = Len(buf) + Len(w) /\ Len(buf) \in Nat /\ Len(w) \in Nat
      /\ \A i \in 1..Len(buf) : s[i] = buf[i]
  BY Joined
<1> HIDE DEF s
<1>3. cut[0] = 0 /\ num[0] = n /\ Len(s) <= cut[K]
  BY <1>1 DEF Layout
<1>4. CASE K = 0
  <2>1. Len(buf) = 0
    BY <1>2, <1>3, <1>4
  <2>2. buf = <<>>
    BY <2>1
  <2> QED
    BY <1>1, <1>3, <1>4, <2>1, <2>2 DEF TooLarge, LenPrefix
<1>5. CASE K >= 1
  <2> DEFINE l == num[1] - num[0]
  <2>1. /\ l \in 1..MaxFrameLen /\ cut[1] = 2 + l /\ FrameAt(s, 0, l, n) /\ cut[1] <= cut[K]
        /\ l \in Nat
    <3>1. 1 \in 1..K /\ 1 - 1 = 0 /\ 1 \in 0..K /\ 0 \in 0..K /\ K \in 0..K /\ 1 <= K
      BY <1>5
    <3>2. /\ l \in 1..MaxFrameLen /\ cut[1] = cut[0] + 2 + l /\ FrameAt(s, cut[0], l, num[0])
          /\ cut[1] <= cut[K]
      BY <1>1, <3>1 DEF Layout
    <3>3. MaxFrameLen \in Nat
      BY FramingAssumption
    <3> QED
      BY <1>3, <3>2, <3>3
  <2>2. Len(buf) >= 2 => parse_len(buf) = l
    <3> SUFFICES ASSUME Len(buf) >= 2 PROVE parse_len(buf) = l
      OBVIOUS
    <3>1. s[1] = l \div Base /\ s[2] = l % Base
      BY <1>2, <2>1 DEF FrameAt
    <3>2. buf[1] = s[1] /\ buf[2] = s[2]
      BY <1>2
    <3>3. (l \div Base) * Base + (l % Base) = l
      BY <2>1, Digits, FramingAssumption
    <3> QED
      BY <3>1, <3>2, <3>3 DEF parse_len
  <2> HIDE DEF l
  <2>3. ~TooLarge(buf)
    BY <1>2, <2>1, <2>2, FramingAssumption DEF TooLarge, LenPrefix
  <2>4. ASSUME g = "no", w = <<>> PROVE HasFrame(buf)
    <3>1. Len(buf) = cut[K] /\ cut[K] \in Nat
      BY <1>1, <1>2, <2>4
    <3>2. Len(buf) >= 2 + l /\ Len(buf) >= 2
      BY <2>1, <3>1
    <3>3. parse_len(buf) = l /\ l <= MaxFrameLen
      BY <2>1, <2>2, <3>2, FramingAssumption
    <3> QED
      BY <3>2, <3>3 DEF HasFrame, LenPrefix
  <2> QED
    BY <2>3, <2>4
<1> QED
  BY <1>4, <1>5

LEMMA StreamNat ==
  ASSUME NEW s, NEW n, NEW e, NEW g, Stream(s, n, e, g)
  PROVE  e \in Nat
<1>1. PICK K, cut, num : Layout(s, n, K, cut, num) /\ num[K] = e
  BY DEF Stream
<1>2. K \in Nat /\ num \in [0..K -> Nat]
  BY <1>1 DEF Layout
<1>3. K \in 0..K
  BY <1>2
<1> QED
  BY <1>1, <1>2, <1>3

-----------------------------------------------------------------------------
(* Queues of bodies                                                        *)

\* d is the bytes that follow byte n.
Numbered(d, n) == \A j \in 1..Len(d) : d[j] = n + j

\* The bodies in q are the bytes after n up to e; the k-th ends with byte at[k].
Chain(q, at, n, e) ==
  /\ at \in [0..Len(q) -> Nat] /\ at[0] = n /\ at[Len(q)] = e
  /\ \A k \in 1..Len(q) : /\ Len(q[k]) \in 1..MaxFrameLen
                          /\ at[k] = at[k - 1] + Len(q[k])
                          /\ Numbered(q[k], at[k - 1])

Queued(q, n, e) == \E at : Chain(q, at, n, e)

LEMMA QueuedEmpty ==
  ASSUME NEW n \in Nat
  PROVE  Queued(<<>>, n, n) /\ \A e : Queued(<<>>, n, e) => e = n
<1> DEFINE at == [i \in 0..0 |-> n]
<1>1. Chain(<<>>, at, n, n)
  BY DEF Chain
<1> HIDE DEF at
<1>2. Queued(<<>>, n, n)
  BY <1>1 DEF Queued
<1>3. \A e : Queued(<<>>, n, e) => e = n
  BY DEF Queued, Chain
<1> QED
  BY <1>2, <1>3

LEMMA QueuedAppend ==
  ASSUME NEW q \in Seq(Seq(Nat)), NEW n, NEW e \in Nat, Queued(q, n, e),
         NEW d \in Seq(Nat), Len(d) \in 1..MaxFrameLen, Numbered(d, e)
  PROVE  Queued(Append(q, d), n, e + Len(d))
<1>1. PICK at : Chain(q, at, n, e)
  BY DEF Queued
<1> DEFINE r == Append(q, d)
           m == Len(q)
           at2 == [i \in 0..(m + 1) |-> IF i <= m THEN at[i] ELSE e + Len(d)]
<1>2. m \in Nat /\ at \in [0..m -> Nat] /\ at[0] = n /\ at[m] = e /\ Len(d) \in Nat
  BY <1>1 DEF Chain
<1>3. Len(r) = m + 1 /\ r[m + 1] = d /\ \A k \in 1..m : r[k] = q[k]
  BY <1>2
<1> HIDE DEF r
<1>4. \A k \in 1..m : /\ Len(q[k]) \in 1..MaxFrameLen
                      /\ at[k] = at[k - 1] + Len(q[k])
                      /\ Numbered(q[k], at[k - 1])
  BY <1>1 DEF Chain
<1> HIDE DEF m
<1>5. /\ at2 \in [0..(m + 1) -> Nat] /\ at2[m + 1] = e + Len(d)
      /\ \A i \in 0..m : at2[i] = at[i]
  BY <1>2
<1> HIDE DEF at2
<1>6. at2[0] = n
  BY <1>2, <1>5
<1>7. ASSUME NEW k \in 1..(m + 1)
      PROVE  Len(r[k]) \in 1..MaxFrameLen /\ at2[k] = at2[k - 1] + Len(r[k]) /\ Numbered(r[k], at2[k - 1])
  <2>1. CASE k \in 1..m
    <3>1. k \in 0..m /\ k - 1 \in 0..m
      BY <1>2, <2>1
    <3>2. r[k] = q[k] /\ at2[k] = at[k] /\ at2[k - 1] = at[k - 1]
      BY <1>3, <1>5, <2>1, <3>1
    <3> QED
      BY <1>4, <2>1, <3>2
  <2>2. CASE k = m + 1
    <3>1. k - 1 = m /\ m \in 0..m
      BY <1>2, <2>2
    <3>2. r[k] = d /\ at2[k] = e + Len(d) /\ at2[k - 1] = e
      BY <1>2, <1>3, <1>5, <2>2, <3>1
    <3> QED
      BY <3>2
  <2> QED
    BY <1>2, <2>1, <2>2
<1>8. Chain(r, at2, n, e + Len(d))
  BY <1>3, <1>5, <1>6, <1>7, Zenon DEF Chain
<1> QED
  BY <1>8 DEF Queued, r

LEMMA QueuedHead ==
  ASSUME NEW q \in Seq(Seq(Nat)), q # <<>>, NEW n \in Nat, NEW e, Queued(q, n, e)
  PROVE  /\ Head(q) \in Seq(Nat) /\ Len(Head(q)) \in 1..MaxFrameLen /\ Numbered(Head(q), n)
         /\ Tail(q) \in Seq(Seq(Nat)) /\ Queued(Tail(q), n + Len(Head(q)), e)
<1>1. PICK at : Chain(q, at, n, e)
  BY DEF Queued
<1> DEFINE r == Tail(q)
           m == Len(q)
           at2 == [i \in 0..(m - 1) |-> at[i + 1]]
<1>2. /\ m \in Nat /\ m >= 1 /\ at \in [0..m -> Nat] /\ at[0] = n /\ at[m] = e
  BY <1>1 DEF Chain
<1>3. /\ Len(r) = m - 1 /\ r \in Seq(Seq(Nat)) /\ Head(q) = q[1] /\ q[1] \in Seq(Nat)
      /\ \A k \in 1..(m - 1) : r[k] = q[k + 1]
  BY <1>2
<1> HIDE DEF r
<1>4. \A k \in 1..m : /\ Len(q[k]) \in 1..MaxFrameLen
                      /\ at[k] = at[k - 1] + Len(q[k])
                      /\ Numbered(q[k], at[k - 1])
  BY <1>1 DEF Chain
<1> HIDE DEF m
<1>5. \A i \in 0..(m - 1) : i + 1 \in 0..m /\ at2[i] = at[i + 1]
  BY <1>2
<1>6. at2 \in [0..(m - 1) -> Nat]
  <2>1. \A i \in 0..(m - 1) : at[i + 1] \in Nat
    BY <1>2, <1>5
  <2> QED
    BY <2>1
<1> HIDE DEF at2
<1>7. /\ Len(q[1]) \in 1..MaxFrameLen /\ at[1] = n + Len(q[1]) /\ Numbered(q[1], n)
  <2>1. 1 \in 1..m /\ 1 - 1 = 0
    BY <1>2
  <2> QED
    BY <1>2, <1>4, <2>1
<1>8. at2[0] = n + Len(q[1]) /\ at2[m - 1] = e
  <2>1. 0 \in 0..(m - 1) /\ m - 1 \in 0..(m - 1) /\ 0 + 1 = 1 /\ m - 1 + 1 = m
    BY <1>2
  <2> QED
    BY <1>2, <1>5, <1>7, <2>1
<1>9. ASSUME NEW k \in 1..(m - 1)
      PROVE  Len(r[k]) \in 1..MaxFrameLen /\ at2[k] = at2[k - 1] + Len(r[k]) /\ Numbered(r[k], at2[k - 1])
  <2>1. k \in 0..(m - 1) /\ k - 1 \in 0..(m - 1) /\ k - 1 + 1 = k /\ k + 1 \in 1..m /\ k + 1 - 1 = k
    BY <1>2
  <2>2. r[k] = q[k + 1] /\ at2[k] = at[k + 1] /\ at2[k - 1] = at[k]
    BY <1>3, <1>5, <2>1
  <2>3. /\ Len(q[k + 1]) \in 1..MaxFrameLen
        /\ at[k + 1] = at[k + 1 - 1] + Len(q[k + 1])
        /\ Numbered(q[k + 1], at[k + 1 - 1])
    BY <1>4, <2>1
  <2> QED
    BY <2>1, <2>2, <2>3
<1>10. Chain(r, at2, n + Len(q[1]), e)
  BY <1>3, <1>6, <1>8, <1>9, Zenon DEF Chain
<1> QED
  BY <1>3, <1>7, <1>10 DEF Queued, r

\* The front of a queue is a queue.
LEMMA QueuedFront ==
  ASSUME NEW q \in Seq(Seq(Nat)), NEW n, NEW e, Queued(q, n, e), NEW m \in 0..Len(q)
  PROVE  /\ SubSeq(q, 1, m) \in Seq(Seq(Nat))
         /\ \E f \in Nat : Queued(SubSeq(q, 1, m), n, f)
<1>1. PICK at : Chain(q, at, n, e)
  BY DEF Queued
<1> DEFINE r == SubSeq(q, 1, m)
           at2 == [i \in 0..m |-> at[i]]
<1>0. m \in Nat /\ Len(q) \in Nat /\ m <= Len(q)
  OBVIOUS
<1>2. /\ r \in Seq(Seq(Nat)) /\ Len(r) = m /\ \A k \in 1..m : r[k] = q[k]
  BY <1>0
<1> HIDE DEF r
<1>3. at \in [0..Len(q) -> Nat] /\ at[0] = n
  BY <1>1 DEF Chain
<1>4. \A i \in 0..m : at2[i] = at[i] /\ at[i] \in Nat
  BY <1>0, <1>3
<1>5. at2 \in [0..m -> Nat]
  BY <1>4
<1> HIDE DEF at2
<1>6. at2[0] = n /\ at2[m] \in Nat
  BY <1>0, <1>3, <1>4
<1>7. ASSUME NEW k \in 1..m
      PROVE  Len(r[k]) \in 1..MaxFrameLen /\ at2[k] = at2[k - 1] + Len(r[k]) /\ Numbered(r[k], at2[k - 1])
  <2>1. k \in 0..m /\ k - 1 \in 0..m /\ k \in 1..Len(q)
    BY <1>0
  <2>2. r[k] = q[k] /\ at2[k] = at[k] /\ at2[k - 1] = at[k - 1]
    BY <1>2, <1>4, <2>1
  <2>3. /\ Len(q[k]) \in 1..MaxFrameLen
        /\ at[k] = at[k - 1] + Len(q[k])
        /\ Numbered(q[k], at[k - 1])
    BY <1>1, <2>1 DEF Chain
  <2> QED
    BY <2>2, <2>3
<1>8. Chain(r, at2, n, at2[m])
  BY <1>2, <1>5, <1>6, <1>7, Zenon DEF Chain
<1> QED
  BY <1>2, <1>6, <1>8 DEF Queued, r

-----------------------------------------------------------------------------
(* The state                                                               *)

Dirs == {"up", "down"}

Typed ==
  /\ peer \in [Peers -> {"open", "half", "closed", "reset"}]
  /\ wrote \in [Peers -> Nat] /\ got \in [Peers -> Seq(Nat)]
  /\ tx \in Seq(Nat) /\ shut \in [Peers -> {"no", "yes"}] /\ busy \in {"no", "yes"}
  /\ wire \in [Dirs -> Seq(Nat)] /\ fin \in [Dirs -> {"no", "fin", "reset"}]
  /\ dropped \in [Dirs -> {"no", "yes"}] /\ lost \in {"no", "yes"}
  /\ c_up \in {"reading", "finished"} /\ c_down \in {"reading", "ended"} /\ c_buf \in Seq(Nat)
  /\ s_reader \in {"reading", "ended"} /\ s_buf \in Seq(Nat) /\ frames \in Seq(Seq(Nat))
  /\ s_up \in {"reading", "ended"} /\ out \in Seq(Seq(Nat))
  /\ pump \in {"opening", "select", "write", "send", "finished"} /\ p_data \in Seq(Nat)
  /\ frames_done \in {"no", "yes"} /\ out_done \in {"no", "yes"}

\* Which ends have been seen by whom.
Flags ==
  /\ lost = "no" => fin["down"] = "no" \/ pump = "finished"
  /\ lost = "no" /\ fin["up"] # "no" /\ s_reader = "reading" =>
       c_up = "finished" /\ peer["local"] # "open"
  /\ dropped["up"] = "no" <=> s_reader = "reading"
  /\ dropped["down"] = "no" <=> c_down = "reading"
  /\ shut["local"] = "yes" <=> c_down = "ended"
  /\ busy = "yes" => peer["service"] = "open"
  /\ pump = "opening" => out = <<>> /\ peer["service"] = "open" /\ busy = "no"
  /\ s_up = "ended" /\ pump # "finished" => peer["service"] # "open"
  /\ out_done = "yes" /\ pump # "finished" => out = <<>> /\ s_up = "ended"

\* The bytes on their way to the service, from the pump back to the client: the
\* body being written, the queue of frames, the buffer and the stream.
UpFrom == Len(got["service"]) + Len(tx) + IF pump = "write" THEN Len(p_data) ELSE 0

UpRest(b) ==
  /\ s_reader = "reading" => \E e \in Nat : /\ Stream(s_buf \o wire["up"], b, e, lost)
                                            /\ lost = "no" => e = wrote["local"]
  /\ s_reader = "ended" /\ lost = "no" =>
       b = wrote["local"] /\ c_up = "finished" /\ peer["local"] # "open"

UpHead ==
  /\ pump = "write" => /\ p_data # <<>> /\ Numbered(p_data, Len(got["service"]) + Len(tx))
                       /\ frames_done = "no"
  /\ shut["service"] = "yes" => frames_done = "yes"
  /\ frames_done = "yes" => frames = <<>> /\ s_reader = "ended"

Upwards ==
  Reading("service") /\ pump # "finished" =>
    UpHead /\ \E b \in Nat : Queued(frames, UpFrom, b) /\ UpRest(b)

UpDone ==
  lost = "no" /\ Reading("local") /\ Reading("service") /\ shut["service"] = "yes" =>
    /\ Len(got["service"]) + Len(tx) = wrote["local"]
    /\ c_up = "finished" /\ peer["local"] = "half"

\* The bytes on their way to the local application, from its bridge back to the
\* service.
DownRest(e) ==
  /\ lost = "no" /\ pump # "finished" =>
       /\ pump = "send" => Len(p_data) \in 1..MaxFrameLen /\ Numbered(p_data, e)
       /\ \E f \in Nat : /\ Queued(out, e + (IF pump = "send" THEN Len(p_data) ELSE 0), f)
                         /\ peer["service"] # "reset" => f = wrote["service"]
  /\ lost = "no" /\ pump = "finished" /\ peer["service"] # "reset" =>
       e = wrote["service"] /\ peer["service"] # "open"

Downwards ==
  c_down = "reading" =>
    \E e \in Nat : Stream(c_buf \o wire["down"], Len(got["local"]), e, lost) /\ DownRest(e)

DownDone ==
  lost = "no" /\ Reading("local") /\ c_down = "ended" =>
    /\ pump = "finished"
    /\ peer["service"] # "reset" =>
         Len(got["local"]) = wrote["service"] /\ peer["service"] # "open"

ForwardInv ==
  Typed /\ Flags /\ InOrder /\ Upwards /\ UpDone /\ Downwards /\ DownDone

-----------------------------------------------------------------------------
\* encode and take_frame keep to sequences of bytes.
LEMMA FrameTypes ==
  ASSUME NEW buf \in Seq(Nat), HasFrame(buf)
  PROVE  frame_body(buf) \in Seq(Nat) /\ frame_rest(buf) \in Seq(Nat)
<1> DEFINE l == parse_len(buf)
<1>1. l \in Nat /\ Len(buf) \in Nat /\ 2 + l <= Len(buf)
  <2>1. Len(buf) \in Nat /\ Len(buf) >= 2
    BY DEF HasFrame, LenPrefix
  <2>2. buf[1] \in Nat /\ buf[2] \in Nat
    BY <2>1
  <2>3. l \in Nat
    BY <2>2, FramingAssumption DEF parse_len
  <2> HIDE DEF l
  <2> QED
    BY <2>1, <2>3 DEF HasFrame, LenPrefix, l
<1> HIDE DEF l
<1>2. /\ 3 <= (2 + l) + 1 /\ 2 + l \in Nat
      /\ 3 + l \in Nat \ {0} /\ 3 + l <= Len(buf) + 1
  BY <1>1
<1>3. SubSeq(buf, 3, 2 + l) \in Seq(Nat)
  BY <1>1, <1>2, Cut, 3 \in Nat \ {0}
<1>4. SubSeq(buf, 3 + l, Len(buf)) \in Seq(Nat)
  BY <1>1, <1>2, Cut
<1>5. LenPrefix + l + 1 = 3 + l /\ LenPrefix + 1 = 3 /\ LenPrefix + l = 2 + l
  BY <1>1 DEF LenPrefix
<1> QED
  BY <1>3, <1>4, <1>5 DEF frame_body, frame_rest, l

LEMMA Regroup ==
  ASSUME NEW s \in Seq(Nat), NEW t \in Seq(Nat), NEW u \in Seq(Nat)
  PROVE  (s \o t) \o u = s \o (t \o u)
OBVIOUS

\* recv_data moves bytes from the stream to the buffer.
LEMMA Pulled ==
  ASSUME NEW buf \in Seq(Nat), NEW w \in Seq(Nat), NEW n \in 1..Len(w)
  PROVE  /\ buf \o SubSeq(w, 1, n) \in Seq(Nat) /\ SubSeq(w, n + 1, Len(w)) \in Seq(Nat)
         /\ (buf \o SubSeq(w, 1, n)) \o SubSeq(w, n + 1, Len(w)) = buf \o w
<1>0. Len(w) \in Nat /\ n \in Nat /\ 1 <= n /\ n <= Len(w) /\ n + 1 \in Nat \ {0}
  OBVIOUS
<1> DEFINE a == SubSeq(w, 1, n)
           z == SubSeq(w, n + 1, Len(w))
<1>1. a \in Seq(Nat) /\ Len(a) = n /\ \A i \in 1..n : a[i] = w[i]
  BY <1>0
<1>2. z \in Seq(Nat) /\ Len(z) = Len(w) - n /\ \A i \in 1..(Len(w) - n) : z[i] = w[n + i]
  <2>1. /\ SubSeq(w, n + 1, Len(w)) \in Seq(Nat)
        /\ Len(SubSeq(w, n + 1, Len(w))) = Len(w) - (n + 1) + 1
        /\ \A i \in 1..(Len(w) - (n + 1) + 1) : SubSeq(w, n + 1, Len(w))[i] = w[n + 1 + i - 1]
    BY <1>0, Cut
  <2> HIDE DEF z
  <2>2. Len(w) - (n + 1) + 1 = Len(w) - n /\ \A i \in 1..(Len(w) - n) : n + 1 + i - 1 = n + i
    BY <1>0
  <2> QED
    BY <2>1, <2>2 DEF z
<1> HIDE DEF a, z
<1>3. a \o z = w
  <2>1. /\ a \o z \in Seq(Nat) /\ Len(a \o z) = n + Len(z)
        /\ \A i \in 1..Len(a) : (a \o z)[i] = a[i]
        /\ \A i \in 1..Len(z) : (a \o z)[Len(a) + i] = z[i]
    BY <1>1, <1>2, Joined
  <2> DEFINE x == a \o z
  <2> HIDE DEF x
  <2>2. x \in Seq(Nat) /\ Len(x) = Len(w)
    BY <1>0, <1>2, <2>1 DEF x
  <2>3. ASSUME NEW i \in 1..Len(w) PROVE x[i] = w[i]
    <3>1. CASE i <= n
      <4>1. i \in 1..n /\ i \in 1..Len(a)
        BY <1>1, <3>1
      <4> QED
        BY <1>1, <2>1, <4>1 DEF x
    <3>2. CASE i > n
      <4>1. i - n \in 1..(Len(w) - n) /\ i - n \in 1..Len(z) /\ Len(a) + (i - n) = i /\ n + (i - n) = i
        BY <1>0, <1>1, <1>2, <3>2
      <4> QED
        BY <1>2, <2>1, <4>1 DEF x
    <3> QED
      BY <1>0, <3>1, <3>2
  <2> QED
    BY <2>2, <2>3, SeqEqual DEF x
<1>4. (buf \o a) \o z = buf \o (a \o z)
  <2>1. a \in Seq(Nat) /\ z \in Seq(Nat)
    BY <1>1, <1>2
  <2> QED
    BY <2>1, Regroup, Zenon
<1>5. buf \o a \in Seq(Nat)
  BY <1>1
<1> QED
  BY <1>2, <1>3, <1>4, <1>5 DEF a, z

LEMMA Dir == "up" \in Dirs /\ "down" \in Dirs /\ "local" \in Peers /\ "service" \in Peers
BY DEF Dirs, Peers

LEMMA PullTyped ==
  ASSUME Typed, NEW d \in Dirs, NEW buf \in Seq(Nat), Pull(d, buf),
         d = "up" => buf = s_buf, d = "down" => buf = c_buf
  PROVE  /\ wire' \in [Dirs -> Seq(Nat)] /\ s_buf' \in Seq(Nat) /\ c_buf' \in Seq(Nat)
         /\ s_buf' \o wire'["up"] = s_buf \o wire["up"]
         /\ c_buf' \o wire'["down"] = c_buf \o wire["down"]
<1>1. PICK n \in 1..Len(wire[d]) :
        /\ wire' = [wire EXCEPT ![d] = SubSeq(@, n + 1, Len(@))]
        /\ IF d = "up" THEN s_buf' = s_buf \o SubSeq(wire[d], 1, n) /\ UNCHANGED c_buf
                       ELSE c_buf' = c_buf \o SubSeq(wire[d], 1, n) /\ UNCHANGED s_buf
  BY DEF Pull
<1>2. wire[d] \in Seq(Nat) /\ s_buf \in Seq(Nat) /\ c_buf \in Seq(Nat)
  BY DEF Typed
<1> DEFINE z == SubSeq(wire[d], n + 1, Len(wire[d]))
           a == SubSeq(wire[d], 1, n)
<1>3. /\ buf \o a \in Seq(Nat) /\ z \in Seq(Nat) /\ (buf \o a) \o z = buf \o wire[d]
  BY <1>2, Pulled
<1> HIDE DEF z, a
<1>4. wire' = [wire EXCEPT ![d] = z]
  BY <1>1 DEF z
<1>5. wire' \in [Dirs -> Seq(Nat)] /\ wire'[d] = z /\ \A x \in Dirs \ {d} : wire'[x] = wire[x]
  BY <1>3, <1>4 DEF Typed
<1>6. CASE d = "up"
  <2>1. s_buf' = s_buf \o a /\ c_buf' = c_buf /\ wire'["down"] = wire["down"] /\ buf = s_buf
    BY <1>1, <1>5, <1>6 DEF a, Dirs
  <2> QED
    BY <1>2, <1>3, <1>5, <1>6, <2>1
<1>7. CASE d = "down"
  <2>1. c_buf' = c_buf \o a /\ s_buf' = s_buf /\ wire'["up"] = wire["up"] /\ buf = c_buf
    BY <1>1, <1>5, <1>7 DEF a, Dirs
  <2> QED
    BY <1>2, <1>3, <1>5, <1>7, <2>1
<1> QED
  BY <1>6, <1>7 DEF Dirs

\* send_data adds a frame to one direction.
LEMMA PushTyped ==
  ASSUME Typed, NEW d \in Dirs, NEW body \in Seq(Nat), Push(d, body)
  PROVE  /\ wire' \in [Dirs -> Seq(Nat)] /\ wire'[d] = wire[d] \o encode(body)
         /\ \A x \in Dirs \ {d} : wire'[x] = wire[x]
<1>1. wire[d] \in Seq(Nat) /\ encode(body) \in Seq(Nat) /\ wire \in [Dirs -> Seq(Nat)]
  BY EncodeShape DEF Typed
<1> DEFINE z == wire[d] \o encode(body)
<1>2. z \in Seq(Nat)
  BY <1>1, Joined
<1>3. wire' = [wire EXCEPT ![d] = z]
  BY DEF Push
<1> HIDE DEF z
<1> QED
  BY <1>1, <1>2, <1>3 DEF z

\* A pair of empty streams.
LEMMA Empties ==
  /\ [up |-> <<>>, down |-> <<>>] \in [Dirs -> Seq(Nat)]
  /\ [up |-> <<>>, down |-> <<>>]["up"] = <<>> /\ [up |-> <<>>, down |-> <<>>]["down"] = <<>>
<1> DEFINE e == <<>>
<1>1. e \in Seq(Nat)
  OBVIOUS
<1> HIDE DEF e
<1>2. /\ [up |-> e, down |-> e] \in [Dirs -> Seq(Nat)]
      /\ [up |-> e, down |-> e]["up"] = e /\ [up |-> e, down |-> e]["down"] = e
  BY <1>1 DEF Dirs
<1> QED
  BY <1>2 DEF e

LEMMA ForwardTypes == Init => Typed
<1> SUFFICES ASSUME Init PROVE Typed
  OBVIOUS
<1>1. <<>> \in Seq(Nat) /\ <<>> \in Seq(Seq(Nat))
  OBVIOUS
<1>2. wire \in [Dirs -> Seq(Nat)]
  BY Empties DEF Init
<1>3. fin \in [Dirs -> {"no", "fin", "reset"}] /\ dropped \in [Dirs -> {"no", "yes"}]
  BY DEF Init, Dirs
<1> QED
  BY <1>1, <1>2, <1>3 DEF Init, Typed

LEMMA TypedStep ==
  ASSUME Typed, Upwards, Next
  PROVE  Typed'
<1>0. <<>> \in Seq(Nat) /\ <<>> \in Seq(Seq(Nat))
  OBVIOUS
<1> USE DEF Typed, peer_vars, sock_vars, stream_vars, reader_vars, sup_vars, pump_vars,
            client_vars, server_vars
<1>1. CASE ServiceBegins
  BY <1>1 DEF ServiceBegins
<1>2. CASE ServiceWrites
  <2>1. <<wrote["service"] + 1>> \in Seq(Nat) /\ wrote["service"] + 1 \in Nat
    BY Dir
  <2>2. out' \in Seq(Seq(Nat))
    BY <1>2, <2>1 DEF ServiceWrites
  <2> QED
    BY <1>2, <2>1, <2>2 DEF ServiceWrites
<1>3. CASE ServiceReads
  <2>1. got["service"] \o tx \in Seq(Nat)
    BY Dir
  <2> QED
    BY <1>0, <1>3, <2>1 DEF ServiceReads
<1>4. ASSUME NEW p \in Peers, PeerHalfCloses(p) PROVE Typed'
  BY <1>4 DEF PeerHalfCloses
<1>5. ASSUME NEW p \in Peers, PeerCloses(p) PROVE Typed'
  <2>1. out' \in Seq(Seq(Nat))
    <3>1. \A n \in 0..Len(out) : SubSeq(out, 1, n) \in Seq(Seq(Nat))
      OBVIOUS
    <3>2. out' = out \/ \E n \in 0..Len(out) : out' = SubSeq(out, 1, n)
      BY <1>5 DEF PeerCloses
    <3> QED
      BY <3>1, <3>2
  <2>2. peer' \in [Peers -> {"open", "half", "closed", "reset"}]
    BY <1>5 DEF PeerCloses
  <2>3. tx' \in Seq(Nat) /\ busy' \in {"no", "yes"}
    BY <1>0, <1>5 DEF PeerCloses
  <2> QED
    BY <1>5, <2>1, <2>2, <2>3 DEF PeerCloses
<1>6. CASE ConnectionLost
  <2>1. wire' \in [Dirs -> Seq(Nat)] /\ fin' \in [Dirs -> {"no", "fin", "reset"}]
    <3>1. wire' = [up |-> <<>>, down |-> <<>>]
      BY <1>6 DEF ConnectionLost
    <3>2. fin' \in [Dirs -> {"no", "fin", "reset"}]
      BY <1>6 DEF ConnectionLost, Dirs
    <3> QED
      BY <3>1, <3>2, Empties, Zenon
  <2> QED
    BY <1>6, <2>1 DEF ConnectionLost
<1>7. CASE ClientForwards
  <2>1. PICK n \in 1..MaxFrameLen : /\ Push("up", [i \in 1..n |-> wrote["local"] + i])
                                    /\ wrote' = [wrote EXCEPT !["local"] = @ + n]
    BY <1>7 DEF ClientForwards
  <2>2. n \in Nat /\ wrote["local"] \in Nat
    BY Dir, FramingAssumption
  <2>3. [i \in 1..n |-> wrote["local"] + i] \in Seq(Nat)
    BY <2>2
  <2>4. wire' \in [Dirs -> Seq(Nat)]
    BY <2>1, <2>3, PushTyped, Dir
  <2>5. wrote' \in [Peers -> Nat]
    <3>1. wrote["local"] + n \in Nat
      BY <2>2
    <3> QED
      BY <2>1, <3>1
  <2> QED
    BY <1>7, <2>4, <2>5 DEF ClientForwards
<1>8. CASE ClientUpEnds
  <2>1. wrote' \in [Peers -> Nat]
    <3>1. wrote' = wrote \/ wrote' = [wrote EXCEPT !["local"] = @ + 1]
      BY <1>8 DEF ClientUpEnds
    <3>2. wrote["local"] + 1 \in Nat
      BY Dir
    <3> QED
      BY <3>1, <3>2
  <2>2. fin' \in [Dirs -> {"no", "fin", "reset"}]
    BY <1>8 DEF ClientUpEnds, Finished
  <2> QED
    BY <1>8, <2>1, <2>2 DEF ClientUpEnds
<1>9. CASE ClientReceives
  <2>1. wire' \in [Dirs -> Seq(Nat)] /\ s_buf' \in Seq(Nat) /\ c_buf' \in Seq(Nat)
    BY <1>9, PullTyped, Dir DEF ClientReceives
  <2> QED
    BY <1>9, <2>1 DEF ClientReceives
<1>10. CASE ClientWrites
  <2>1. frame_body(c_buf) \in Seq(Nat) /\ frame_rest(c_buf) \in Seq(Nat)
    BY <1>10, FrameTypes DEF ClientWrites
  <2>2. got["local"] \o frame_body(c_buf) \in Seq(Nat)
    BY <2>1, Dir
  <2> QED
    BY <1>10, <2>1, <2>2 DEF ClientWrites
<1>11. CASE ClientDownEnds
  BY <1>0, <1>11 DEF ClientDownEnds
<1>12. CASE Refused
  <2>1. fin' \in [Dirs -> {"no", "fin", "reset"}]
    BY <1>12 DEF Refused, Finished
  <2> QED
    BY <1>12, <2>1 DEF Refused
<1>13. CASE Connects
  BY <1>13 DEF Connects
<1>14. CASE ServerReceives
  <2>1. wire' \in [Dirs -> Seq(Nat)] /\ s_buf' \in Seq(Nat) /\ c_buf' \in Seq(Nat)
    BY <1>14, PullTyped, Dir DEF ServerReceives
  <2> QED
    BY <1>14, <2>1 DEF ServerReceives
<1>15. CASE ServerTakesFrame
  <2>1. frame_body(s_buf) \in Seq(Nat) /\ frame_rest(s_buf) \in Seq(Nat)
    BY <1>15, FrameTypes DEF ServerTakesFrame
  <2>2. Append(frames, frame_body(s_buf)) \in Seq(Seq(Nat))
    BY <2>1
  <2> QED
    BY <1>15, <2>1, <2>2 DEF ServerTakesFrame
<1>16. CASE ServerReaderEnds
  BY <1>0, <1>16 DEF ServerReaderEnds
<1>17. CASE UpEnds
  BY <1>17 DEF UpEnds
<1>18. CASE PumpTakesFrame
  <2>1. Head(frames) \in Seq(Nat) /\ Tail(frames) \in Seq(Seq(Nat))
    BY <1>18 DEF PumpTakesFrame
  <2> QED
    BY <1>18, <2>1 DEF PumpTakesFrame
<1>19. CASE PumpFramesEnd
  BY <1>19 DEF PumpFramesEnd
<1>20. CASE PumpWrites
  <2>1. ASSUME Reading("service")
        PROVE  Tail(p_data) \in Seq(Nat) /\ Append(tx, Head(p_data)) \in Seq(Nat)
    <3>1. p_data # <<>>
      BY <1>20, <2>1 DEF PumpWrites, Upwards, UpHead
    <3> QED
      BY <3>1
  <2>2. p_data' \in Seq(Nat) /\ tx' \in Seq(Nat)
    BY <1>0, <1>20, <2>1 DEF PumpWrites
  <2> QED
    BY <1>20, <2>2 DEF PumpWrites
<1>21. CASE PumpTakesOutput
  <2>1. Head(out) \in Seq(Nat) /\ Tail(out) \in Seq(Seq(Nat))
    BY <1>21 DEF PumpTakesOutput
  <2> QED
    BY <1>21, <2>1 DEF PumpTakesOutput
<1>22. CASE PumpOutputEnds
  BY <1>22 DEF PumpOutputEnds
<1>23. CASE PumpSends
  <2>1. CASE PumpReturns /\ s_up' \in {s_up, "ended"}
    <3>1. fin' \in [Dirs -> {"no", "fin", "reset"}]
      BY <2>1 DEF PumpReturns, Finished
    <3> QED
      BY <1>0, <2>1, <3>1 DEF PumpReturns
  <2>2. CASE /\ Push("down", p_data) /\ pump' = "select" /\ p_data' = <<>>
             /\ UNCHANGED <<peer_vars, sock_vars, fin, dropped, lost, client_vars,
                            reader_vars, sup_vars, frames_done, out_done>>
    <3>1. wire' \in [Dirs -> Seq(Nat)]
      BY <2>2, PushTyped, Dir
    <3> QED
      BY <1>0, <2>2, <3>1
  <2> QED
    BY <1>23, <2>1, <2>2 DEF PumpSends
<1>24. CASE PumpFinishes
  <2>1. fin' \in [Dirs -> {"no", "fin", "reset"}]
    BY <1>24 DEF PumpFinishes, PumpReturns, Finished
  <2> QED
    BY <1>0, <1>24, <2>1 DEF PumpFinishes, PumpReturns
<1> QED
  BY <1>1, <1>2, <1>3, <1>4, <1>5, <1>6, <1>7, <1>8, <1>9, <1>10, <1>11, <1>12, <1>13,
     <1>14, <1>15, <1>16, <1>17, <1>18, <1>19, <1>20, <1>21, <1>22, <1>23, <1>24
  DEF Next, ServiceStep, BridgeDown, ReaderStep, PumpStep

\* The ends: who finished, who was told, who has dropped what.
LEMMA FlagsStep ==
  ASSUME Typed, Flags, Next
  PROVE  Flags'
<1> USE Dir DEF Typed, Flags, peer_vars, sock_vars, stream_vars, reader_vars, sup_vars,
                pump_vars, client_vars, server_vars
<1>1. CASE ServiceBegins
  BY <1>1 DEF ServiceBegins, Connected
<1>2. CASE ServiceWrites
  BY <1>2 DEF ServiceWrites
<1>3. CASE ServiceReads
  BY <1>3 DEF ServiceReads
<1>4. ASSUME NEW p \in Peers, PeerHalfCloses(p) PROVE Flags'
  BY <1>4 DEF PeerHalfCloses, Peers, Reading, Connected
<1>5. ASSUME NEW p \in Peers, PeerCloses(p) PROVE Flags'
  <2>1. out = <<>> => out' = <<>>
    <3>1. out' = out \/ \E n \in 0..Len(out) : out' = SubSeq(out, 1, n)
      BY <1>5 DEF PeerCloses
    <3> QED
      BY <3>1
  <2>2. /\ peer' = [peer EXCEPT ![p] = "closed"] \/ peer' = [peer EXCEPT ![p] = "reset"]
        /\ pump # "opening" \/ p # "service"
        /\ IF p = "service" THEN tx' = <<>> /\ busy' = "no" ELSE UNCHANGED <<tx, busy>>
        /\ p # "service" => out' = out
        /\ UNCHANGED <<wrote, got, shut, stream_vars, client_vars, reader_vars, s_up, pump_vars>>
    BY <1>5 DEF PeerCloses, Connected
  <2> QED
    BY <2>1, <2>2 DEF Peers
<1>6. CASE ConnectionLost
  BY <1>6 DEF ConnectionLost
<1>7. CASE ClientForwards
  BY <1>7 DEF ClientForwards, Push
<1>8. CASE ClientUpEnds
  BY <1>8 DEF ClientUpEnds, Finished, SendFails
<1>9. CASE ClientReceives
  BY <1>9 DEF ClientReceives, Pull
<1>10. CASE ClientWrites
  BY <1>10 DEF ClientWrites
<1>11. CASE ClientDownEnds
  BY <1>11 DEF ClientDownEnds
<1>12. CASE Refused
  BY <1>12 DEF Refused, Finished
<1>13. CASE Connects
  BY <1>13 DEF Connects
<1>14. CASE ServerReceives
  BY <1>14 DEF ServerReceives, Pull
<1>15. CASE ServerTakesFrame
  BY <1>15 DEF ServerTakesFrame
<1>16. CASE ServerReaderEnds
  BY <1>16 DEF ServerReaderEnds, NoMore
<1>17. CASE UpEnds
  BY <1>17 DEF UpEnds
<1>18. CASE PumpTakesFrame
  BY <1>18 DEF PumpTakesFrame
<1>19. CASE PumpFramesEnd
  BY <1>19 DEF PumpFramesEnd
<1>20. CASE PumpWrites
  BY <1>20 DEF PumpWrites
<1>21. CASE PumpTakesOutput
  BY <1>21 DEF PumpTakesOutput
<1>22. CASE PumpOutputEnds
  BY <1>22 DEF PumpOutputEnds
<1>23. CASE PumpSends
  BY <1>23 DEF PumpSends, PumpReturns, Finished, Push
<1>24. CASE PumpFinishes
  BY <1>24 DEF PumpFinishes, PumpReturns, Finished
<1> QED
  BY <1>1, <1>2, <1>3, <1>4, <1>5, <1>6, <1>7, <1>8, <1>9, <1>10, <1>11, <1>12, <1>13,
     <1>14, <1>15, <1>16, <1>17, <1>18, <1>19, <1>20, <1>21, <1>22, <1>23, <1>24
  DEF Next, ServiceStep, BridgeDown, ReaderStep, PumpStep

-----------------------------------------------------------------------------
(* Towards the service                                                     *)

LEMMA UpGoal ==
  ASSUME Reading("service")' /\ pump' # "finished" =>
           UpHead' /\ \E b \in Nat : Queued(frames', UpFrom', b) /\ UpRest(b)'
  PROVE  Upwards'
<1>1. \A b : Queued(frames, UpFrom, b)' <=> Queued(frames', UpFrom', b)
  BY DEF Queued, Chain, Numbered
<1> QED
  BY <1>1 DEF Upwards

\* A step that moves nothing upwards, or moves bytes from the stream to the
\* buffer or from the socket to the service.
LEMMA UpStable ==
  ASSUME Upwards,
         Reading("service")' => Reading("service"), pump' # "finished" => pump # "finished",
         Len(got'["service"]) + Len(tx') = Len(got["service"]) + Len(tx),
         frames' = frames, frames_done' = frames_done, s_reader' = s_reader, lost' = lost,
         s_buf' \o wire'["up"] = s_buf \o wire["up"], wrote'["local"] = wrote["local"],
         pump' = "write" <=> pump = "write", pump = "write" => p_data' = p_data,
         c_up = "finished" => c_up' = "finished",
         peer["local"] # "open" => peer'["local"] # "open",
         shut'["service"] = shut["service"]
  PROVE  Upwards'
<1> SUFFICES ASSUME Reading("service")', pump' # "finished"
             PROVE  UpHead' /\ \E b \in Nat : Queued(frames', UpFrom', b) /\ UpRest(b)'
  BY UpGoal
<1>1. UpHead
  BY DEF Upwards
<1>2. PICK b \in Nat : Queued(frames, UpFrom, b) /\ UpRest(b)
  BY DEF Upwards
<1>3. UpFrom' = UpFrom
  BY DEF UpFrom
<1>4. UpRest(b)'
  <2>1. \A e : Stream(s_buf \o wire["up"], b, e, lost)' <=> Stream(s_buf \o wire["up"], b, e, lost)
    BY DEF Stream, Layout, FrameAt
  <2> QED
    BY <1>2, <2>1 DEF UpRest
<1>5. UpHead'
  BY <1>1 DEF UpHead, Numbered
<1> QED
  BY <1>2, <1>3, <1>4, <1>5

\* A Data frame is sent.
LEMMA UpForwards ==
  ASSUME Typed, Flags, Upwards, ClientForwards
  PROVE  Upwards'
<1>1. PICK n \in 1..MaxFrameLen : /\ Push("up", [i \in 1..n |-> wrote["local"] + i])
                                  /\ wrote' = [wrote EXCEPT !["local"] = @ + n]
  BY DEF ClientForwards
<1>2. /\ UNCHANGED <<peer, got, tx, shut, lost, dropped, c_up, s_reader, s_buf, frames,
                     pump, p_data, frames_done>>
  BY DEF ClientForwards, sock_vars, client_vars, server_vars, reader_vars, pump_vars
<1> DEFINE body == [i \in 1..n |-> wrote["local"] + i]
<1>3. n \in Nat /\ wrote["local"] \in Nat /\ wrote'["local"] = wrote["local"] + n
  BY <1>1, Dir, FramingAssumption DEF Typed
<1>4. /\ body \in Seq(Nat) /\ Len(body) = n /\ \A j \in 1..n : body[j] = wrote["local"] + j
  BY <1>3
<1> HIDE DEF body
<1>5. wire'["up"] = wire["up"] \o encode(body) /\ encode(body) \in Seq(Nat)
  BY <1>1, <1>4, PushTyped, EncodeShape, Dir DEF body
<1>6. lost = "no" /\ dropped["up"] = "no" /\ s_reader = "reading"
  BY <1>1 DEF Push, Flags
<1> SUFFICES ASSUME Reading("service")', pump' # "finished"
             PROVE  UpHead' /\ \E b \in Nat : Queued(frames', UpFrom', b) /\ UpRest(b)'
  BY UpGoal
<1>7. Reading("service") /\ pump # "finished" /\ UpFrom' = UpFrom
  BY <1>2 DEF Reading, UpFrom
<1>8. UpHead
  BY <1>7 DEF Upwards
<1>9. PICK b \in Nat : Queued(frames, UpFrom, b) /\ UpRest(b)
  BY <1>7 DEF Upwards
<1>10. Stream(s_buf \o wire["up"], b, wrote["local"], "no")
  BY <1>6, <1>9 DEF UpRest
<1>11. s_buf' \o wire'["up"] = (s_buf \o wire["up"]) \o encode(body)
       /\ s_buf \o wire["up"] \in Seq(Nat)
  <2>1. s_buf \in Seq(Nat) /\ wire["up"] \in Seq(Nat)
    BY Dir DEF Typed
  <2>2. (s_buf \o wire["up"]) \o encode(body) = s_buf \o (wire["up"] \o encode(body))
    BY <1>5, <2>1, Regroup, Zenon
  <2> QED
    BY <1>2, <1>5, <2>1, <2>2
<1>12. Stream((s_buf \o wire["up"]) \o encode(body), b, wrote["local"] + n, "no")
  <2>1. Len(body) \in 1..MaxFrameLen /\ \A j \in 1..Len(body) : body[j] = wrote["local"] + j
    BY <1>1, <1>4
  <2> DEFINE s == s_buf \o wire["up"]
  <2> HIDE DEF s
  <2>2. Stream(s \o encode(body), b, wrote["local"] + Len(body), "no")
    BY <1>3, <1>4, <1>10, <1>11, <2>1, StreamPush DEF s
  <2> QED
    BY <1>4, <2>2 DEF s
<1>13. UpRest(b)'
  <2>1. \A e : Stream(s_buf \o wire["up"], b, e, lost)' <=> Stream(s_buf' \o wire'["up"], b, e, lost')
    BY DEF Stream, Layout, FrameAt
  <2>2. wrote'["local"] \in Nat /\ Stream(s_buf' \o wire'["up"], b, wrote'["local"], lost')
    BY <1>2, <1>3, <1>6, <1>11, <1>12
  <2> QED
    BY <1>2, <1>6, <2>1, <2>2 DEF UpRest
<1>14. UpHead'
  BY <1>2, <1>8 DEF UpHead, Numbered
<1> QED
  BY <1>2, <1>7, <1>9, <1>13, <1>14

LEMMA UpLost ==
  ASSUME Typed, Upwards, ConnectionLost
  PROVE  Upwards'
<1>1. /\ UNCHANGED <<peer, got, tx, shut, c_up, s_reader, s_buf, frames, pump, p_data,
                     frames_done, wrote>>
      /\ lost' = "yes" /\ wire' = [up |-> <<>>, down |-> <<>>]
  BY DEF ConnectionLost, peer_vars, sock_vars, client_vars, server_vars, reader_vars, pump_vars
<1> SUFFICES ASSUME Reading("service")', pump' # "finished"
             PROVE  UpHead' /\ \E b \in Nat : Queued(frames', UpFrom', b) /\ UpRest(b)'
  BY UpGoal
<1>7. Reading("service") /\ pump # "finished" /\ UpFrom' = UpFrom
  BY <1>1 DEF Reading, UpFrom
<1>8. UpHead
  BY <1>7 DEF Upwards
<1>9. PICK b \in Nat : Queued(frames, UpFrom, b) /\ UpRest(b)
  BY <1>7 DEF Upwards
<1>10. wire'["up"] = <<>>
  BY <1>1, Empties
<1>11. ASSUME s_reader = "reading"
       PROVE  \E e \in Nat : Stream(s_buf' \o wire'["up"], b, e, "yes")
  <2>1. PICK e \in Nat : Stream(s_buf \o wire["up"], b, e, lost)
    BY <1>9, <1>11 DEF UpRest
  <2>2. s_buf \in Seq(Nat) /\ wire["up"] \in Seq(Nat)
    BY Dir DEF Typed
  <2>3. Stream(s_buf \o <<>>, b, e, "yes")
    BY <2>1, <2>2, StreamLost
  <2> QED
    BY <1>1, <1>10, <2>3
<1>12. UpRest(b)'
  <2>1. \A e : Stream(s_buf \o wire["up"], b, e, lost)' <=> Stream(s_buf' \o wire'["up"], b, e, lost')
    BY DEF Stream, Layout, FrameAt
  <2> QED
    BY <1>1, <1>11, <2>1 DEF UpRest
<1>13. UpHead'
  BY <1>1, <1>8 DEF UpHead, Numbered
<1> QED
  BY <1>1, <1>7, <1>9, <1>12, <1>13

\* bridge's loop ends: what it read and could not send is nobody's loss unless
\* somebody still wanted it.
LEMMA UpEnded ==
  ASSUME Typed, Flags, Upwards, ClientUpEnds
  PROVE  Upwards'
<1>1. /\ UNCHANGED <<peer, got, tx, shut, s_reader, s_buf, frames, pump, p_data,
                     frames_done, wire, dropped, lost>>
      /\ c_up = "reading" /\ c_up' = "finished"
      /\ wrote' = wrote \/ (SendFails("up") /\ wrote' = [wrote EXCEPT !["local"] = @ + 1])
  BY DEF ClientUpEnds, sock_vars, server_vars, reader_vars, pump_vars
<1>2. CASE wrote' = wrote
  BY <1>1, <1>2, UpStable DEF Reading
<1>3. CASE lost = "yes"
  <2> SUFFICES ASSUME Reading("service")', pump' # "finished"
               PROVE  UpHead' /\ \E b \in Nat : Queued(frames', UpFrom', b) /\ UpRest(b)'
    BY UpGoal
  <2>1. Reading("service") /\ pump # "finished" /\ UpFrom' = UpFrom
    BY <1>1 DEF Reading, UpFrom
  <2>2. UpHead
    BY <2>1 DEF Upwards
  <2>3. PICK b \in Nat : Queued(frames, UpFrom, b) /\ UpRest(b)
    BY <2>1 DEF Upwards
  <2>4. UpRest(b)'
    <3>1. \A e : Stream(s_buf \o wire["up"], b, e, lost)' <=> Stream(s_buf \o wire["up"], b, e, lost)
      BY <1>1 DEF Stream, Layout, FrameAt
    <3> QED
      BY <1>1, <1>3, <2>3, <3>1 DEF UpRest
  <2>5. UpHead'
    BY <1>1, <2>2 DEF UpHead, Numbered
  <2> QED
    BY <1>1, <2>1, <2>3, <2>4, <2>5
<1>4. CASE lost = "no" /\ SendFails("up")
  <2>1. s_reader = "ended"
    BY <1>4, Dir DEF SendFails, Flags, Typed
  <2>2. ~(Reading("service") /\ pump # "finished")
    BY <1>1, <1>4, <2>1 DEF Upwards, UpRest
  <2>3. ~(Reading("service")' /\ pump' # "finished")
    BY <1>1, <2>2 DEF Reading
  <2> QED
    BY <2>3 DEF Upwards
<1> QED
  BY <1>1, <1>2, <1>3, <1>4 DEF Typed

\* A frame moves from the reader's buffer to its queue.
LEMMA UpTakes ==
  ASSUME Typed, Upwards, ServerTakesFrame
  PROVE  Upwards'
<1>1. /\ UNCHANGED <<peer, wrote, got, tx, shut, wire, lost, c_up, s_reader, pump, p_data,
                     frames_done>>
      /\ s_reader = "reading" /\ HasFrame(s_buf)
      /\ frames' = Append(frames, frame_body(s_buf)) /\ s_buf' = frame_rest(s_buf)
  BY DEF ServerTakesFrame, peer_vars, sock_vars, stream_vars, client_vars, pump_vars
<1> SUFFICES ASSUME Reading("service")', pump' # "finished"
             PROVE  UpHead' /\ \E b \in Nat : Queued(frames', UpFrom', b) /\ UpRest(b)'
  BY UpGoal
<1>2. Reading("service") /\ pump # "finished" /\ UpFrom' = UpFrom
  BY <1>1 DEF Reading, UpFrom
<1>3. UpHead
  BY <1>2 DEF Upwards
<1>4. PICK b \in Nat : Queued(frames, UpFrom, b) /\ UpRest(b)
  BY <1>2 DEF Upwards
<1>5. PICK e \in Nat : /\ Stream(s_buf \o wire["up"], b, e, lost)
                       /\ lost = "no" => e = wrote["local"]
  BY <1>1, <1>4 DEF UpRest
<1> DEFINE d == frame_body(s_buf)
           r == frame_rest(s_buf)
<1>6. /\ d \in Seq(Nat) /\ r \in Seq(Nat) /\ Len(d) \in 1..MaxFrameLen
      /\ \A j \in 1..Len(d) : d[j] = b + j
      /\ Stream(r \o wire["up"], b + Len(d), e, lost)
  <2>1. s_buf \in Seq(Nat) /\ wire["up"] \in Seq(Nat)
    BY Dir DEF Typed
  <2> QED
    BY <1>1, <1>5, <2>1, StreamTake
<1>7. frames' = Append(frames, d) /\ s_buf' = r
  BY <1>1
<1> HIDE DEF d, r
<1>8. PICK m \in Nat : m = b + Len(d)
  BY <1>6
<1>9. Queued(Append(frames, d), UpFrom, m)
  <2>1. frames \in Seq(Seq(Nat)) /\ Numbered(d, b)
    BY <1>6 DEF Typed, Numbered
  <2> QED
    BY <1>4, <1>6, <1>8, <2>1, QueuedAppend
<1>10. UpRest(m)'
  <2>1. \A x : Stream(s_buf \o wire["up"], m, x, lost)' <=> Stream(s_buf' \o wire'["up"], m, x, lost')
    BY DEF Stream, Layout, FrameAt
  <2>2. Stream(s_buf' \o wire'["up"], m, e, lost')
    BY <1>1, <1>6, <1>7, <1>8
  <2> QED
    BY <1>1, <1>5, <2>1, <2>2 DEF UpRest
<1>11. UpHead'
  BY <1>1, <1>3 DEF UpHead, Numbered
<1> QED
  BY <1>2, <1>7, <1>9, <1>10, <1>11

\* The frame reader ends: with the connection up and a frame nobody takes, the
\* pump has returned; otherwise the stream is at its end.
LEMMA UpReaderEnds ==
  ASSUME Typed, Flags, Upwards, ServerReaderEnds
  PROVE  Upwards'
<1>1. /\ UNCHANGED <<peer, wrote, got, tx, shut, fin, lost, c_up, frames, pump, p_data,
                     frames_done>>
      /\ s_reader = "reading" /\ s_reader' = "ended"
      /\ NoMore("up", s_buf) \/ pump = "finished"
  BY DEF ServerReaderEnds, peer_vars, sock_vars, client_vars, pump_vars
<1> SUFFICES ASSUME Reading("service")', pump' # "finished"
             PROVE  UpHead' /\ \E b \in Nat : Queued(frames', UpFrom', b) /\ UpRest(b)'
  BY UpGoal
<1>2. Reading("service") /\ pump # "finished" /\ UpFrom' = UpFrom
  BY <1>1 DEF Reading, UpFrom
<1>3. UpHead
  BY <1>2 DEF Upwards
<1>4. PICK b \in Nat : Queued(frames, UpFrom, b) /\ UpRest(b)
  BY <1>2 DEF Upwards
<1>5. PICK e \in Nat : /\ Stream(s_buf \o wire["up"], b, e, lost)
                       /\ lost = "no" => e = wrote["local"]
  BY <1>1, <1>4 DEF UpRest
<1>6. /\ ~TooLarge(s_buf)
      /\ lost = "no" /\ wire["up"] = <<>> /\ ~HasFrame(s_buf) => e = b
  <2>1. s_buf \in Seq(Nat) /\ wire["up"] \in Seq(Nat)
    BY Dir DEF Typed
  <2> QED
    BY <1>5, <2>1, StreamHead
<1>7. ~HasFrame(s_buf) /\ wire["up"] = <<>> /\ fin["up"] # "no"
  BY <1>1, <1>2, <1>6 DEF NoMore
<1>8. lost = "no" => b = wrote["local"] /\ c_up = "finished" /\ peer["local"] # "open"
  BY <1>1, <1>5, <1>6, <1>7 DEF Flags
<1>9. UpRest(b)'
  BY <1>1, <1>8 DEF UpRest
<1>10. UpHead'
  BY <1>1, <1>3 DEF UpHead, Numbered
<1> QED
  BY <1>1, <1>2, <1>4, <1>9, <1>10

\* The pump takes a frame from the queue.
LEMMA UpPumpTakes ==
  ASSUME Typed, Upwards, PumpTakesFrame
  PROVE  Upwards'
<1>1. /\ UNCHANGED <<peer, wrote, got, tx, shut, wire, lost, c_up, s_reader, s_buf,
                     frames_done>>
      /\ pump = "select" /\ frames # <<>> /\ frames_done = "no"
      /\ p_data' = Head(frames) /\ frames' = Tail(frames) /\ pump' = "write"
  BY DEF PumpTakesFrame, peer_vars, sock_vars, stream_vars, client_vars
<1> SUFFICES ASSUME Reading("service")', pump' # "finished"
             PROVE  UpHead' /\ \E b \in Nat : Queued(frames', UpFrom', b) /\ UpRest(b)'
  BY UpGoal
<1>2. Reading("service") /\ pump # "finished"
  BY <1>1 DEF Reading
<1>3. UpHead
  BY <1>2 DEF Upwards
<1>4. PICK b \in Nat : Queued(frames, UpFrom, b) /\ UpRest(b)
  BY <1>2 DEF Upwards
<1>5. /\ Len(got["service"]) + Len(tx) \in Nat /\ frames \in Seq(Seq(Nat))
      /\ UpFrom = Len(got["service"]) + Len(tx)
  <2>1. got["service"] \in Seq(Nat) /\ tx \in Seq(Nat) /\ frames \in Seq(Seq(Nat))
    BY Dir DEF Typed
  <2>2. Len(got["service"]) \in Nat /\ Len(tx) \in Nat
    BY <2>1
  <2> QED
    BY <1>1, <2>1, <2>2 DEF UpFrom
<1>6. /\ Head(frames) \in Seq(Nat) /\ Len(Head(frames)) \in 1..MaxFrameLen
      /\ Numbered(Head(frames), UpFrom) /\ Queued(Tail(frames), UpFrom + Len(Head(frames)), b)
  BY <1>1, <1>4, <1>5, QueuedHead
<1>7. UpFrom' = UpFrom + Len(Head(frames))
  BY <1>1, <1>5 DEF UpFrom
<1>8. UpRest(b)'
  <2>1. \A e : Stream(s_buf \o wire["up"], b, e, lost)' <=> Stream(s_buf \o wire["up"], b, e, lost)
    BY <1>1 DEF Stream, Layout, FrameAt
  <2> QED
    BY <1>1, <1>4, <2>1 DEF UpRest
<1>9. UpHead'
  <2>1. p_data' # <<>>
    BY <1>1, <1>6
  <2>2. Numbered(p_data', Len(got'["service"]) + Len(tx'))
    BY <1>1, <1>5, <1>6
  <2>3. Numbered(p_data, Len(got["service"]) + Len(tx))'
    BY <2>2 DEF Numbered
  <2> QED
    BY <1>1, <1>3, <2>1, <2>3 DEF UpHead
<1> QED
  BY <1>1, <1>6, <1>7, <1>8, <1>9

\* A byte moves from the body to the socket, or the service reads no more.
LEMMA UpPumpWrites ==
  ASSUME Typed, Upwards, PumpWrites
  PROVE  Upwards'
<1>1. /\ UNCHANGED <<peer, wrote, got, shut, wire, lost, c_up, s_reader, s_buf, frames>>
      /\ pump = "write"
  BY DEF PumpWrites, peer_vars, stream_vars, client_vars, reader_vars
<1> SUFFICES ASSUME Reading("service")', pump' # "finished"
             PROVE  UpHead' /\ \E b \in Nat : Queued(frames', UpFrom', b) /\ UpRest(b)'
  BY UpGoal
<1>2. Reading("service") /\ pump # "finished"
  BY <1>1 DEF Reading
<1>3. UpHead
  BY <1>2 DEF Upwards
<1>4. PICK b \in Nat : Queued(frames, UpFrom, b) /\ UpRest(b)
  BY <1>2 DEF Upwards
<1>5. /\ tx' = Append(tx, Head(p_data)) /\ p_data' = Tail(p_data)
      /\ pump' = IF Tail(p_data) = <<>> THEN "select" ELSE "write"
      /\ frames_done' = frames_done
  BY <1>2 DEF PumpWrites
<1>6. got["service"] \in Seq(Nat) /\ tx \in Seq(Nat) /\ p_data \in Seq(Nat) /\ p_data # <<>>
  BY <1>1, <1>3, Dir DEF Typed, UpHead
<1>7. /\ Len(tx') = Len(tx) + 1 /\ Len(tx) \in Nat /\ Len(got["service"]) \in Nat
      /\ got' = got
  <2>1. Head(p_data) \in Nat
    BY <1>6
  <2> QED
    BY <1>1, <1>5, <1>6, <2>1
<1>8. /\ Len(p_data) \in Nat /\ Len(p_data) >= 1 /\ Len(p_data') = Len(p_data) - 1
       /\ \A j \in 1..(Len(p_data) - 1) : p_data'[j] = p_data[j + 1]
  BY <1>5, <1>6
<1>9. UpFrom' = UpFrom
  <2>1. pump' = "write" \/ Len(p_data') = 0
    BY <1>5
  <2>2. /\ UpFrom = (Len(got["service"]) + Len(tx)) + Len(p_data)
        /\ UpFrom' = (Len(got["service"]) + (Len(tx) + 1)) + (Len(p_data) - 1)
    BY <1>1, <1>7, <1>8, <2>1 DEF UpFrom
  <2> DEFINE x == Len(got["service"])
             y == Len(tx)
             z == Len(p_data)
  <2>3. x \in Nat /\ y \in Nat /\ z \in Nat
    BY <1>7, <1>8
  <2> HIDE DEF x, y, z
  <2>4. (x + (y + 1)) + (z - 1) = (x + y) + z
    BY <2>3
  <2> QED
    BY <2>2, <2>4 DEF x, y, z
<1>10. UpRest(b)'
  <2>1. \A e : Stream(s_buf \o wire["up"], b, e, lost)' <=> Stream(s_buf \o wire["up"], b, e, lost)
    BY <1>1 DEF Stream, Layout, FrameAt
  <2> QED
    BY <1>1, <1>4, <2>1 DEF UpRest
<1>11. Numbered(p_data, Len(got["service"]) + Len(tx))'
  <2> DEFINE n == Len(got["service"]) + Len(tx)
  <2>1. n \in Nat /\ Len(got'["service"]) + Len(tx') = n + 1
    <3> DEFINE x == Len(got["service"])
               y == Len(tx)
    <3>1. x \in Nat /\ y \in Nat /\ Len(got'["service"]) = x /\ Len(tx') = y + 1
      BY <1>7
    <3> HIDE DEF x, y
    <3>2. x + y \in Nat /\ x + (y + 1) = (x + y) + 1
      BY <3>1
    <3> QED
      BY <3>1, <3>2 DEF x, y
  <2>2. \A j \in 1..Len(p_data) : p_data[j] = n + j
    BY <1>1, <1>3 DEF UpHead, Numbered
  <2> HIDE DEF n
  <2>3. ASSUME NEW j \in 1..(Len(p_data) - 1)
        PROVE  p_data'[j] = (n + 1) + j
    <3>1. j + 1 \in 1..Len(p_data) /\ n + (j + 1) = (n + 1) + j
      BY <1>8, <2>1
    <3> QED
      BY <1>8, <2>2, <3>1
  <2> QED
    BY <1>8, <2>1, <2>3 DEF Numbered
<1>12. UpHead'
  BY <1>1, <1>3, <1>5, <1>11 DEF UpHead
<1> QED
  BY <1>1, <1>4, <1>9, <1>10, <1>12

\* The queue is empty and its reader gone: the service's input ends.
LEMMA UpFramesEnd ==
  ASSUME Typed, Upwards, PumpFramesEnd
  PROVE  Upwards'
<1>1. /\ UNCHANGED <<peer, wrote, got, tx, wire, lost, c_up, s_reader, s_buf, frames, pump,
                     p_data>>
      /\ pump = "select" /\ frames = <<>> /\ s_reader = "ended" /\ frames_done' = "yes"
  BY DEF PumpFramesEnd, peer_vars, stream_vars, client_vars, reader_vars
<1> SUFFICES ASSUME Reading("service")', pump' # "finished"
             PROVE  UpHead' /\ \E b \in Nat : Queued(frames', UpFrom', b) /\ UpRest(b)'
  BY UpGoal
<1>2. Reading("service") /\ pump # "finished" /\ UpFrom' = UpFrom
  BY <1>1 DEF Reading, UpFrom
<1>3. PICK b \in Nat : Queued(frames, UpFrom, b) /\ UpRest(b)
  BY <1>2 DEF Upwards
<1>4. UpRest(b)'
  BY <1>1, <1>3 DEF UpRest
<1>5. UpHead'
  BY <1>1 DEF UpHead
<1> QED
  BY <1>1, <1>2, <1>3, <1>4, <1>5

LEMMA UpwardsStep ==
  ASSUME Typed, Flags, Upwards, Next
  PROVE  Upwards'
<1> USE DEF peer_vars, sock_vars, stream_vars, reader_vars, sup_vars, pump_vars,
            client_vars, server_vars, Reading
<1>1. CASE ServiceBegins
  BY <1>1, UpStable DEF ServiceBegins
<1>2. CASE ServiceWrites
  BY <1>2, UpStable, Dir DEF ServiceWrites, Typed
<1>3. CASE ServiceReads
  <2>1. got["service"] \in Seq(Nat) /\ tx \in Seq(Nat) /\ got \in [Peers -> Seq(Nat)]
    BY Dir DEF Typed
  <2>2. got'["service"] = got["service"] \o tx /\ tx' = <<>>
    BY <1>3, <2>1, Dir DEF ServiceReads
  <2>3. Len(got'["service"]) + Len(tx') = Len(got["service"]) + Len(tx)
    BY <2>1, <2>2
  <2> QED
    BY <1>3, <2>3, UpStable DEF ServiceReads
<1>4. ASSUME NEW p \in Peers, PeerHalfCloses(p) PROVE Upwards'
  BY <1>4, UpStable DEF PeerHalfCloses, Typed
<1>5. ASSUME NEW p \in Peers, PeerCloses(p) PROVE Upwards'
  <2>1. CASE p = "service"
    <3>1. peer'["service"] \in {"closed", "reset"}
      BY <1>5, <2>1 DEF PeerCloses, Typed
    <3> QED
      BY <3>1 DEF Upwards
  <2>2. CASE p = "local"
    <3>1. /\ UNCHANGED <<wrote, got, tx, busy, shut, wire, lost, c_up, s_reader, s_buf, frames,
                         pump, p_data, frames_done>>
          /\ peer'["service"] = peer["service"] /\ peer'["local"] # "open"
      BY <1>5, <2>2, Dir DEF PeerCloses, Typed
    <3> QED
      BY <3>1, UpStable
  <2> QED
    BY <2>1, <2>2 DEF Peers
<1>6. CASE ConnectionLost
  BY <1>6, UpLost
<1>7. CASE ClientForwards
  BY <1>7, UpForwards
<1>8. CASE ClientUpEnds
  BY <1>8, UpEnded
<1>9. CASE ClientReceives
  <2>1. s_buf' \o wire'["up"] = s_buf \o wire["up"]
    BY <1>9, PullTyped, Dir DEF ClientReceives, Typed
  <2> QED
    BY <1>9, <2>1, UpStable DEF ClientReceives
<1>10. CASE ClientWrites
  <2>1. got'["service"] = got["service"]
    BY <1>10, Dir DEF ClientWrites, Typed
  <2> QED
    BY <1>10, <2>1, UpStable DEF ClientWrites
<1>11. CASE ClientDownEnds
  <2>1. shut'["service"] = shut["service"]
    BY <1>11, Dir DEF ClientDownEnds, Typed
  <2> QED
    BY <1>11, <2>1, UpStable DEF ClientDownEnds
<1>12. CASE Refused
  BY <1>12 DEF Refused, Upwards
<1>13. CASE Connects
  BY <1>13, UpStable DEF Connects
<1>14. CASE ServerReceives
  <2>1. s_buf' \o wire'["up"] = s_buf \o wire["up"]
    BY <1>14, PullTyped, Dir DEF ServerReceives, Typed
  <2> QED
    BY <1>14, <2>1, UpStable DEF ServerReceives
<1>15. CASE ServerTakesFrame
  BY <1>15, UpTakes
<1>16. CASE ServerReaderEnds
  BY <1>16, UpReaderEnds
<1>17. CASE UpEnds
  BY <1>17, UpStable DEF UpEnds
<1>18. CASE PumpTakesFrame
  BY <1>18, UpPumpTakes
<1>19. CASE PumpFramesEnd
  BY <1>19, UpFramesEnd
<1>20. CASE PumpWrites
  BY <1>20, UpPumpWrites
<1>21. CASE PumpTakesOutput
  BY <1>21, UpStable DEF PumpTakesOutput
<1>22. CASE PumpOutputEnds
  BY <1>22, UpStable DEF PumpOutputEnds
<1>23. CASE PumpSends
  <2>1. CASE PumpReturns
    BY <2>1 DEF PumpReturns, Upwards
  <2>2. CASE /\ Push("down", p_data) /\ pump' = "select" /\ p_data' = <<>>
             /\ UNCHANGED <<peer_vars, sock_vars, fin, dropped, lost, client_vars,
                            reader_vars, sup_vars, frames_done, out_done>>
    <3>1. wire'["up"] = wire["up"]
      BY <2>2, PushTyped, Dir DEF Typed
    <3>2. pump = "send"
      BY <1>23 DEF PumpSends
    <3> QED
      BY <2>2, <3>1, <3>2, UpStable
  <2> QED
    BY <1>23, <2>1, <2>2 DEF PumpSends
<1>24. CASE PumpFinishes
  BY <1>24 DEF PumpFinishes, PumpReturns, Upwards
<1> QED
  BY <1>1, <1>2, <1>3, <1>4, <1>5, <1>6, <1>7, <1>8, <1>9, <1>10, <1>11, <1>12, <1>13,
     <1>14, <1>15, <1>16, <1>17, <1>18, <1>19, <1>20, <1>21, <1>22, <1>23, <1>24
  DEF Next, ServiceStep, BridgeDown, ReaderStep, PumpStep

\* The pump has seen the last frame: the service has every byte.
LEMMA UpComplete ==
  ASSUME Typed, Upwards, Reading("service"), Reading("local"), lost = "no",
         pump = "select", frames = <<>>, s_reader = "ended"
  PROVE  /\ Len(got["service"]) + Len(tx) = wrote["local"]
         /\ c_up = "finished" /\ peer["local"] = "half"
<1>1. PICK b \in Nat : Queued(frames, UpFrom, b) /\ UpRest(b)
  BY DEF Upwards
<1> DEFINE x == Len(got["service"])
           y == Len(tx)
<1>2. x \in Nat /\ y \in Nat
  <2>1. got["service"] \in Seq(Nat) /\ tx \in Seq(Nat)
    BY Dir DEF Typed
  <2> QED
    BY <2>1
<1>3. UpFrom = x + y + 0
  BY DEF UpFrom
<1> HIDE DEF x, y
<1>4. UpFrom \in Nat /\ UpFrom = x + y
  BY <1>2, <1>3
<1>5. b = UpFrom
  BY <1>1, <1>4, QueuedEmpty
<1>6. b = wrote["local"] /\ c_up = "finished" /\ peer["local"] # "open"
  BY <1>1 DEF UpRest
<1> QED
  BY <1>4, <1>5, <1>6 DEF Reading, x, y

LEMMA UpDoneStable ==
  ASSUME UpDone,
         lost' = "no" => lost = "no", Reading("local")' => Reading("local"),
         Reading("service")' => Reading("service"), shut'["service"] = shut["service"],
         Reading("local")' /\ peer["local"] = "half" => peer'["local"] = "half",
         c_up = "finished" => c_up' = "finished",
         Len(got'["service"]) + Len(tx') = Len(got["service"]) + Len(tx),
         wrote'["local"] = wrote["local"]
  PROVE  UpDone'
BY DEF UpDone

LEMMA UpDoneStep ==
  ASSUME Typed, Flags, Upwards, UpDone, DownDone, Next
  PROVE  UpDone'
<1> USE DEF peer_vars, sock_vars, stream_vars, reader_vars, sup_vars, pump_vars,
            client_vars, server_vars, Reading
<1>1. CASE ServiceBegins
  BY <1>1, UpDoneStable DEF ServiceBegins
<1>2. CASE ServiceWrites
  BY <1>2, UpDoneStable, Dir DEF ServiceWrites, Typed
<1>3. CASE ServiceReads
  <2>1. got["service"] \in Seq(Nat) /\ tx \in Seq(Nat) /\ got \in [Peers -> Seq(Nat)]
    BY Dir DEF Typed
  <2>2. got'["service"] = got["service"] \o tx /\ tx' = <<>>
    BY <1>3, <2>1, Dir DEF ServiceReads
  <2>3. Len(got'["service"]) + Len(tx') = Len(got["service"]) + Len(tx)
    BY <2>1, <2>2
  <2> QED
    BY <1>3, <2>3, UpDoneStable DEF ServiceReads
<1>4. ASSUME NEW p \in Peers, PeerHalfCloses(p) PROVE UpDone'
  <2>1. /\ peer'[p] = "half" /\ peer[p] = "open" /\ \A q \in Peers \ {p} : peer'[q] = peer[q]
        /\ UNCHANGED <<lost, shut, c_up, got, tx, wrote>>
    BY <1>4 DEF PeerHalfCloses, Typed
  <2>2. \A q \in Peers : peer'[q] = peer[q] \/ (peer[q] = "open" /\ peer'[q] = "half")
    BY <2>1
  <2> QED
    BY <2>1, <2>2, UpDoneStable, Dir
<1>5. ASSUME NEW p \in Peers, PeerCloses(p) PROVE UpDone'
  <2>1. CASE p = "service"
    <3>1. peer'["service"] \in {"closed", "reset"}
      BY <1>5, <2>1 DEF PeerCloses, Typed
    <3> QED
      BY <3>1 DEF UpDone
  <2>2. CASE p = "local"
    <3>1. peer'["local"] \in {"closed", "reset"}
      BY <1>5, <2>2 DEF PeerCloses, Typed
    <3> QED
      BY <3>1 DEF UpDone
  <2> QED
    BY <2>1, <2>2 DEF Peers
<1>6. CASE ConnectionLost
  BY <1>6 DEF ConnectionLost, UpDone
<1>7. CASE ClientForwards
  <2>1. c_up = "reading" /\ UNCHANGED <<lost, peer, shut>>
    BY <1>7 DEF ClientForwards
  <2> QED
    BY <2>1 DEF UpDone
<1>8. CASE ClientUpEnds
  <2>1. c_up = "reading" /\ UNCHANGED <<lost, peer, shut>>
    BY <1>8 DEF ClientUpEnds
  <2> QED
    BY <2>1 DEF UpDone
<1>9. CASE ClientReceives
  BY <1>9, UpDoneStable DEF ClientReceives
<1>10. CASE ClientWrites
  <2>1. got'["service"] = got["service"]
    BY <1>10, Dir DEF ClientWrites, Typed
  <2> QED
    BY <1>10, <2>1, UpDoneStable DEF ClientWrites
<1>11. CASE ClientDownEnds
  <2>1. shut'["service"] = shut["service"]
    BY <1>11, Dir DEF ClientDownEnds, Typed
  <2> QED
    BY <1>11, <2>1, UpDoneStable DEF ClientDownEnds
<1>12. CASE Refused
  <2>1. peer'["service"] = "closed"
    BY <1>12, Dir DEF Refused, Typed
  <2> QED
    BY <2>1 DEF UpDone
<1>13. CASE Connects
  BY <1>13, UpDoneStable DEF Connects
<1>14. CASE ServerReceives
  BY <1>14, UpDoneStable DEF ServerReceives
<1>15. CASE ServerTakesFrame
  BY <1>15, UpDoneStable DEF ServerTakesFrame
<1>16. CASE ServerReaderEnds
  BY <1>16, UpDoneStable DEF ServerReaderEnds
<1>17. CASE UpEnds
  BY <1>17, UpDoneStable DEF UpEnds
<1>18. CASE PumpTakesFrame
  BY <1>18, UpDoneStable DEF PumpTakesFrame
<1>19. CASE PumpFramesEnd
  <2>1. /\ UNCHANGED <<lost, peer, c_up, got, tx, wrote>>
        /\ pump = "select" /\ frames = <<>> /\ s_reader = "ended"
    BY <1>19 DEF PumpFramesEnd
  <2> QED
    BY <2>1, UpComplete DEF UpDone
<1>20. CASE PumpWrites
  <2>1. UNCHANGED <<lost, peer, c_up, got, wrote, shut>> /\ pump = "write"
    BY <1>20 DEF PumpWrites
  <2>2. Reading("service") => shut["service"] # "yes"
    BY <2>1 DEF Upwards, UpHead
  <2> QED
    BY <2>1, <2>2 DEF UpDone
<1>21. CASE PumpTakesOutput
  BY <1>21, UpDoneStable DEF PumpTakesOutput
<1>22. CASE PumpOutputEnds
  BY <1>22, UpDoneStable DEF PumpOutputEnds
<1>23. CASE PumpSends
  <2>1. CASE SendFails("down") /\ PumpReturns
    <3>1. UNCHANGED <<lost, peer>> /\ pump = "send"
      BY <1>23, <2>1 DEF PumpSends, PumpReturns
    <3>2. lost = "no" => c_down = "ended"
      BY <2>1, Dir DEF SendFails, Flags, Typed
    <3> QED
      BY <3>1, <3>2 DEF DownDone, UpDone
  <2>2. CASE UNCHANGED <<peer_vars, sock_vars, lost, client_vars>>
    BY <2>2, UpDoneStable
  <2> QED
    BY <1>23, <2>1, <2>2 DEF PumpSends
<1>24. CASE PumpFinishes
  <2>1. /\ UNCHANGED <<lost, peer, c_up, got, tx, wrote>>
        /\ pump = "select" /\ frames_done = "yes"
    BY <1>24 DEF PumpFinishes, PumpReturns
  <2>2. Reading("service") => frames = <<>> /\ s_reader = "ended"
    BY <2>1 DEF Upwards, UpHead
  <2> QED
    BY <2>1, <2>2, UpComplete DEF UpDone
<1> QED
  BY <1>1, <1>2, <1>3, <1>4, <1>5, <1>6, <1>7, <1>8, <1>9, <1>10, <1>11, <1>12, <1>13,
     <1>14, <1>15, <1>16, <1>17, <1>18, <1>19, <1>20, <1>21, <1>22, <1>23, <1>24
  DEF Next, ServiceStep, BridgeDown, ReaderStep, PumpStep

-----------------------------------------------------------------------------
(* Towards the local application                                           *)

LEMMA DownGoal ==
  ASSUME c_down' = "reading" =>
           \E e \in Nat : /\ Stream(c_buf' \o wire'["down"], Len(got'["local"]), e, lost')
                          /\ DownRest(e)'
  PROVE  Downwards'
<1>1. \A e : Stream(c_buf \o wire["down"], Len(got["local"]), e, lost)'
               <=> Stream(c_buf' \o wire'["down"], Len(got'["local"]), e, lost')
  BY DEF Stream, Layout, FrameAt
<1> QED
  BY <1>1 DEF Downwards

\* DownRest of the next state, with the queue's state spelled out.
LEMMA DownRestGoal ==
  ASSUME NEW e \in Nat,
         lost' = "no" /\ pump' # "finished" =>
           /\ pump' = "send" => Len(p_data') \in 1..MaxFrameLen /\ Numbered(p_data', e)
           /\ \E f \in Nat : /\ Queued(out', e + (IF pump' = "send" THEN Len(p_data') ELSE 0), f)
                             /\ peer'["service"] # "reset" => f = wrote'["service"],
         lost' = "no" /\ pump' = "finished" /\ peer'["service"] # "reset" =>
           e = wrote'["service"] /\ peer'["service"] # "open"
  PROVE  DownRest(e)'
<1>1. \A f : Queued(out, e + (IF pump = "send" THEN Len(p_data) ELSE 0), f)'
               <=> Queued(out', e + (IF pump' = "send" THEN Len(p_data') ELSE 0), f)
  BY DEF Queued, Chain, Numbered
<1>2. Numbered(p_data, e)' <=> Numbered(p_data', e)
  BY DEF Numbered
<1> QED
  BY <1>1, <1>2 DEF DownRest

\* A step that moves nothing downwards, or moves bytes from the stream to the
\* buffer.
LEMMA DownStable ==
  ASSUME Downwards, c_down' = c_down, lost' = lost,
         c_buf' \o wire'["down"] = c_buf \o wire["down"],
         got'["local"] = got["local"],
         pump' = "finished" <=> pump = "finished", pump' = "send" <=> pump = "send",
         pump = "send" => p_data' = p_data, out' = out,
         wrote'["service"] = wrote["service"],
         peer'["service"] = "reset" <=> peer["service"] = "reset",
         peer["service"] # "open" => peer'["service"] # "open"
  PROVE  Downwards'
<1> SUFFICES ASSUME c_down' = "reading"
             PROVE  \E e \in Nat : /\ Stream(c_buf' \o wire'["down"], Len(got'["local"]), e, lost')
                                   /\ DownRest(e)'
  BY DownGoal
<1>1. PICK e \in Nat : /\ Stream(c_buf \o wire["down"], Len(got["local"]), e, lost)
                       /\ DownRest(e)
  BY DEF Downwards
<1>2. DownRest(e)'
  <2>1. /\ lost' = "no" /\ pump' # "finished" =>
             /\ pump' = "send" => Len(p_data') \in 1..MaxFrameLen /\ Numbered(p_data', e)
             /\ \E f \in Nat : /\ Queued(out', e + (IF pump' = "send" THEN Len(p_data') ELSE 0), f)
                               /\ peer'["service"] # "reset" => f = wrote'["service"]
    BY <1>1 DEF DownRest
  <2>2. lost' = "no" /\ pump' = "finished" /\ peer'["service"] # "reset" =>
          e = wrote'["service"] /\ peer'["service"] # "open"
    BY <1>1 DEF DownRest
  <2> QED
    BY <2>1, <2>2, DownRestGoal
<1> QED
  BY <1>1, <1>2

\* The service's write enters the queue.
LEMMA DownServiceWrites ==
  ASSUME Typed, Flags, Downwards, ServiceWrites
  PROVE  Downwards'
<1>1. /\ UNCHANGED <<peer, got, wire, lost, c_down, c_buf, pump, p_data>>
      /\ busy = "yes" /\ out' = Append(out, <<wrote["service"] + 1>>)
      /\ wrote' = [wrote EXCEPT !["service"] = @ + 1]
  BY DEF ServiceWrites, stream_vars, client_vars, pump_vars
<1> SUFFICES ASSUME c_down' = "reading"
             PROVE  \E e \in Nat : /\ Stream(c_buf' \o wire'["down"], Len(got'["local"]), e, lost')
                                   /\ DownRest(e)'
  BY DownGoal
<1>2. PICK e \in Nat : /\ Stream(c_buf \o wire["down"], Len(got["local"]), e, lost)
                       /\ DownRest(e)
  BY <1>1 DEF Downwards
<1>3. peer["service"] = "open" /\ wrote["service"] \in Nat /\ out \in Seq(Seq(Nat))
  BY <1>1, Dir DEF Flags, Typed
<1>4. lost = "no" => pump # "finished"
  BY <1>2, <1>3 DEF DownRest
<1> DEFINE d == <<wrote["service"] + 1>>
           n == e + (IF pump = "send" THEN Len(p_data) ELSE 0)
<1>5. d \in Seq(Nat) /\ Len(d) = 1 /\ Numbered(d, wrote["service"]) /\ Len(d) \in 1..MaxFrameLen
  BY <1>3, FramingAssumption, ForwardAssumption DEF Numbered
<1>6. wrote'["service"] = wrote["service"] + Len(d) /\ out' = Append(out, d)
  <2>1. wrote'["service"] = wrote["service"] + 1
    BY <1>1, Dir DEF Typed
  <2> QED
    BY <1>1, <1>5, <2>1
<1>7. ASSUME lost = "no" PROVE Queued(Append(out, d), n, wrote["service"] + Len(d))
  <2>1. Queued(out, n, wrote["service"])
    BY <1>2, <1>3, <1>4, <1>7 DEF DownRest
  <2> HIDE DEF d, n
  <2> QED
    BY <1>3, <1>5, <2>1, QueuedAppend
<1>8. wrote["service"] + Len(d) \in Nat
  BY <1>3, <1>5
<1> HIDE DEF d
<1>9. DownRest(e)'
  <2>1. ASSUME lost' = "no", pump' # "finished"
        PROVE  /\ pump' = "send" => Len(p_data') \in 1..MaxFrameLen /\ Numbered(p_data', e)
               /\ \E f \in Nat : /\ Queued(out', e + (IF pump' = "send" THEN Len(p_data') ELSE 0), f)
                                 /\ peer'["service"] # "reset" => f = wrote'["service"]
    <3>1. Queued(out', e + (IF pump' = "send" THEN Len(p_data') ELSE 0), wrote["service"] + Len(d))
      BY <1>1, <1>6, <1>7, <2>1
    <3>2. pump' = "send" => Len(p_data') \in 1..MaxFrameLen /\ Numbered(p_data', e)
      BY <1>1, <1>2, <2>1 DEF DownRest
    <3> QED
      BY <1>6, <1>8, <3>1, <3>2
  <2>2. lost' = "no" => pump' # "finished"
    BY <1>1, <1>4
  <2> QED
    BY <2>1, <2>2, DownRestGoal
<1> QED
  BY <1>1, <1>2, <1>9

\* The service resets: the end of what it wrote may be gone.
LEMMA DownReset ==
  ASSUME Typed, Downwards, PeerCloses("service"), peer' = [peer EXCEPT !["service"] = "reset"]
  PROVE  Downwards'
<1>1. /\ UNCHANGED <<wrote, got, wire, lost, c_down, c_buf, pump, p_data>>
      /\ peer'["service"] = "reset"
      /\ \E m \in 0..Len(out) : out' = SubSeq(out, 1, m)
  <2>1. out' = out \/ \E m \in 0..Len(out) : out' = SubSeq(out, 1, m)
    BY DEF PeerCloses
  <2>2. out \in Seq(Seq(Nat)) /\ peer'["service"] = "reset"
    BY Dir DEF Typed
  <2>3. out = SubSeq(out, 1, Len(out)) /\ Len(out) \in 0..Len(out)
    BY <2>2
  <2>4. UNCHANGED <<wrote, got, wire, lost, c_down, c_buf, pump, p_data>>
    BY DEF PeerCloses, stream_vars, client_vars, pump_vars
  <2> QED
    BY <2>1, <2>2, <2>3, <2>4
<1> SUFFICES ASSUME c_down' = "reading"
             PROVE  \E e \in Nat : /\ Stream(c_buf' \o wire'["down"], Len(got'["local"]), e, lost')
                                   /\ DownRest(e)'
  BY DownGoal
<1>2. PICK e \in Nat : /\ Stream(c_buf \o wire["down"], Len(got["local"]), e, lost)
                       /\ DownRest(e)
  BY <1>1 DEF Downwards
<1>3. PICK m \in 0..Len(out) : out' = SubSeq(out, 1, m)
  BY <1>1
<1>4. ASSUME lost' = "no", pump' # "finished"
      PROVE  /\ pump' = "send" => Len(p_data') \in 1..MaxFrameLen /\ Numbered(p_data', e)
             /\ \E f \in Nat : Queued(out', e + (IF pump' = "send" THEN Len(p_data') ELSE 0), f)
  <2> DEFINE n == e + (IF pump = "send" THEN Len(p_data) ELSE 0)
  <2>1. /\ pump = "send" => Len(p_data) \in 1..MaxFrameLen /\ Numbered(p_data, e)
        /\ \E f \in Nat : Queued(out, n, f)
    BY <1>1, <1>2, <1>4 DEF DownRest
  <2> HIDE DEF n
  <2>2. \E f \in Nat : Queued(out', n, f)
    BY <1>3, <2>1, QueuedFront DEF Typed
  <2> QED
    BY <1>1, <2>1, <2>2 DEF n
<1>5. DownRest(e)'
  BY <1>1, <1>4, DownRestGoal
<1> QED
  BY <1>1, <1>2, <1>5

LEMMA DownLost ==
  ASSUME Typed, Downwards, ConnectionLost
  PROVE  Downwards'
<1>1. UNCHANGED <<got, c_down, c_buf>> /\ lost' = "yes" /\ wire' = [up |-> <<>>, down |-> <<>>]
  BY DEF ConnectionLost, peer_vars, client_vars
<1> SUFFICES ASSUME c_down' = "reading"
             PROVE  \E e \in Nat : /\ Stream(c_buf' \o wire'["down"], Len(got'["local"]), e, lost')
                                   /\ DownRest(e)'
  BY DownGoal
<1>2. PICK e \in Nat : Stream(c_buf \o wire["down"], Len(got["local"]), e, lost)
  BY <1>1 DEF Downwards
<1>3. wire'["down"] = <<>>
  BY <1>1, Empties
<1>4. Stream(c_buf \o <<>>, Len(got["local"]), e, "yes")
  <2>1. c_buf \in Seq(Nat) /\ wire["down"] \in Seq(Nat) /\ got["local"] \in Seq(Nat)
    BY Dir DEF Typed
  <2>2. Len(got["local"]) \in Nat
    BY <2>1
  <2> QED
    BY <1>2, <2>1, <2>2, StreamLost
<1>5. DownRest(e)'
  BY <1>1 DEF DownRest
<1> QED
  BY <1>1, <1>3, <1>4, <1>5

\* A frame is taken from the buffer and written to the application.
LEMMA DownTakes ==
  ASSUME Typed, Downwards, ClientWrites
  PROVE  /\ Downwards'
         /\ frame_body(c_buf) \in Seq(Nat) /\ got'["local"] = got["local"] \o frame_body(c_buf)
         /\ \A j \in 1..Len(frame_body(c_buf)) : frame_body(c_buf)[j] = Len(got["local"]) + j
<1> DEFINE d == frame_body(c_buf)
           r == frame_rest(c_buf)
<1>1. /\ UNCHANGED <<peer, wrote, wire, lost, c_down, out, pump, p_data>>
      /\ c_down = "reading" /\ HasFrame(c_buf)
      /\ got' = [got EXCEPT !["local"] = @ \o d] /\ c_buf' = r
  BY DEF ClientWrites, stream_vars, server_vars, sup_vars, pump_vars
<1>2. PICK e \in Nat : /\ Stream(c_buf \o wire["down"], Len(got["local"]), e, lost)
                       /\ DownRest(e)
  BY <1>1 DEF Downwards
<1>3. /\ c_buf \in Seq(Nat) /\ wire["down"] \in Seq(Nat) /\ got["local"] \in Seq(Nat)
      /\ got \in [Peers -> Seq(Nat)]
  BY Dir DEF Typed
<1>4. Len(got["local"]) \in Nat
  BY <1>3
<1>5. /\ d \in Seq(Nat) /\ r \in Seq(Nat) /\ Len(d) \in 1..MaxFrameLen
      /\ \A j \in 1..Len(d) : d[j] = Len(got["local"]) + j
      /\ Stream(r \o wire["down"], Len(got["local"]) + Len(d), e, lost)
  BY <1>1, <1>2, <1>3, <1>4, StreamTake
<1> HIDE DEF d, r
<1>6. got'["local"] = got["local"] \o d
  BY <1>1, <1>3, Dir
<1>7. Len(got'["local"]) = Len(got["local"]) + Len(d)
  BY <1>3, <1>5, <1>6
<1>8. DownRest(e)'
  <2>1. /\ lost' = "no" /\ pump' # "finished" =>
             /\ pump' = "send" => Len(p_data') \in 1..MaxFrameLen /\ Numbered(p_data', e)
             /\ \E f \in Nat : /\ Queued(out', e + (IF pump' = "send" THEN Len(p_data') ELSE 0), f)
                               /\ peer'["service"] # "reset" => f = wrote'["service"]
    BY <1>1, <1>2 DEF DownRest
  <2>2. lost' = "no" /\ pump' = "finished" /\ peer'["service"] # "reset" =>
          e = wrote'["service"] /\ peer'["service"] # "open"
    BY <1>1, <1>2 DEF DownRest
  <2> QED
    BY <2>1, <2>2, DownRestGoal
<1>9. Downwards'
  BY <1>1, <1>5, <1>7, <1>8, DownGoal
<1> QED
  BY <1>5, <1>6, <1>9 DEF d

\* The pump takes a chunk from the queue.
LEMMA DownPumpTakes ==
  ASSUME Typed, Downwards, PumpTakesOutput
  PROVE  Downwards'
<1>1. /\ UNCHANGED <<peer, wrote, got, wire, lost, c_down, c_buf>>
      /\ pump = "select" /\ out # <<>> /\ out \in Seq(Seq(Nat))
      /\ p_data' = Head(out) /\ out' = Tail(out) /\ pump' = "send"
  BY DEF PumpTakesOutput, peer_vars, stream_vars, client_vars, Typed
<1> SUFFICES ASSUME c_down' = "reading"
             PROVE  \E e \in Nat : /\ Stream(c_buf' \o wire'["down"], Len(got'["local"]), e, lost')
                                   /\ DownRest(e)'
  BY DownGoal
<1>2. PICK e \in Nat : /\ Stream(c_buf \o wire["down"], Len(got["local"]), e, lost)
                       /\ DownRest(e)
  BY <1>1 DEF Downwards
<1>3. ASSUME lost' = "no"
      PROVE  /\ Len(p_data') \in 1..MaxFrameLen /\ Numbered(p_data', e)
             /\ \E f \in Nat : /\ Queued(out', e + Len(p_data'), f)
                               /\ peer'["service"] # "reset" => f = wrote'["service"]
  <2>1. PICK f \in Nat : /\ Queued(out, e + 0, f)
                         /\ peer["service"] # "reset" => f = wrote["service"]
    BY <1>1, <1>2, <1>3 DEF DownRest
  <2>2. Queued(out, e, f)
    <3>1. e + 0 = e
      OBVIOUS
    <3> QED
      BY <2>1, <3>1
  <2>3. /\ Len(Head(out)) \in 1..MaxFrameLen /\ Numbered(Head(out), e)
        /\ Queued(Tail(out), e + Len(Head(out)), f)
    BY <1>1, <2>2, QueuedHead
  <2> QED
    BY <1>1, <2>1, <2>3
<1>4. DownRest(e)'
  BY <1>1, <1>3, DownRestGoal
<1> QED
  BY <1>1, <1>2, <1>4

\* A chunk becomes a frame on the stream.
LEMMA DownSends ==
  ASSUME Typed, Downwards, pump = "send", Push("down", p_data), pump' = "select",
         UNCHANGED <<peer, wrote, got, lost, c_down, c_buf, out>>
  PROVE  Downwards'
<1> SUFFICES ASSUME c_down' = "reading"
             PROVE  \E e \in Nat : /\ Stream(c_buf' \o wire'["down"], Len(got'["local"]), e, lost')
                                   /\ DownRest(e)'
  BY DownGoal
<1>1. PICK e \in Nat : /\ Stream(c_buf \o wire["down"], Len(got["local"]), e, lost)
                       /\ DownRest(e)
  BY DEF Downwards
<1>2. lost = "no" /\ p_data \in Seq(Nat) /\ c_buf \in Seq(Nat) /\ wire["down"] \in Seq(Nat)
      /\ got["local"] \in Seq(Nat)
  BY Dir DEF Push, Typed
<1>3. Len(got["local"]) \in Nat
  BY <1>2
<1>4. wire'["down"] = wire["down"] \o encode(p_data) /\ encode(p_data) \in Seq(Nat)
  BY <1>2, PushTyped, EncodeShape, Dir
<1>5. /\ Len(p_data) \in 1..MaxFrameLen /\ Numbered(p_data, e)
      /\ \E f \in Nat : /\ Queued(out, e + Len(p_data), f)
                        /\ peer["service"] # "reset" => f = wrote["service"]
  BY <1>1, <1>2 DEF DownRest
<1>6. PICK m \in Nat : m = e + Len(p_data) /\ m + 0 = m
  <2>1. Len(p_data) \in Nat
    BY <1>2
  <2>2. e + Len(p_data) \in Nat /\ e + Len(p_data) + 0 = e + Len(p_data)
    BY <2>1
  <2> QED
    BY <2>2
<1>7. Stream((c_buf \o wire["down"]) \o encode(p_data), Len(got["local"]), m, "no")
  <2>1. \A j \in 1..Len(p_data) : p_data[j] = e + j
    BY <1>5 DEF Numbered
  <2> DEFINE s == c_buf \o wire["down"]
             n == Len(got["local"])
  <2>2. s \in Seq(Nat) /\ n \in Nat /\ Stream(s, n, e, "no")
    BY <1>1, <1>2, <1>3
  <2> HIDE DEF s, n
  <2>3. Stream(s \o encode(p_data), n, e + Len(p_data), "no")
    BY <1>2, <1>5, <2>1, <2>2, StreamPush
  <2> QED
    BY <1>6, <2>3 DEF s, n
<1>8. (c_buf \o wire["down"]) \o encode(p_data) = c_buf \o (wire["down"] \o encode(p_data))
  BY <1>2, <1>4, Regroup, Zenon
<1>9. Stream(c_buf' \o wire'["down"], Len(got'["local"]), m, lost')
  BY <1>2, <1>4, <1>7, <1>8
<1>10. DownRest(m)'
  <2>1. \E f \in Nat : /\ Queued(out', m + 0, f)
                       /\ peer'["service"] # "reset" => f = wrote'["service"]
    BY <1>5, <1>6
  <2> QED
    BY <2>1, DownRestGoal
<1> QED
  BY <1>9, <1>10

\* The pump ends with nothing left to send.
LEMMA DownReturns ==
  ASSUME Typed, Downwards, pump \notin {"send", "finished"}, pump' = "finished", out = <<>>,
         UNCHANGED <<wrote, got, wire, lost, c_down, c_buf>>,
         peer'["service"] # "open", peer'["service"] # "reset" => peer["service"] # "reset"
  PROVE  Downwards'
<1> SUFFICES ASSUME c_down' = "reading"
             PROVE  \E e \in Nat : /\ Stream(c_buf' \o wire'["down"], Len(got'["local"]), e, lost')
                                   /\ DownRest(e)'
  BY DownGoal
<1>1. PICK e \in Nat : /\ Stream(c_buf \o wire["down"], Len(got["local"]), e, lost)
                       /\ DownRest(e)
  BY DEF Downwards
<1>2. e + 0 \in Nat /\ e + 0 = e
  OBVIOUS
<1>3. ASSUME lost = "no", peer["service"] # "reset" PROVE e = wrote["service"]
  <2>1. PICK f \in Nat : /\ Queued(out, e + 0, f)
                         /\ peer["service"] # "reset" => f = wrote["service"]
    BY <1>1, <1>3 DEF DownRest
  <2> QED
    BY <1>2, <1>3, <2>1, QueuedEmpty
<1>4. DownRest(e)'
  BY <1>3, DownRestGoal
<1> QED
  BY <1>1, <1>4

LEMMA DownwardsStep ==
  ASSUME Typed, Flags, Downwards, Next
  PROVE  Downwards'
<1> USE DEF peer_vars, sock_vars, stream_vars, reader_vars, sup_vars, pump_vars,
            client_vars, server_vars
<1>1. CASE ServiceBegins
  BY <1>1, DownStable DEF ServiceBegins
<1>2. CASE ServiceWrites
  BY <1>2, DownServiceWrites
<1>3. CASE ServiceReads
  <2>1. got'["local"] = got["local"]
    BY <1>3, Dir DEF ServiceReads, Typed
  <2> QED
    BY <1>3, <2>1, DownStable DEF ServiceReads
<1>4. ASSUME NEW p \in Peers, PeerHalfCloses(p) PROVE Downwards'
  <2>1. /\ UNCHANGED <<wrote, got, wire, lost, c_down, c_buf, out, pump, p_data>>
        /\ \A q \in Peers : peer'[q] = peer[q] \/ (peer[q] = "open" /\ peer'[q] = "half")
    BY <1>4 DEF PeerHalfCloses, Typed
  <2> QED
    BY <2>1, DownStable, Dir
<1>5. ASSUME NEW p \in Peers, PeerCloses(p) PROVE Downwards'
  <2>1. CASE p = "service" /\ peer' = [peer EXCEPT ![p] = "reset"]
    BY <1>5, <2>1, DownReset
  <2>2. CASE p = "service" /\ peer' = [peer EXCEPT ![p] = "closed"] /\ out' = out
    <3>1. /\ UNCHANGED <<wrote, got, wire, lost, c_down, c_buf, pump, p_data>>
          /\ peer'["service"] = "closed" /\ peer["service"] # "reset"
      BY <1>5, <2>2, Dir DEF PeerCloses, Typed, Reading
    <3> QED
      BY <2>2, <3>1, DownStable
  <2>3. CASE p = "local"
    <3>1. /\ UNCHANGED <<wrote, got, wire, lost, c_down, c_buf, pump, p_data, out>>
          /\ peer'["service"] = peer["service"]
      BY <1>5, <2>3, Dir DEF PeerCloses, Typed
    <3> QED
      BY <3>1, DownStable
  <2> QED
    BY <1>5, <2>1, <2>2, <2>3 DEF Peers, PeerCloses
<1>6. CASE ConnectionLost
  BY <1>6, DownLost
<1>7. CASE ClientForwards
  <2>1. PICK n \in 1..MaxFrameLen : /\ Push("up", [i \in 1..n |-> wrote["local"] + i])
                                    /\ wrote' = [wrote EXCEPT !["local"] = @ + n]
    BY <1>7 DEF ClientForwards
  <2>2. n \in Nat /\ wrote["local"] \in Nat
    BY Dir, FramingAssumption DEF Typed
  <2>3. [i \in 1..n |-> wrote["local"] + i] \in Seq(Nat)
    BY <2>2
  <2>4. wire'["down"] = wire["down"]
    BY <2>1, <2>3, PushTyped, Dir DEF Dirs
  <2>5. wrote'["service"] = wrote["service"]
    BY <2>1, Dir DEF Typed
  <2> QED
    BY <1>7, <2>4, <2>5, DownStable DEF ClientForwards
<1>8. CASE ClientUpEnds
  <2>1. wrote'["service"] = wrote["service"]
    BY <1>8, Dir DEF ClientUpEnds, Typed
  <2> QED
    BY <1>8, <2>1, DownStable DEF ClientUpEnds
<1>9. CASE ClientReceives
  <2>1. c_buf' \o wire'["down"] = c_buf \o wire["down"]
    BY <1>9, PullTyped, Dir DEF ClientReceives, Typed
  <2> QED
    BY <1>9, <2>1, DownStable DEF ClientReceives
<1>10. CASE ClientWrites
  BY <1>10, DownTakes
<1>11. CASE ClientDownEnds
  BY <1>11 DEF ClientDownEnds, Downwards
<1>12. CASE Refused
  <2>1. /\ pump = "opening" /\ pump' = "finished" /\ out = <<>> /\ peer["service"] = "open"
        /\ peer'["service"] = "closed" /\ UNCHANGED <<wrote, got, wire, lost, c_down, c_buf>>
    BY <1>12, Dir DEF Refused, Flags, Typed
  <2> QED
    BY <2>1, DownReturns
<1>13. CASE Connects
  BY <1>13, DownStable DEF Connects
<1>14. CASE ServerReceives
  <2>1. c_buf' \o wire'["down"] = c_buf \o wire["down"]
    BY <1>14, PullTyped, Dir DEF ServerReceives, Typed
  <2> QED
    BY <1>14, <2>1, DownStable DEF ServerReceives
<1>15. CASE ServerTakesFrame
  BY <1>15, DownStable DEF ServerTakesFrame
<1>16. CASE ServerReaderEnds
  BY <1>16, DownStable DEF ServerReaderEnds
<1>17. CASE UpEnds
  BY <1>17, DownStable DEF UpEnds
<1>18. CASE PumpTakesFrame
  BY <1>18, DownStable DEF PumpTakesFrame
<1>19. CASE PumpFramesEnd
  BY <1>19, DownStable DEF PumpFramesEnd
<1>20. CASE PumpWrites
  <2>1. /\ UNCHANGED <<peer, wrote, got, wire, lost, c_down, c_buf, out>>
        /\ pump = "write" /\ pump' \in {"select", "write"}
    BY <1>20 DEF PumpWrites
  <2> QED
    BY <2>1, DownStable
<1>21. CASE PumpTakesOutput
  BY <1>21, DownPumpTakes
<1>22. CASE PumpOutputEnds
  BY <1>22, DownStable DEF PumpOutputEnds
<1>23. CASE PumpSends
  <2>0. pump = "send"
    BY <1>23 DEF PumpSends
  <2>1. CASE Push("down", p_data) /\ pump' = "select"
             /\ UNCHANGED <<peer, wrote, got, lost, c_down, c_buf, out>>
    BY <2>0, <2>1, DownSends
  <2>2. CASE SendFails("down") /\ PumpReturns
    <3>1. UNCHANGED <<got, wire, lost, c_down, c_buf>> /\ pump' = "finished"
      BY <2>2 DEF PumpReturns
    <3>2. CASE lost = "yes"
      <4> SUFFICES ASSUME c_down' = "reading"
                   PROVE  \E e \in Nat : /\ Stream(c_buf' \o wire'["down"], Len(got'["local"]), e, lost')
                                         /\ DownRest(e)'
        BY DownGoal
      <4>1. PICK e \in Nat : Stream(c_buf \o wire["down"], Len(got["local"]), e, lost)
        BY <3>1 DEF Downwards
      <4>2. DownRest(e)'
        BY <3>1, <3>2 DEF DownRest
      <4> QED
        BY <3>1, <4>1, <4>2
    <3>3. CASE lost # "yes"
      <4>1. c_down = "ended"
        BY <2>2, <3>3, Dir DEF SendFails, Flags, Typed
      <4> QED
        BY <3>1, <4>1 DEF Downwards
    <3> QED
      BY <3>2, <3>3
  <2> QED
    BY <1>23, <2>1, <2>2 DEF PumpSends
<1>24. CASE PumpFinishes
  <2>1. /\ pump = "select" /\ pump' = "finished" /\ out = <<>> /\ peer["service"] # "open"
        /\ UNCHANGED <<peer, wrote, got, wire, lost, c_down, c_buf>>
    BY <1>24 DEF PumpFinishes, PumpReturns, Flags
  <2> QED
    BY <2>1, DownReturns
<1> QED
  BY <1>1, <1>2, <1>3, <1>4, <1>5, <1>6, <1>7, <1>8, <1>9, <1>10, <1>11, <1>12, <1>13,
     <1>14, <1>15, <1>16, <1>17, <1>18, <1>19, <1>20, <1>21, <1>22, <1>23, <1>24
  DEF Next, ServiceStep, BridgeDown, ReaderStep, PumpStep

\* The client's half ends at the end of the stream: the application has every byte.
LEMMA DownDoneStep ==
  ASSUME Typed, Flags, Downwards, DownDone, Next
  PROVE  DownDone'
<1> USE Dir DEF peer_vars, sock_vars, stream_vars, reader_vars, sup_vars, pump_vars,
                client_vars, server_vars, Reading, DownDone
<1>1. CASE ServiceBegins
  BY <1>1 DEF ServiceBegins
<1>2. CASE ServiceWrites
  <2>1. peer["service"] = "open" /\ UNCHANGED <<lost, peer, c_down, pump>>
    BY <1>2 DEF ServiceWrites, Flags
  <2> QED
    BY <2>1
<1>3. CASE ServiceReads
  <2>1. got'["local"] = got["local"] /\ UNCHANGED <<lost, peer, c_down, pump, wrote>>
    BY <1>3 DEF ServiceReads, Typed
  <2> QED
    BY <2>1
<1>4. ASSUME NEW p \in Peers, PeerHalfCloses(p) PROVE DownDone'
  <2>1. /\ UNCHANGED <<wrote, got, lost, c_down, pump>>
        /\ \A q \in Peers : peer'[q] = peer[q] \/ (peer[q] = "open" /\ peer'[q] = "half")
    BY <1>4 DEF PeerHalfCloses, Typed
  <2> QED
    BY <2>1
<1>5. ASSUME NEW p \in Peers, PeerCloses(p) PROVE DownDone'
  <2>1. /\ UNCHANGED <<wrote, got, lost, c_down, pump>>
        /\ peer[p] \in {"open", "half"} /\ peer'[p] \in {"closed", "reset"}
        /\ \A q \in Peers \ {p} : peer'[q] = peer[q]
    BY <1>5 DEF PeerCloses, Typed
  <2> QED
    BY <2>1 DEF Peers
<1>6. CASE ConnectionLost
  BY <1>6 DEF ConnectionLost
<1>7. CASE ClientForwards
  <2>1. wrote'["service"] = wrote["service"] /\ UNCHANGED <<lost, peer, c_down, pump, got>>
    BY <1>7 DEF ClientForwards, Typed
  <2> QED
    BY <2>1
<1>8. CASE ClientUpEnds
  <2>1. wrote'["service"] = wrote["service"] /\ UNCHANGED <<lost, peer, c_down, pump, got>>
    BY <1>8 DEF ClientUpEnds, Typed
  <2> QED
    BY <2>1
<1>9. CASE ClientReceives
  BY <1>9 DEF ClientReceives
<1>10. CASE ClientWrites
  BY <1>10 DEF ClientWrites
<1>11. CASE ClientDownEnds
  <2>1. /\ UNCHANGED <<lost, peer, pump, got, wrote>> /\ c_down = "reading"
        /\ NoMore("down", c_buf) \/ ~Reading("local")
    BY <1>11 DEF ClientDownEnds
  <2>2. PICK e \in Nat : /\ Stream(c_buf \o wire["down"], Len(got["local"]), e, lost)
                         /\ DownRest(e)
    BY <2>1 DEF Downwards
  <2>3. /\ ~TooLarge(c_buf)
        /\ lost = "no" /\ wire["down"] = <<>> /\ ~HasFrame(c_buf) => e = Len(got["local"])
    <3>1. c_buf \in Seq(Nat) /\ wire["down"] \in Seq(Nat) /\ got["local"] \in Seq(Nat)
      BY DEF Typed
    <3>2. Len(got["local"]) \in Nat
      BY <3>1
    <3> QED
      BY <2>2, <3>1, <3>2, StreamHead
  <2>4. ASSUME lost = "no", Reading("local")
        PROVE  pump = "finished" /\ e = Len(got["local"])
    <3>1. ~HasFrame(c_buf) /\ wire["down"] = <<>> /\ fin["down"] # "no"
      BY <2>1, <2>3, <2>4 DEF NoMore
    <3> QED
      BY <2>3, <2>4, <3>1 DEF Flags
  <2>5. lost = "no" /\ pump = "finished" /\ peer["service"] # "reset" =>
          e = wrote["service"] /\ peer["service"] # "open"
    BY <2>2 DEF DownRest
  <2> QED
    BY <2>1, <2>4, <2>5
<1>12. CASE Refused
  <2>1. /\ pump = "opening" /\ UNCHANGED <<lost, c_down>> /\ peer'["local"] = peer["local"]
    BY <1>12 DEF Refused, Typed
  <2> QED
    BY <2>1
<1>13. CASE Connects
  BY <1>13 DEF Connects
<1>14. CASE ServerReceives
  BY <1>14 DEF ServerReceives
<1>15. CASE ServerTakesFrame
  BY <1>15 DEF ServerTakesFrame
<1>16. CASE ServerReaderEnds
  BY <1>16 DEF ServerReaderEnds
<1>17. CASE UpEnds
  BY <1>17 DEF UpEnds
<1>18. CASE PumpTakesFrame
  BY <1>18 DEF PumpTakesFrame
<1>19. CASE PumpFramesEnd
  BY <1>19 DEF PumpFramesEnd
<1>20. CASE PumpWrites
  BY <1>20 DEF PumpWrites
<1>21. CASE PumpTakesOutput
  BY <1>21 DEF PumpTakesOutput
<1>22. CASE PumpOutputEnds
  BY <1>22 DEF PumpOutputEnds
<1>23. CASE PumpSends
  BY <1>23 DEF PumpSends, PumpReturns
<1>24. CASE PumpFinishes
  BY <1>24 DEF PumpFinishes, PumpReturns
<1> QED
  BY <1>1, <1>2, <1>3, <1>4, <1>5, <1>6, <1>7, <1>8, <1>9, <1>10, <1>11, <1>12, <1>13,
     <1>14, <1>15, <1>16, <1>17, <1>18, <1>19, <1>20, <1>21, <1>22, <1>23, <1>24
  DEF Next, ServiceStep, BridgeDown, ReaderStep, PumpStep

-----------------------------------------------------------------------------
(* Order                                                                   *)

\* s is the bytes from 1 on.
FromOne(s) == \A i \in 1..Len(s) : s[i] = i

LEMMA FromOneJoin ==
  ASSUME NEW s \in Seq(Nat), NEW d \in Seq(Nat)
  PROVE  /\ FromOne(s \o d) => FromOne(s)
         /\ FromOne(s) /\ Numbered(d, Len(s)) => FromOne(s \o d)
<1>1. /\ Len(s) \in Nat /\ Len(d) \in Nat /\ Len(s \o d) = Len(s) + Len(d)
      /\ \A i \in 1..Len(s) : (s \o d)[i] = s[i]
      /\ \A i \in 1..Len(d) : (s \o d)[Len(s) + i] = d[i]
  BY Joined
<1> DEFINE x == s \o d
<1>2. ASSUME FromOne(x) PROVE FromOne(s)
  <2> HIDE DEF x
  <2>1. \A i \in 1..Len(s) : i \in 1..Len(x)
    BY <1>1 DEF x
  <2>2. \A i \in 1..Len(s) : x[i] = s[i]
    BY <1>1 DEF x
  <2> QED
    BY <1>2, <2>1, <2>2 DEF FromOne
<1>3. ASSUME FromOne(s), Numbered(d, Len(s)), NEW i \in 1..Len(x) PROVE x[i] = i
  <2>1. CASE i \in 1..Len(s)
    BY <1>1, <1>3, <2>1 DEF FromOne
  <2>2. CASE i \notin 1..Len(s)
    <3>1. i - Len(s) \in 1..Len(d) /\ Len(s) + (i - Len(s)) = i
      BY <1>1, <2>2
    <3>2. x[Len(s) + (i - Len(s))] = d[i - Len(s)] /\ d[i - Len(s)] = Len(s) + (i - Len(s))
      BY <1>1, <1>3, <3>1 DEF Numbered
    <3> HIDE DEF x
    <3> QED
      BY <3>1, <3>2
  <2> QED
    BY <2>1, <2>2
<1> QED
  BY <1>2, <1>3 DEF FromOne

LEMMA InOrderMeans ==
  /\ InOrder <=> FromOne(got["local"]) /\ FromOne(got["service"] \o tx)
  /\ InOrder' <=> FromOne(got'["local"]) /\ FromOne(got'["service"] \o tx')
<1>1. Delivered("local") = got["local"] /\ Delivered("service") = got["service"] \o tx
  BY DEF Delivered
<1>2. Delivered("local")' = got'["local"] /\ Delivered("service")' = got'["service"] \o tx'
  BY DEF Delivered
<1>3. InOrder <=> FromOne(Delivered("local")) /\ FromOne(Delivered("service"))
  BY DEF InOrder, FromOne, Peers
<1>4. InOrder' <=> FromOne(Delivered("local")') /\ FromOne(Delivered("service")')
  BY DEF InOrder, FromOne, Peers
<1> QED
  BY <1>1, <1>2, <1>3, <1>4

LEMMA InOrderStep ==
  ASSUME Typed, InOrder, Upwards, Downwards, Next
  PROVE  InOrder'
<1> USE DEF peer_vars, sock_vars, stream_vars, reader_vars, sup_vars, pump_vars,
            client_vars, server_vars
<1>1. /\ got \in [Peers -> Seq(Nat)] /\ got["local"] \in Seq(Nat) /\ got["service"] \in Seq(Nat)
      /\ tx \in Seq(Nat) /\ p_data \in Seq(Nat)
  BY Dir DEF Typed
<1>2. FromOne(got["local"]) /\ FromOne(got["service"] \o tx)
  BY InOrderMeans
<1>3. ASSUME got' = got, tx' = tx PROVE InOrder'
  BY <1>2, <1>3, InOrderMeans
<1>4. CASE ServiceReads
  <2>1. got'["local"] = got["local"] /\ got'["service"] = got["service"] \o tx /\ tx' = <<>>
    BY <1>1, <1>4, Dir DEF ServiceReads
  <2>2. (got["service"] \o tx) \o <<>> = got["service"] \o tx
    <3>1. got["service"] \o tx \in Seq(Nat)
      BY <1>1, Joined
    <3> QED
      BY <3>1
  <2> QED
    BY <1>2, <2>1, <2>2, InOrderMeans
<1>5. ASSUME NEW p \in Peers, PeerCloses(p) PROVE InOrder'
  <2>1. got' = got /\ (tx' = tx \/ tx' = <<>>)
    BY <1>5 DEF PeerCloses
  <2>2. FromOne(got["service"])
    BY <1>1, <1>2, FromOneJoin
  <2>3. got["service"] \o <<>> = got["service"]
    BY <1>1
  <2> QED
    BY <1>2, <2>1, <2>2, <2>3, InOrderMeans
<1>6. CASE ClientWrites
  <2>1. /\ frame_body(c_buf) \in Seq(Nat) /\ got'["local"] = got["local"] \o frame_body(c_buf)
        /\ Numbered(frame_body(c_buf), Len(got["local"]))
    BY <1>6, DownTakes DEF Numbered
  <2>2. got'["service"] = got["service"] /\ tx' = tx
    BY <1>1, <1>6, Dir DEF ClientWrites
  <2>3. FromOne(got["local"] \o frame_body(c_buf))
    BY <1>1, <1>2, <2>1, FromOneJoin
  <2> QED
    BY <1>2, <2>1, <2>2, <2>3, InOrderMeans
<1>7. CASE PumpWrites
  <2>1. got' = got /\ pump = "write"
    BY <1>7 DEF PumpWrites
  <2>2. CASE Reading("service")
    <3>1. tx' = Append(tx, Head(p_data))
      BY <1>7, <2>2 DEF PumpWrites
    <3>2. p_data # <<>> /\ Numbered(p_data, Len(got["service"]) + Len(tx))
      BY <2>1, <2>2 DEF Upwards, UpHead
    <3> DEFINE h == Head(p_data)
               s == got["service"] \o tx
    <3>3. h \in Nat /\ h = (Len(got["service"]) + Len(tx)) + 1
      <4>1. 1 \in 1..Len(p_data) /\ h = p_data[1] /\ h \in Nat
        BY <1>1, <3>2
      <4> QED
        BY <3>2, <4>1 DEF Numbered
    <3>4. s \in Seq(Nat) /\ Len(s) = Len(got["service"]) + Len(tx)
      BY <1>1, Joined
    <3>5. got["service"] \o Append(tx, h) = s \o <<h>>
      <4>1. <<h>> \in Seq(Nat) /\ Append(tx, h) = tx \o <<h>>
        BY <1>1, <3>3
      <4>2. (got["service"] \o tx) \o <<h>> = got["service"] \o (tx \o <<h>>)
        BY <1>1, <4>1, Regroup, Zenon
      <4> QED
        BY <4>1, <4>2
    <3>6. FromOne(s)
      BY <1>2
    <3> HIDE DEF s, h
    <3>7. <<h>> \in Seq(Nat) /\ Numbered(<<h>>, Len(s))
      BY <3>3, <3>4 DEF Numbered
    <3>8. FromOne(s \o <<h>>)
      BY <3>4, <3>6, <3>7, FromOneJoin
    <3> QED
      BY <1>2, <2>1, <3>1, <3>5, <3>8, InOrderMeans DEF h
  <2>3. CASE ~Reading("service")
    BY <1>3, <1>7, <2>1, <2>3 DEF PumpWrites
  <2> QED
    BY <2>2, <2>3
<1>8. CASE ServiceBegins \/ ServiceWrites \/ ConnectionLost \/ ClientForwards \/ ClientUpEnds
  BY <1>3, <1>8 DEF ServiceBegins, ServiceWrites, ConnectionLost, ClientForwards, ClientUpEnds
<1>9. ASSUME NEW p \in Peers, PeerHalfCloses(p) PROVE InOrder'
  BY <1>3, <1>9 DEF PeerHalfCloses
<1>10. CASE ClientReceives \/ ClientDownEnds \/ ReaderStep \/ UpEnds
  BY <1>3, <1>10 DEF ClientReceives, ClientDownEnds, ReaderStep, ServerReceives,
     ServerTakesFrame, ServerReaderEnds, UpEnds
<1>11. CASE \/ Refused \/ Connects \/ PumpTakesFrame \/ PumpFramesEnd
            \/ PumpTakesOutput \/ PumpOutputEnds \/ PumpSends \/ PumpFinishes
  BY <1>3, <1>11 DEF Refused, Connects, PumpTakesFrame, PumpFramesEnd, PumpTakesOutput,
     PumpOutputEnds, PumpSends, PumpFinishes, PumpReturns
<1> QED
  BY <1>4, <1>5, <1>6, <1>7, <1>8, <1>9, <1>10, <1>11
  DEF Next, ServiceStep, BridgeDown, PumpStep

-----------------------------------------------------------------------------
LEMMA ForwardInit == Init => ForwardInv
<1> SUFFICES ASSUME Init PROVE ForwardInv
  OBVIOUS
<1>1. Typed
  BY ForwardTypes
<1>2. Flags
  BY Dir DEF Init, Flags
<1>3. /\ got["local"] = <<>> /\ got["service"] = <<>> /\ tx = <<>> /\ c_buf = <<>> /\ s_buf = <<>>
      /\ wrote["local"] = 0 /\ wrote["service"] = 0
      /\ frames = <<>> /\ out = <<>> /\ pump = "opening" /\ frames_done = "no"
      /\ shut["service"] = "no" /\ s_reader = "reading" /\ c_down = "reading" /\ lost = "no"
  BY Dir DEF Init
<1>4. wire["up"] = <<>> /\ wire["down"] = <<>>
  BY Empties DEF Init
<1>5. Len(<<>>) = 0 /\ 0 \in Nat /\ <<>> \o <<>> = <<>>
  OBVIOUS
<1>6. InOrder
  BY <1>3, <1>5, InOrderMeans DEF FromOne
<1>7. Queued(<<>>, 0, 0) /\ Stream(<<>>, 0, 0, "no")
  BY <1>5, QueuedEmpty, StreamEmpty
<1>8. Upwards
  <2>1. UpFrom = 0 + 0 + 0 /\ 0 + 0 + 0 = 0
    BY <1>3, <1>5 DEF UpFrom
  <2>2. UpRest(0)
    BY <1>3, <1>4, <1>5, <1>7 DEF UpRest
  <2>3. UpHead
    BY <1>3 DEF UpHead
  <2>4. Queued(frames, UpFrom, 0)
    BY <1>3, <1>7, <2>1
  <2> QED
    BY <1>5, <2>2, <2>3, <2>4 DEF Upwards
<1>9. Downwards
  <2>1. Queued(out, 0 + 0, 0)
    <3>1. 0 + 0 = 0
      OBVIOUS
    <3> QED
      BY <1>3, <1>7, <3>1
  <2>2. DownRest(0)
    BY <1>3, <1>5, <2>1 DEF DownRest
  <2>3. Stream(c_buf \o wire["down"], Len(got["local"]), 0, lost)
    BY <1>3, <1>4, <1>5, <1>7
  <2> QED
    BY <1>5, <2>2, <2>3 DEF Downwards
<1>10. UpDone /\ DownDone
  BY <1>3 DEF UpDone, DownDone
<1> QED
  BY <1>1, <1>2, <1>6, <1>8, <1>9, <1>10 DEF ForwardInv

LEMMA ForwardStutter == ForwardInv /\ UNCHANGED vars => ForwardInv'
<1> SUFFICES ASSUME ForwardInv, UNCHANGED vars PROVE ForwardInv'
  OBVIOUS
<1> USE DEF vars, peer_vars, sock_vars, stream_vars, reader_vars, sup_vars, pump_vars,
            client_vars, server_vars, ForwardInv
<1>1. Typed'
  BY DEF Typed
<1>2. Flags'
  BY DEF Flags
<1>3. InOrder'
  BY InOrderMeans
<1>4. Upwards'
  BY UpStable DEF Reading
<1>5. Downwards'
  BY DownStable
<1>6. UpDone' /\ DownDone'
  BY DEF UpDone, DownDone, Reading
<1> QED
  BY <1>1, <1>2, <1>3, <1>4, <1>5, <1>6

LEMMA ForwardInductive == Spec => []ForwardInv
<1>1. ForwardInv /\ [Next]_vars => ForwardInv'
  <2> SUFFICES ASSUME ForwardInv, [Next]_vars PROVE ForwardInv'
    OBVIOUS
  <2>1. CASE Next
    BY <2>1, TypedStep, FlagsStep, InOrderStep, UpwardsStep, UpDoneStep, DownwardsStep,
       DownDoneStep DEF ForwardInv
  <2>2. CASE UNCHANGED vars
    BY <2>2, ForwardStutter
  <2> QED
    BY <2>1, <2>2
<1> QED
  BY <1>1, ForwardInit, PTL DEF Spec

\* Either peer receives what the other wrote, in order and without a gap or a
\* repetition, for every frame size, queue, socket and cut of the stream, and
\* wherever the connection is lost or a peer resets (lib.rs:207-226, take_frame;
\* main.rs:1022-1054, bridge; session.rs:490-543, pump_forward).
THEOREM InOrderHolds == Spec => []InOrder
<1>1. ForwardInv => InOrder
  BY DEF ForwardInv
<1> QED
  BY <1>1, ForwardInductive, PTL

\* A peer whose input quish ended has everything the other one wrote (bridge's
\* shutdown, pump_forward's, and what both leave unsent), but for the cases that
\* EofAfterAll excepts.
THEOREM EofAfterAllHolds == Spec => []EofAfterAll
<1>1. ForwardInv => EofAfterAll
  <2> SUFFICES ASSUME ForwardInv, lost = "no", Reading("local")
               PROVE  /\ shut["local"] = "yes" /\ peer["service"] # "reset" =>
                           /\ Len(Delivered("local")) = wrote["service"]
                           /\ peer["service"] # "open"
                      /\ shut["service"] = "yes" /\ Reading("service") =>
                           /\ Len(Delivered("service")) = wrote["local"]
                           /\ peer["local"] = "half"
    BY DEF EofAfterAll
  <2>1. shut["local"] = "yes" /\ peer["service"] # "reset" =>
          Len(Delivered("local")) = wrote["service"] /\ peer["service"] # "open"
    BY DEF ForwardInv, DownDone, Flags, Delivered
  <2>2. Len(Delivered("service")) = Len(got["service"]) + Len(tx)
    <3>1. got["service"] \in Seq(Nat) /\ tx \in Seq(Nat)
      BY Dir DEF ForwardInv, Typed
    <3> QED
      BY <3>1, Joined DEF Delivered
  <2>3. shut["service"] = "yes" /\ Reading("service") =>
          Len(Delivered("service")) = wrote["local"] /\ peer["local"] = "half"
    BY <2>2 DEF ForwardInv, UpDone
  <2> QED
    BY <2>1, <2>3
<1> QED
  BY <1>1, ForwardInductive, PTL

-----------------------------------------------------------------------------
(* The sockets of a -R forward, before a pump has them (RemoteForward)     *)

\* A conn_ref is drawn once: what is above next_ref is in nobody's hands, so
\* that a new socket displaces none.
Holders ==
  /\ parked \subseteq Refs
  /\ next_ref \in Nat
  /\ owner \in [Refs -> Conns \cup {NoConn}]
  /\ held \in [Refs -> {"none", "table", "closed"} \cup Conns]
  /\ \A r \in Refs : r > next_ref => held[r] = "none"
  /\ OneHolder

LEMMA HoldersInitial == RemoteInit => Holders
BY RemoteForwardAssumption DEF RemoteInit, Holders, OneHolder, Refs, NoConn

\* Claims, the timer and the listener's clean-up take a socket out of the table
\* and give it to one holder in one step.
LEMMA HoldersNext ==
  ASSUME Holders, [RemoteNext]_remote_vars
  PROVE  Holders'
<1> USE RemoteForwardAssumption DEF Holders, OneHolder, Refs
<1>1. ASSUME NEW k \in Forwards, AcceptInbound(k)
      PROVE  Holders'
  <2>0. ConnOf[k] \in Conns
    BY DEF Forwards
  <2> DEFINE r == next_ref + 1
  <2>1. r \in Refs /\ held[r] = "none" /\ r \notin parked
    BY <1>1 DEF AcceptInbound
  <2>2. next_ref' = r /\ owner' = [owner EXCEPT ![r] = ConnOf[k]]
    BY <1>1 DEF AcceptInbound
  <2>3. CASE parked' = parked \cup {r} /\ held' = [held EXCEPT ![r] = "table"]
    BY <2>0, <2>1, <2>2, <2>3
  <2>4. CASE parked' = parked /\ held' = [held EXCEPT ![r] = "closed"]
    BY <2>0, <2>1, <2>2, <2>4
  <2> QED
    BY <1>1, <2>3, <2>4 DEF AcceptInbound
<1>2. ASSUME NEW k \in Forwards, SignalFails(k)
      PROVE  Holders'
  <2>1. CASE UNCHANGED <<parked, held, owner, next_ref>>
    BY <2>1
  <2>2. CASE /\ announcing[k] \in parked
             /\ parked' = parked \ {announcing[k]}
             /\ held' = [held EXCEPT ![announcing[k]] = "closed"]
             /\ UNCHANGED <<owner, next_ref>>
    BY <2>2
  <2> QED
    BY <1>2, <2>1, <2>2 DEF SignalFails, Claimable
<1>3. ASSUME NEW c \in Conns, NEW r \in Refs, OpenData(c, r)
      PROVE  Holders'
  <2>1. CASE UNCHANGED <<parked, held, owner, next_ref>>
    BY <2>1
  <2>2. CASE /\ r \in parked /\ owner[r] = c
             /\ parked' = parked \ {r} /\ held' = [held EXCEPT ![r] = c]
             /\ UNCHANGED <<owner, next_ref>>
    BY <2>2
  <2> QED
    BY <1>3, <2>1, <2>2 DEF OpenData, Claimable
<1>4. ASSUME NEW c \in Conns, NEW r \in Refs, PumpEnds(c, r)
      PROVE  Holders'
  BY <1>4 DEF PumpEnds
<1>5. ASSUME NEW r \in Refs, TimerFires(r)
      PROVE  Holders'
  BY <1>5 DEF TimerFires, Evicted
<1>6. ASSUME UNCHANGED <<parked, next_ref, owner, held>>
      PROVE  Holders'
  BY <1>6
<1>7. ASSUME NEW k \in Forwards,
             \/ Listen(k) \/ SignalSent(k) \/ ListenEnds(k)
             \/ ClientHears(k) \/ ControlEnds(k)
      PROVE  Holders'
  BY <1>6, <1>7
     DEF Listen, SignalSent, ListenEnds, ClientHears, ControlEnds, table_vars
<1>8. ASSUME NEW c \in Conns, CommandEnds(c)
      PROVE  Holders'
  BY <1>6, <1>8 DEF CommandEnds, table_vars
<1>9. ASSUME NEW r \in Refs, ClientDials(r)
      PROVE  Holders'
  BY <1>6, <1>9 DEF ClientDials, table_vars
<1>10. CASE UNCHANGED remote_vars
  BY <1>6, <1>10 DEF remote_vars, table_vars
<1> QED
  BY <1>1, <1>2, <1>3, <1>4, <1>5, <1>7, <1>8, <1>9, <1>10 DEF RemoteNext

\* For every size of the table and every set of connections, rogue ones included:
\* take_conn and the eviction of park_conn give a socket to exactly one of the
\* tasks that race for it, and a data channel gets only one that was accepted for
\* its own connection.
THEOREM SocketHasOneHolder == RemoteSpec => []OneHolder
<1>1. Holders => OneHolder
  BY DEF Holders
<1>2. Holders /\ [RemoteNext]_remote_vars => Holders'
  BY HoldersNext
<1> QED
  BY <1>1, <1>2, HoldersInitial, PTL DEF RemoteSpec
=============================================================================
