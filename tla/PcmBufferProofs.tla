-------------------------- MODULE PcmBufferProofs --------------------------
(***************************************************************************)
(* What holds of the PCM buffer whatever the sizes of the ring, of the     *)
(* queue of rows, of the frames and of the encoder's own buffer, and       *)
(* however much is written: the counters match the ring, the stream of     *)
(* bytes and track changes is passed on in order, and an orderly shutdown  *)
(* finishes the current track.                                             *)
(*                                                                         *)
(* EndOf and Pending are recursive functions over the rows.  They are      *)
(* reasoned about through what characterises them (Ends, Streams): such a  *)
(* function exists and there is only one, both by induction over sets of   *)
(* numbers.  An action then maps one such function to another one.         *)
(***************************************************************************)
EXTENDS PcmBuffer, TLAPS, SequenceTheorems, WellFoundedInduction

-----------------------------------------------------------------------------
(* Induction.                                                              *)

\* A set that has 0 and with every number the next one has them all.
LEMMA SetInduction ==
  ASSUME NEW S, 0 \in S, \A n \in Nat : n \in S => n + 1 \in S
  PROVE  Nat \subseteq S
<1> DEFINE R == {ss \in Nat \X Nat : ss[1] < ss[2]}
           T == Nat \ S
<1>1. IsWellFoundedOn(R, Nat)
  BY NatLessThanWellFounded DEF OpToRel
<1>2. SUFFICES ASSUME T # {} PROVE FALSE
  OBVIOUS
<1> HIDE DEF R
<1>3. PICK x \in T : \A y \in T : ~ (<<y, x>> \in R)
  BY <1>1, <1>2, WFMin
<1>4. x \in Nat /\ x # 0 /\ x - 1 \in Nat /\ x = (x - 1) + 1
  OBVIOUS
<1>5. x - 1 \in T
  BY <1>4
<1>6. <<x - 1, x>> \in R
  BY <1>4 DEF R
<1> QED
  BY <1>3, <1>5, <1>6

-----------------------------------------------------------------------------
(* Sequences.                                                              *)

\* A piece of a sequence.
LEMMA Piece ==
  ASSUME NEW S, NEW s \in Seq(S), NEW a \in Nat, NEW b \in Nat,
         a <= b, b <= Len(s)
  PROVE  /\ SubSeq(s, a + 1, b) \in Seq(S)
         /\ Len(SubSeq(s, a + 1, b)) = b - a
         /\ \A i \in 1 .. b - a : SubSeq(s, a + 1, b)[i] = s[a + i]
  BY SubSeqProperties

\* Two adjacent pieces are one.
LEMMA Joined ==
  ASSUME NEW S, NEW s \in Seq(S), NEW a \in Nat, NEW b \in Nat, NEW c \in Nat,
         a <= b, b <= c, c <= Len(s)
  PROVE  SubSeq(s, a + 1, b) \o SubSeq(s, b + 1, c) = SubSeq(s, a + 1, c)
<1> DEFINE p == SubSeq(s, a + 1, b)
           q == SubSeq(s, b + 1, c)
           r == SubSeq(s, a + 1, c)
<1>1. /\ p \in Seq(S) /\ Len(p) = b - a /\ \A i \in 1 .. b - a : p[i] = s[a + i]
      /\ q \in Seq(S) /\ Len(q) = c - b /\ \A i \in 1 .. c - b : q[i] = s[b + i]
      /\ r \in Seq(S) /\ Len(r) = c - a /\ \A i \in 1 .. c - a : r[i] = s[a + i]
  BY Piece
<1> HIDE DEF p, q, r
<1>2. /\ p \o q \in Seq(S) /\ Len(p \o q) = Len(p) + Len(q)
      /\ \A i \in 1 .. Len(p) + Len(q) :
           (p \o q)[i] = IF i <= Len(p) THEN p[i] ELSE q[i - Len(p)]
  BY <1>1, ConcatProperties
<1>3. Len(p) + Len(q) = c - a
  BY <1>1
<1>4. \A i \in 1 .. c - a : (p \o q)[i] = r[i]
  <2> TAKE i \in 1 .. c - a
  <2>1. CASE i <= b - a
    BY <1>1, <1>2, <1>3, <2>1
  <2>2. CASE ~(i <= b - a)
    <3>1. i - (b - a) \in 1 .. c - b /\ b + (i - (b - a)) = a + i
      BY <2>2
    <3> QED
      BY <1>1, <1>2, <1>3, <2>2, <3>1
  <2> QED
    BY <2>1, <2>2
<1>5. p \o q = r
  BY <1>1, <1>2, <1>3, <1>4, SeqEqual
<1> QED
  BY <1>5 DEF p, q, r

\* A piece of what is left of a sequence after its first n elements.
LEMMA PieceOfRest ==
  ASSUME NEW S, NEW s \in Seq(S), NEW n \in Nat, NEW a \in Nat, NEW b \in Nat,
         n <= a, a <= b, b <= Len(s)
  PROVE  SubSeq(SubSeq(s, n + 1, Len(s)), (a - n) + 1, b - n) = SubSeq(s, a + 1, b)
<1> DEFINE t == SubSeq(s, n + 1, Len(s))
           p == SubSeq(t, (a - n) + 1, b - n)
           r == SubSeq(s, a + 1, b)
<1>1. /\ t \in Seq(S) /\ Len(t) = Len(s) - n
      /\ \A i \in 1 .. Len(s) - n : t[i] = s[n + i]
  BY Piece
<1>2. r \in Seq(S) /\ Len(r) = b - a /\ \A i \in 1 .. b - a : r[i] = s[a + i]
  BY Piece
<1> HIDE DEF t, r
<1>3. p \in Seq(S) /\ Len(p) = b - a /\ \A i \in 1 .. b - a : p[i] = t[(a - n) + i]
  <2>1. a - n \in Nat /\ b - n \in Nat /\ a - n <= b - n /\ b - n <= Len(t)
        /\ (b - n) - (a - n) = b - a
    BY <1>1
  <2> DEFINE x == a - n  y == b - n
  <2> HIDE DEF x, y
  <2>2. /\ SubSeq(t, x + 1, y) \in Seq(S) /\ Len(SubSeq(t, x + 1, y)) = y - x
        /\ \A i \in 1 .. y - x : SubSeq(t, x + 1, y)[i] = t[x + i]
    BY <1>1, <2>1, Piece DEF x, y
  <2> QED
    BY <2>1, <2>2 DEF x, y
<1> HIDE DEF p
<1>4. \A i \in 1 .. b - a : p[i] = r[i]
  <2> TAKE i \in 1 .. b - a
  <2>1. (a - n) + i \in 1 .. Len(s) - n /\ n + ((a - n) + i) = a + i
    OBVIOUS
  <2> QED
    BY <1>1, <1>2, <1>3, <2>1
<1>5. p = r
  BY <1>2, <1>3, <1>4, SeqEqual
<1> QED
  BY <1>5 DEF t, p, r

\* What is put after a sequence leaves its pieces alone.
LEMMA PieceOfLonger ==
  ASSUME NEW S, NEW s \in Seq(S), NEW t \in Seq(S), NEW a \in Nat, NEW b \in Nat,
         a <= b, b <= Len(s)
  PROVE  SubSeq(s \o t, a + 1, b) = SubSeq(s, a + 1, b)
<1> DEFINE p == SubSeq(s \o t, a + 1, b)
           r == SubSeq(s, a + 1, b)
<1>1. r \in Seq(S) /\ Len(r) = b - a /\ \A i \in 1 .. b - a : r[i] = s[a + i]
  BY Piece
<1>2. s \o t \in Seq(S) /\ b <= Len(s \o t)
  BY ConcatProperties
<1>3. p \in Seq(S) /\ Len(p) = b - a /\ \A i \in 1 .. b - a : p[i] = (s \o t)[a + i]
  BY <1>2, Piece
<1> HIDE DEF p, r
<1>4. \A i \in 1 .. b - a : p[i] = r[i]
  BY <1>1, <1>3, ConcatProperties
<1>5. p = r
  BY <1>1, <1>3, <1>4, SeqEqual
<1> QED
  BY <1>5 DEF p, r

\* ... and its remainder is the remainder and what was put after it.
LEMMA RestOfLonger ==
  ASSUME NEW S, NEW s \in Seq(S), NEW t \in Seq(S), NEW a \in Nat, a <= Len(s)
  PROVE  SubSeq(s \o t, a + 1, Len(s \o t)) = SubSeq(s, a + 1, Len(s)) \o t
<1> DEFINE p == SubSeq(s \o t, a + 1, Len(s \o t))
           r == SubSeq(s, a + 1, Len(s))
<1>1. r \in Seq(S) /\ Len(r) = Len(s) - a /\ \A i \in 1 .. Len(s) - a : r[i] = s[a + i]
  BY Piece
<1>2. s \o t \in Seq(S) /\ Len(s \o t) = Len(s) + Len(t)
  BY ConcatProperties
<1>3. /\ p \in Seq(S) /\ Len(p) = Len(s) + Len(t) - a
      /\ \A i \in 1 .. Len(s) + Len(t) - a : p[i] = (s \o t)[a + i]
  BY <1>2, Piece
<1> HIDE DEF p, r
<1>4. /\ r \o t \in Seq(S) /\ Len(r \o t) = Len(s) + Len(t) - a
      /\ \A i \in 1 .. Len(s) + Len(t) - a :
           (r \o t)[i] = IF i <= Len(s) - a THEN r[i] ELSE t[i - (Len(s) - a)]
  <2>1. /\ r \o t \in Seq(S) /\ Len(r \o t) = Len(r) + Len(t)
        /\ \A i \in 1 .. Len(r) + Len(t) :
             (r \o t)[i] = IF i <= Len(r) THEN r[i] ELSE t[i - Len(r)]
    BY <1>1, ConcatProperties
  <2>2. Len(r) + Len(t) = Len(s) + Len(t) - a
    BY <1>1
  <2> QED
    BY <1>1, <2>1, <2>2
<1>5. \A i \in 1 .. Len(s) + Len(t) - a : p[i] = (r \o t)[i]
  <2> TAKE i \in 1 .. Len(s) + Len(t) - a
  <2>1. a + i \in 1 .. Len(s) + Len(t)
    OBVIOUS
  <2>2. (s \o t)[a + i] = IF a + i <= Len(s) THEN s[a + i] ELSE t[(a + i) - Len(s)]
    BY <2>1, ConcatProperties
  <2>3. p[i] = IF a + i <= Len(s) THEN s[a + i] ELSE t[(a + i) - Len(s)]
    BY <1>3, <2>2
  <2>4. (a + i) - Len(s) = i - (Len(s) - a)
    OBVIOUS
  <2> QED
    BY <1>1, <1>4, <2>3, <2>4
<1>6. p = r \o t
  BY <1>3, <1>4, <1>5, SeqEqual
<1> QED
  BY <1>6 DEF p, r

-----------------------------------------------------------------------------
(* The two recursive functions.                                            *)

Items == {Byte(i) : i \in Nat} \cup {Change(k) : k \in Nat}
Row   == [track : Nat, bytes : Nat]

\* e gives where the bytes of each of the rows rs end.
Ends(e, rs, base) ==
  /\ e \in [0 .. Len(rs) -> Nat]
  /\ e[0] = base
  /\ \A j \in 1 .. Len(rs) : e[j] = e[j - 1] + rs[j].bytes

\* u gives the stream up to the end of each of the rows rs of the ring rg.
Streams(u, e, rs, rg) ==
  /\ u \in [0 .. Len(rs) -> Seq(Items)]
  /\ u[0] = SubSeq(rg, 1, e[0])
  /\ \A j \in 1 .. Len(rs) :
       u[j] = u[j - 1] \o <<Change(rs[j].track)>> \o SubSeq(rg, e[j - 1] + 1, e[j])

\* The functions in EndOf and Pending.
EndsOf(rs, base) ==
  CHOOSE e : e = [j \in 0 .. Len(rs) |->
                    IF j = 0 THEN base ELSE e[j - 1] + rs[j].bytes]
StreamsOf(e, rs, rg) ==
  CHOOSE u : u = [j \in 0 .. Len(rs) |->
                    IF j = 0 THEN SubSeq(rg, 1, e[0])
                    ELSE u[j - 1] \o <<Change(rs[j].track)>>
                                  \o SubSeq(rg, e[j - 1] + 1, e[j])]

LEMMA EndOfIs ==
  /\ \A i : EndOf(i) = EndsOf(rows, claimed + pcmLeft)[i]
  /\ \A i : EndOf(i)' = EndsOf(rows', claimed' + pcmLeft')[i]
  BY DEF EndOf, EndsOf

Whole(e, rs, rg) ==
  StreamsOf(e, rs, rg)[Len(rs)] \o SubSeq(rg, e[Len(rs)] + 1, Len(rg))

LEMMA PendingIs ==
  /\ Pending  = Whole(EndsOf(rows, claimed + pcmLeft), rows, ring)
  /\ Pending' = Whole(EndsOf(rows', claimed' + pcmLeft'), rows', ring')
  BY DEF Pending, EndOf, EndsOf, StreamsOf, Whole

\* There is such a function.
LEMMA EndsExist ==
  ASSUME NEW rs \in Seq(Row), NEW base \in Nat
  PROVE  Ends(EndsOf(rs, base), rs, base)
<1> DEFINE n == Len(rs)
           F(f, m) == /\ f \in [0 .. m -> Nat] /\ f[0] = base
                      /\ \A j \in 1 .. m : j <= n => f[j] = f[j - 1] + rs[j].bytes
           S == {m \in Nat : \E f : F(f, m)}
<1>1. n \in Nat /\ \A j \in 1 .. n : rs[j].bytes \in Nat
  <2>1. n \in Nat /\ \A j \in 1 .. n : rs[j] \in Row
    OBVIOUS
  <2> QED
    BY <2>1 DEF Row
<1>2. 0 \in S
  <2>1. F([j \in 0 .. 0 |-> base], 0)
    OBVIOUS
  <2> QED
    BY <2>1
<1>3. ASSUME NEW m \in Nat, m \in S
      PROVE  m + 1 \in S
  <2>1. PICK f : F(f, m)
    BY <1>3
  <2> DEFINE g == [j \in 0 .. m + 1 |->
                     IF j <= m THEN f[j]
                     ELSE IF j <= n THEN f[m] + rs[j].bytes ELSE 0]
  <2>2. g \in [0 .. m + 1 -> Nat] /\ g[0] = base
    BY <1>1, <2>1
  <2>3. ASSUME NEW j \in 1 .. m + 1, j <= n
        PROVE  g[j] = g[j - 1] + rs[j].bytes
    <3>1. CASE j <= m
      BY <2>1, <2>3, <3>1
    <3>2. CASE j = m + 1
      <4>1. j - 1 = m /\ m \in 0 .. m + 1 /\ ~(j <= m)
        BY <3>2
      <4> QED
        BY <2>3, <4>1
    <3> QED
      BY <3>1, <3>2
  <2>4. F(g, m + 1)
    BY <2>2, <2>3
  <2> HIDE DEF g, F
  <2> QED
    BY <2>4
<1>4. Nat \subseteq S
  <2> HIDE DEF S
  <2> QED
    BY <1>2, <1>3, SetInduction
<1>5. PICK f : F(f, n)
  <2>1. n \in S
    BY <1>1, <1>4
  <2> HIDE DEF F
  <2> QED
    BY <2>1
<1> DEFINE E(g) == [j \in 0 .. Len(rs) |-> IF j = 0 THEN base ELSE g[j - 1] + rs[j].bytes]
           end == CHOOSE g : g = E(g)
<1>6. f = E(f)
  <2>1. f \in [0 .. n -> Nat] /\ f[0] = base
    BY <1>5
  <2>2. \A j \in 1 .. n : f[j] = f[j - 1] + rs[j].bytes
    BY <1>5
  <2>3. \A j \in 0 .. n : f[j] = IF j = 0 THEN base ELSE f[j - 1] + rs[j].bytes
    BY <1>1, <2>1, <2>2
  <2> QED
    BY <2>1, <2>3
<1>7. end = E(end)
  BY <1>6
<1> HIDE DEF end
<1>8. end[0] = base /\ \A j \in 1 .. n : end[j] = end[j - 1] + rs[j].bytes
  BY <1>1, <1>7
<1> DEFINE T == {j \in Nat : j <= n => end[j] \in Nat}
<1>9. Nat \subseteq T
  <2>1. 0 \in T
    BY <1>8
  <2>2. ASSUME NEW j \in Nat, j \in T
        PROVE  j + 1 \in T
    <3>1. CASE j + 1 <= n
      <4>1. j + 1 \in 1 .. n /\ (j + 1) - 1 = j /\ end[j] \in Nat
        BY <1>1, <2>2, <3>1
      <4> QED
        BY <1>1, <1>8, <4>1
    <3> QED
      BY <3>1
  <2> HIDE DEF T
  <2> QED
    BY <2>1, <2>2, SetInduction
<1>10. end \in [0 .. n -> Nat]
  <2>1. \A j \in 0 .. n : end[j] \in Nat
    BY <1>1, <1>9
  <2> QED
    BY <1>7, <2>1
<1>11. end = EndsOf(rs, base)
  BY DEF EndsOf, end
<1> QED
  BY <1>8, <1>10, <1>11 DEF Ends

\* There is no other one.
LEMMA EndsUnique ==
  ASSUME NEW rs \in Seq(Row), NEW base \in Nat, NEW e, NEW f,
         Ends(e, rs, base), Ends(f, rs, base)
  PROVE  e = f
<1> DEFINE n == Len(rs)
           S == {j \in Nat : j <= n => e[j] = f[j]}
<1>1. n \in Nat
  OBVIOUS
<1>2. /\ e \in [0 .. n -> Nat] /\ f \in [0 .. n -> Nat] /\ e[0] = f[0]
      /\ \A j \in 1 .. n : e[j] = e[j - 1] + rs[j].bytes /\ f[j] = f[j - 1] + rs[j].bytes
  BY DEF Ends
<1>3. Nat \subseteq S
  <2>1. 0 \in S
    BY <1>2
  <2>2. ASSUME NEW j \in Nat, j \in S
        PROVE  j + 1 \in S
    <3>1. CASE j + 1 <= n
      <4>1. j + 1 \in 1 .. n /\ (j + 1) - 1 = j /\ e[j] = f[j]
        BY <1>1, <2>2, <3>1
      <4> QED
        BY <1>2, <4>1
    <3> QED
      BY <3>1
  <2> HIDE DEF S
  <2> QED
    BY <2>1, <2>2, SetInduction
<1>4. \A j \in 0 .. n : e[j] = f[j]
  BY <1>1, <1>3
<1> QED
  BY <1>2, <1>4

\* The rows end one after the other.
LEMMA EndsGrow ==
  ASSUME NEW rs \in Seq(Row), NEW base \in Nat, NEW e, Ends(e, rs, base)
  PROVE  /\ Len(rs) \in Nat /\ \A j \in 1 .. Len(rs) : rs[j] \in Row /\ rs[j].bytes \in Nat
         /\ \A j \in 0 .. Len(rs) : e[j] \in Nat
         /\ \A i, j \in 0 .. Len(rs) : i <= j => e[i] <= e[j]
<1> DEFINE n == Len(rs)
<1>1. n \in Nat /\ \A j \in 1 .. n : rs[j] \in Row
  OBVIOUS
<1>2. \A j \in 1 .. n : rs[j].bytes \in Nat
  BY <1>1 DEF Row
<1>3. e \in [0 .. n -> Nat] /\ \A j \in 1 .. n : e[j] = e[j - 1] + rs[j].bytes
  BY DEF Ends
<1>4. ASSUME NEW i \in 0 .. n
      PROVE  \A j \in 0 .. n : i <= j => e[i] <= e[j]
  <2> DEFINE S == {j \in Nat : j <= n /\ i <= j => e[i] <= e[j]}
  <2>1. 0 \in S
    BY <1>3
  <2>2. ASSUME NEW j \in Nat, j \in S
        PROVE  j + 1 \in S
    <3>1. CASE j + 1 <= n /\ i <= j
      <4>1. j + 1 \in 1 .. n /\ (j + 1) - 1 = j /\ e[i] <= e[j]
        BY <1>1, <2>2, <3>1
      <4>2. e[i] \in Nat /\ e[j] \in Nat /\ rs[j + 1].bytes \in Nat
        BY <1>1, <1>2, <1>3, <4>1
      <4>3. e[j + 1] = e[j] + rs[j + 1].bytes
        BY <1>3, <4>1
      <4>4. e[i] <= e[j + 1]
        BY <4>1, <4>2, <4>3
      <4> QED
        BY <4>4
    <3>2. CASE ~(j + 1 <= n /\ i <= j)
      <4>1. j + 1 <= n /\ i <= j + 1 => e[i] <= e[j + 1]
        BY <1>1, <1>3, <3>2
      <4> QED
        BY <4>1
    <3> QED
      BY <3>1, <3>2
  <2>3. Nat \subseteq S
    <3> HIDE DEF S
    <3> QED
      BY <2>1, <2>2, SetInduction
  <2> QED
    BY <1>1, <2>3
<1> QED
  BY <1>1, <1>2, <1>3, <1>4

\* The piece of the stream that belongs to row j.
OfRow(e, rs, rg, j) == SubSeq(rg, e[j - 1] + 1, e[j])

LEMMA RowPieces ==
  ASSUME NEW rs \in Seq(Row), NEW base \in Nat, NEW e, Ends(e, rs, base),
         NEW rg \in Seq(Items), e[Len(rs)] <= Len(rg)
  PROVE  /\ SubSeq(rg, 1, e[0]) \in Seq(Items)
         /\ \A j \in 1 .. Len(rs) :
              /\ OfRow(e, rs, rg, j) \in Seq(Items)
              /\ Change(rs[j].track) \in Items
         /\ SubSeq(rg, e[Len(rs)] + 1, Len(rg)) \in Seq(Items)
<1> DEFINE n == Len(rs)
<1>1. /\ n \in Nat /\ \A j \in 1 .. n : rs[j] \in Row
      /\ \A j \in 0 .. n : e[j] \in Nat
      /\ \A i, j \in 0 .. n : i <= j => e[i] <= e[j]
  BY EndsGrow
<1>2. \A j \in 0 .. n : e[j] <= Len(rg)
  BY <1>1
<1>3. SubSeq(rg, 0 + 1, e[0]) \in Seq(Items)
  BY <1>1, <1>2, Piece
<1>4. ASSUME NEW j \in 1 .. n
      PROVE  OfRow(e, rs, rg, j) \in Seq(Items) /\ Change(rs[j].track) \in Items
  <2>1. j - 1 \in 0 .. n /\ j \in 0 .. n /\ j - 1 <= j
    BY <1>1
  <2>2. e[j - 1] \in Nat /\ e[j] \in Nat /\ e[j - 1] <= e[j] /\ e[j] <= Len(rg)
    BY <1>1, <1>2, <2>1
  <2>3. OfRow(e, rs, rg, j) \in Seq(Items)
    BY <2>2, Piece DEF OfRow
  <2> QED
    BY <1>1, <2>3 DEF Row, Items
<1>5. SubSeq(rg, e[n] + 1, Len(rg)) \in Seq(Items)
  BY <1>1, Piece
<1> QED
  BY <1>3, <1>4, <1>5

LEMMA StreamsExist ==
  ASSUME NEW rs \in Seq(Row), NEW base \in Nat, NEW e, Ends(e, rs, base),
         NEW rg \in Seq(Items), e[Len(rs)] <= Len(rg)
  PROVE  Streams(StreamsOf(e, rs, rg), e, rs, rg)
<1> DEFINE n == Len(rs)
           Put(s, j) == s \o <<Change(rs[j].track)>> \o OfRow(e, rs, rg, j)
           F(f, m) == /\ f \in [0 .. m -> Seq(Items)] /\ f[0] = SubSeq(rg, 1, e[0])
                      /\ \A j \in 1 .. m : j <= n => f[j] = Put(f[j - 1], j)
           S == {m \in Nat : \E f : F(f, m)}
<1>1. n \in Nat /\ SubSeq(rg, 1, e[0]) \in Seq(Items)
  BY RowPieces
<1>2. \A s \in Seq(Items) : \A j \in 1 .. n : Put(s, j) \in Seq(Items)
  <2> TAKE s \in Seq(Items)
  <2> TAKE j \in 1 .. n
  <2>1. OfRow(e, rs, rg, j) \in Seq(Items) /\ Change(rs[j].track) \in Items
    BY RowPieces
  <2> QED
    BY <2>1
<1> HIDE DEF Put
<1>3. 0 \in S
  <2>1. F([j \in 0 .. 0 |-> SubSeq(rg, 1, e[0])], 0)
    BY <1>1
  <2> HIDE DEF F
  <2> QED
    BY <2>1
<1>4. ASSUME NEW m \in Nat, m \in S
      PROVE  m + 1 \in S
  <2>1. PICK f : F(f, m)
    BY <1>4
  <2> DEFINE g == [j \in 0 .. m + 1 |->
                     IF j <= m THEN f[j] ELSE IF j <= n THEN Put(f[m], j) ELSE <<>>]
  <2>2. g \in [0 .. m + 1 -> Seq(Items)] /\ g[0] = SubSeq(rg, 1, e[0])
    <3>1. \A j \in 0 .. m : f[j] \in Seq(Items)
      BY <2>1
    <3>2. \A j \in 0 .. m + 1 : g[j] \in Seq(Items)
      <4> TAKE j \in 0 .. m + 1
      <4>1. CASE j <= m
        BY <3>1, <4>1
      <4>2. CASE ~(j <= m) /\ j <= n
        BY <1>1, <1>2, <3>1, <4>2
      <4>3. CASE ~(j <= m) /\ ~(j <= n)
        BY <4>3
      <4> QED
        BY <4>1, <4>2, <4>3
    <3> QED
      BY <2>1, <3>2
  <2>3. ASSUME NEW j \in 1 .. m + 1, j <= n
        PROVE  g[j] = Put(g[j - 1], j)
    <3>1. CASE j <= m
      BY <2>1, <2>3, <3>1
    <3>2. CASE j = m + 1
      <4>1. j - 1 = m /\ m \in 0 .. m + 1 /\ ~(j <= m)
        BY <3>2
      <4> QED
        BY <2>3, <4>1
    <3> QED
      BY <3>1, <3>2
  <2>4. F(g, m + 1)
    BY <2>2, <2>3
  <2> HIDE DEF g, F
  <2> QED
    BY <2>4
<1>5. Nat \subseteq S
  <2> HIDE DEF S
  <2> QED
    BY <1>3, <1>4, SetInduction
<1>6. PICK f : F(f, n)
  <2>1. n \in S
    BY <1>1, <1>5
  <2> HIDE DEF F
  <2> QED
    BY <2>1
<1> DEFINE E(u) == [j \in 0 .. n |-> IF j = 0 THEN SubSeq(rg, 1, e[0]) ELSE Put(u[j - 1], j)]
           upTo == CHOOSE u : u = E(u)
<1>7. f = E(f)
  <2>1. f \in [0 .. n -> Seq(Items)] /\ f[0] = SubSeq(rg, 1, e[0])
    BY <1>6
  <2>2. \A j \in 1 .. n : f[j] = Put(f[j - 1], j)
    BY <1>6
  <2>3. \A j \in 0 .. n : f[j] = IF j = 0 THEN SubSeq(rg, 1, e[0]) ELSE Put(f[j - 1], j)
    BY <1>1, <2>1, <2>2
  <2> QED
    BY <2>1, <2>3
<1>8. upTo = E(upTo)
  BY <1>7
<1>9. upTo = StreamsOf(e, rs, rg)
  BY DEF StreamsOf, Put, OfRow
<1> HIDE DEF upTo
<1>10. /\ upTo[0] = SubSeq(rg, 1, e[0])
       /\ \A j \in 1 .. n : upTo[j] = Put(upTo[j - 1], j)
  <2>1. \A j \in 0 .. n : upTo[j] = E(upTo)[j]
    BY <1>8, Zenon
  <2>2. ASSUME NEW j \in 0 .. n
        PROVE  upTo[j] = IF j = 0 THEN SubSeq(rg, 1, e[0]) ELSE Put(upTo[j - 1], j)
    BY <2>1
  <2>3. 0 \in 0 .. n /\ \A j \in 1 .. n : j \in 0 .. n /\ j # 0
    BY <1>1
  <2> QED
    BY <2>2, <2>3
<1> DEFINE T == {j \in Nat : j <= n => upTo[j] \in Seq(Items)}
<1>11. Nat \subseteq T
  <2>1. 0 \in T
    BY <1>1, <1>10
  <2>2. ASSUME NEW j \in Nat, j \in T
        PROVE  j + 1 \in T
    <3>1. CASE j + 1 <= n
      <4>1. j + 1 \in 1 .. n /\ (j + 1) - 1 = j /\ upTo[j] \in Seq(Items)
        BY <1>1, <2>2, <3>1
      <4> QED
        BY <1>2, <1>10, <4>1
    <3> QED
      BY <3>1
  <2> HIDE DEF T
  <2> QED
    BY <2>1, <2>2, SetInduction
<1>12. upTo \in [0 .. n -> Seq(Items)]
  <2>1. \A j \in 0 .. n : upTo[j] \in Seq(Items)
    BY <1>1, <1>11
  <2> QED
    BY <1>8, <2>1
<1> QED
  BY <1>9, <1>10, <1>12 DEF Streams, Put, OfRow

LEMMA StreamsUnique ==
  ASSUME NEW rs \in Seq(Row), NEW e, NEW rg, NEW u, NEW v,
         Streams(u, e, rs, rg), Streams(v, e, rs, rg)
  PROVE  u = v
<1> DEFINE n == Len(rs)
           Put(s, j) == s \o <<Change(rs[j].track)>> \o SubSeq(rg, e[j - 1] + 1, e[j])
           S == {j \in Nat : j <= n => u[j] = v[j]}
<1>1. n \in Nat
  OBVIOUS
<1>2. /\ u \in [0 .. n -> Seq(Items)] /\ v \in [0 .. n -> Seq(Items)] /\ u[0] = v[0]
      /\ \A j \in 1 .. n : u[j] = Put(u[j - 1], j) /\ v[j] = Put(v[j - 1], j)
  BY DEF Streams
<1> HIDE DEF Put
<1>3. Nat \subseteq S
  <2>1. 0 \in S
    BY <1>2
  <2>2. ASSUME NEW j \in Nat, j \in S
        PROVE  j + 1 \in S
    <3>1. CASE j + 1 <= n
      <4>1. j + 1 \in 1 .. n /\ (j + 1) - 1 = j /\ u[j] = v[j]
        BY <1>1, <2>2, <3>1
      <4> QED
        BY <1>2, <4>1
    <3> QED
      BY <3>1
  <2> HIDE DEF S
  <2> QED
    BY <2>1, <2>2, SetInduction
<1>4. \A j \in 0 .. n : u[j] = v[j]
  BY <1>1, <1>3
<1> QED
  BY <1>2, <1>4

-----------------------------------------------------------------------------
(* Whole frames.                                                           *)

LEMMA Division ==
  ASSUME NEW a \in Nat, NEW d \in Nat \ {0}
  PROVE  /\ a \div d \in Nat
         /\ a % d \in 0 .. d - 1
         /\ a = d * (a \div d) + (a % d)
  OBVIOUS

LEMMA NoRemainder ==
  ASSUME NEW k \in Nat, NEW d \in Nat \ {0}
  PROVE  d * k \in Nat /\ (d * k) % d = 0
<1> DEFINE a == d * k
           q == a \div d
           r == a % d
<1>1. a \in Nat
  OBVIOUS
<1>2. q \in Nat /\ r \in 0 .. d - 1 /\ d * k = d * q + r
  <2> HIDE DEF a
  <2>1. q \in Nat /\ r \in 0 .. d - 1 /\ a = d * q + r
    BY <1>1, Division
  <2> QED
    BY <2>1 DEF a
<1> HIDE DEF q, r
<1>3. d * (k - q) = r
  BY <1>2
<1>4. k = q
  <2>1. CASE k > q
    <3>1. d * (k - q) = d + d * (k - q - 1) /\ d * (k - q - 1) >= 0
      BY <1>2, <2>1
    <3> QED
      BY <1>2, <1>3, <3>1
  <2>2. CASE k < q
    <3>1. d * (q - k) = d + d * (q - k - 1) /\ d * (q - k - 1) >= 0
      BY <1>2, <2>2
    <3>2. d * (q - k) = 0 - d * (k - q)
      BY <1>2
    <3> QED
      BY <1>2, <1>3, <3>1, <3>2
  <2> QED
    BY <1>2, <2>1, <2>2
<1>5. r = 0
  BY <1>2, <1>3, <1>4
<1> QED
  BY <1>1, <1>5 DEF r, a

\* What readPcm claims is whole frames, and nothing only if not a frame is there.
LEMMA FramesClaimed ==
  ASSUME NEW a \in Nat
  PROVE  LET n == a - (a % FrameBytes)
         IN  n \in Nat /\ n <= a /\ n % FrameBytes = 0 /\ (n = 0 => a < FrameBytes)
<1> DEFINE q == a \div FrameBytes
           r == a % FrameBytes
<1>1. q \in Nat /\ r \in 0 .. FrameBytes - 1 /\ a = FrameBytes * q + r
  BY Division, SizesAssumption
<1> HIDE DEF q, r
<1>2. a - r = FrameBytes * q
  BY <1>1, SizesAssumption
<1>3. (a - r) % FrameBytes = 0 /\ a - r \in Nat
  BY <1>1, <1>2, NoRemainder, SizesAssumption
<1>4. a - r \in Nat /\ a - r <= a /\ (a - r = 0 => a < FrameBytes)
  BY <1>1, <1>3, SizesAssumption
<1> QED
  BY <1>3, <1>4 DEF r

LEMMA WantedBytes ==
  ASSUME pcmLeft \in Nat
  PROVE  Wanted \in Nat /\ Wanted <= pcmLeft /\ (Wanted < FrameBytes => Wanted = pcmLeft)
<1>1. ReadFrames * FrameBytes \in Nat /\ ReadFrames * FrameBytes >= FrameBytes
  <2>1. ReadFrames * FrameBytes = (ReadFrames - 1) * FrameBytes + FrameBytes
        /\ (ReadFrames - 1) * FrameBytes >= 0
    BY SizesAssumption
  <2> QED
    BY <2>1, SizesAssumption
<1> QED
  BY <1>1, SizesAssumption DEF Wanted, Least

-----------------------------------------------------------------------------
(* Types.                                                                  *)

Stored  == {Byte(i) : i \in 1 .. FrameBytes * frames}
Queued  == [track : 1 .. changes, bytes : Nat]
Changed == {Change(k) : k \in 1 .. changes}

\* TypeOK, and what it needs: the block holds bytes that were produced, the
\* change that is about to be queued was made, and what is being stored is
\* not empty.
Types ==
  /\ ring \in Seq(Stored) /\ Len(ring) <= Size
  /\ rows \in Seq(Queued) /\ Len(rows) <= Rows
  /\ pcmLeft \in Nat
  /\ claimed \in Nat /\ claimed % FrameBytes = 0 /\ (claimed > 0 <=> reader = "reading")
  /\ delivered \in Seq(Stored \cup Changed)
  /\ reader \in ReaderSteps /\ writer \in WriterSteps
  /\ written \in Nat /\ Len(src) + written <= FrameBytes * frames
  /\ frames \in Nat /\ changes \in Nat
  /\ ringClosed \in BOOLEAN /\ closed \in BOOLEAN /\ terminating \in BOOLEAN
  /\ closer \in {"open", "closeRing", "notify", "done"}
  /\ src \in Seq(Stored)
  /\ writer = "storing" => src # <<>>
  /\ writer \in {"lockingRow", "retryingRow"} => changes > 0

LEMMA TypesOK == Types => TypeOK
  BY DEF Types, TypeOK, Stored, Queued, Changed

LEMMA ProductMonotone ==
  ASSUME NEW a \in Nat, NEW b \in Nat, NEW d \in Nat, a <= b
  PROVE  d * a \in Nat /\ d * b \in Nat /\ d * a <= d * b
<1>1. d * b = d * a + d * (b - a) /\ d * (b - a) >= 0 /\ d * a >= 0
  OBVIOUS
<1> QED
  BY <1>1

LEMMA TypesInit == Init => Types
<1> SUFFICES ASSUME Init PROVE Types
  OBVIOUS
<1>1. 0 % FrameBytes = 0 /\ FrameBytes * 0 = 0
  BY SizesAssumption, NoRemainder
<1>2. /\ ring = <<>> /\ rows = <<>> /\ delivered = <<>> /\ src = <<>>
      /\ pcmLeft = 0 /\ claimed = 0 /\ written = 0 /\ frames = 0 /\ changes = 0
  BY DEF Init
<1>3. /\ ring \in Seq(Stored) /\ rows \in Seq(Queued) /\ delivered \in Seq(Stored \cup Changed)
      /\ src \in Seq(Stored) /\ Len(ring) = 0 /\ Len(rows) = 0 /\ Len(src) = 0
  BY <1>2
<1>4. Len(src) + written <= FrameBytes * frames
  BY <1>1, <1>2, <1>3
<1>5. reader = "loop" /\ writer = "idle" /\ closer = "open"
      /\ {ringClosed, closed, terminating} \subseteq BOOLEAN
  BY DEF Init
<1> QED
  BY <1>1, <1>2, <1>3, <1>4, <1>5, SizesAssumption DEF Types, ReaderSteps, WriterSteps

\* While nothing is produced, nothing else can be stored.
LEMMA SameItems ==
  ASSUME UNCHANGED <<frames, changes>>
  PROVE  Stored' = Stored /\ Queued' = Queued /\ Changed' = Changed
  BY DEF Stored, Queued, Changed

LEMMA ReaderTypes ==
  ASSUME Types, ReaderStep \/ SpuriousWakeup
  PROVE  Types'
<1>1. UNCHANGED <<frames, changes>>
  BY DEF ReaderStep, SpuriousWakeup, ReadTrackChange, NoTrackChange, Claim, Decide,
         FallAsleep, ReadFull, NothingRead, Terminated, block
<1>2. Stored' = Stored /\ Queued' = Queued /\ Changed' = Changed
  BY <1>1, SameItems
<1>3. CASE ReadTrackChange
  <2>1. /\ rows # <<>> /\ rows' = Tail(rows) /\ pcmLeft' = Head(rows).bytes
        /\ delivered' = Append(delivered, Change(Head(rows).track))
        /\ reader = "loop" /\ reader' = "readPcm"
        /\ UNCHANGED <<ring, claimed, writer, block, changes, stop>>
    BY <1>3 DEF ReadTrackChange
  <2>2. Head(rows) \in Queued /\ rows' \in Seq(Queued) /\ Len(rows') <= Rows
    BY <2>1, HeadTailProperties, SizesAssumption DEF Types
  <2>3. pcmLeft' \in Nat /\ Change(Head(rows).track) \in Stored \cup Changed
    BY <2>1, <2>2 DEF Queued, Changed
  <2>4. delivered' \in Seq(Stored \cup Changed)
    BY <2>1, <2>3 DEF Types
  <2> QED
    BY <1>2, <2>1, <2>2, <2>3, <2>4 DEF Types, block, stop, ReaderSteps
<1>4. CASE NoTrackChange \/ Decide \/ FallAsleep \/ NothingRead \/ Terminated \/ SpuriousWakeup
  <2>1. /\ UNCHANGED <<buffers, writer, block, changes, stop>>
        /\ reader # "reading" /\ reader' \in ReaderSteps \ {"reading"}
    BY <1>4 DEF NoTrackChange, Decide, FallAsleep, NothingRead, Terminated, SpuriousWakeup,
                ReaderSteps
  <2> QED
    BY <1>2, <2>1 DEF Types, buffers, block, stop
<1>5. CASE Claim
  <2> DEFINE n == Wanted - (Wanted % FrameBytes)
  <2>1. /\ claimed' = n /\ pcmLeft' = pcmLeft - n
        /\ reader' = IF n > 0 THEN "reading" ELSE "closed?"
        /\ UNCHANGED <<ring, rows, delivered, writer, block, changes, stop>>
    BY <1>5 DEF Claim
  <2>2. Wanted \in Nat /\ Wanted <= pcmLeft
    BY WantedBytes DEF Types
  <2>3. n \in Nat /\ n <= Wanted /\ n % FrameBytes = 0
    BY <2>2, FramesClaimed
  <2> HIDE DEF n
  <2>4. claimed' \in Nat /\ claimed' % FrameBytes = 0 /\ (claimed' > 0 <=> reader' = "reading")
    BY <2>1, <2>3
  <2>5. pcmLeft' \in Nat /\ reader' \in ReaderSteps
    BY <2>1, <2>2, <2>3 DEF Types, ReaderSteps
  <2> QED
    BY <1>2, <2>1, <2>4, <2>5 DEF Types, block, stop
<1>6. CASE ReadFull
  <2> DEFINE n == Least(claimed, Len(ring))
  <2>1. /\ delivered' = delivered \o SubSeq(ring, 1, n)
        /\ ring' = SubSeq(ring, n + 1, Len(ring))
        /\ claimed' = 0 /\ reader = "reading" /\ reader' = "loop"
        /\ UNCHANGED <<rows, pcmLeft, writer, block, changes, stop>>
    BY <1>6 DEF ReadFull
  <2>2. n \in Nat /\ n <= Len(ring) /\ Len(ring) \in Nat
    BY DEF Types, Least
  <2> HIDE DEF n
  <2>3. /\ SubSeq(ring, 0 + 1, n) \in Seq(Stored)
        /\ ring' \in Seq(Stored) /\ Len(ring') <= Size
    BY <2>1, <2>2, Piece, SizesAssumption, SMTT(30) DEF Types
  <2>4. delivered' \in Seq(Stored \cup Changed)
    <3>1. SubSeq(ring, 1, n) \in Seq(Stored \cup Changed)
      BY <2>3, SeqMonotonic
    <3> QED
      BY <2>1, <3>1, ConcatProperties DEF Types
  <2>5. 0 % FrameBytes = 0
    BY NoRemainder, SizesAssumption
  <2> QED
    BY <1>2, <2>1, <2>3, <2>4, <2>5, SMTT(30) DEF Types, block, stop, ReaderSteps
<1> QED
  BY <1>3, <1>4, <1>5, <1>6 DEF ReaderStep

LEMMA NotifiedType ==
  ASSUME reader \in ReaderSteps
  PROVE  Notified \in ReaderSteps /\ (Notified = "reading" <=> reader = "reading")
  BY DEF Notified, ReaderSteps

LEMMA CountedType ==
  ASSUME Types
  PROVE  Counted \in Nat /\ Len(src) \in Nat /\ written \in Nat
<1>1. Len(src) \in Nat /\ written \in Nat
  BY DEF Types
<1> QED
  BY <1>1 DEF Counted

LEMMA WriterTypes ==
  ASSUME Types, WriterStep \/ JobsStopped
  PROVE  Types'
<1>1. UNCHANGED <<frames, changes>>
  BY DEF WriterStep, JobsStopped, Store, CutShort, Count, CountNothing, PushRow, AwaitRow,
         DropChange, block
<1>2. Stored' = Stored /\ Queued' = Queued /\ Changed' = Changed
  BY <1>1, SameItems
<1>3. CASE Store
  <2> DEFINE n == Least(Len(src), Size - Len(ring))
  <2>1. /\ writer = "storing" /\ Len(ring) < Size
        /\ ring' = ring \o SubSeq(src, 1, n)
        /\ src' = SubSeq(src, n + 1, Len(src))
        /\ written' = written + n
        /\ writer' = IF n = Len(src) THEN "counting" ELSE "storing"
        /\ UNCHANGED <<rows, pcmLeft, claimed, delivered, frames, reader, changes, stop>>
    BY <1>3 DEF Store
  <2>2. /\ n \in Nat /\ n <= Len(src) /\ n <= Size - Len(ring)
        /\ Len(src) \in Nat /\ Len(ring) \in Nat
    BY <2>1, SizesAssumption DEF Types, Least
  <2> HIDE DEF n
  <2>3. /\ SubSeq(src, 0 + 1, n) \in Seq(Stored) /\ Len(SubSeq(src, 0 + 1, n)) = n - 0
        /\ src' \in Seq(Stored) /\ Len(src') = Len(src) - n
    <3>1. src \in Seq(Stored)
      BY DEF Types
    <3>2. /\ SubSeq(src, n + 1, Len(src)) \in Seq(Stored)
          /\ Len(SubSeq(src, n + 1, Len(src))) = Len(src) - n
      BY <2>2, <3>1, Piece
    <3>3. SubSeq(src, 0 + 1, n) \in Seq(Stored) /\ Len(SubSeq(src, 0 + 1, n)) = n - 0
      BY <2>2, <3>1, Piece
    <3> QED
      BY <2>1, <3>2, <3>3
  <2>4. ring' \in Seq(Stored) /\ Len(ring') = Len(ring) + n /\ Len(ring') <= Size
    <3>1. SubSeq(src, 1, n) \in Seq(Stored) /\ Len(SubSeq(src, 1, n)) = n
      BY <2>2, <2>3
    <3>2. ring \in Seq(Stored)
      BY DEF Types
    <3> QED
      BY <2>1, <2>2, <3>1, <3>2, ConcatProperties, SizesAssumption
  <2>5. written' \in Nat /\ Len(src') + written' = Len(src) + written
    <3>1. written \in Nat /\ n \in Nat /\ Len(src) \in Nat
      BY <2>2 DEF Types
    <3>2. written' = written + n /\ Len(src') = Len(src) - n
      BY <2>1, <2>3
    <3> QED
      BY <3>1, <3>2
  <2>6. writer' = "storing" => src' # <<>>
    <3>1. writer' = "storing" => Len(src') # 0
      BY <2>1, <2>2, <2>3
    <3> QED
      BY <3>1
  <2>7. writer' \in WriterSteps /\ writer' \notin {"lockingRow", "retryingRow"}
    BY <2>1 DEF WriterSteps
  <2>8. Len(src') + written' <= FrameBytes * frames'
    BY <2>1, <2>5 DEF Types
  <2> QED
    BY <1>2, <2>1, <2>3, <2>4, <2>5, <2>6, <2>7, <2>8 DEF Types, stop
<1>4. CASE Count \/ CountNothing
  <2>1. /\ src' = <<>> /\ written' = 0 /\ writer' = "idle"
        /\ UNCHANGED <<ring, claimed, delivered, frames, changes, stop>>
    BY <1>4 DEF Count, CountNothing, buffers
  <2>2. /\ reader' \in ReaderSteps /\ (reader' = "reading" <=> reader = "reading")
    BY <1>4, NotifiedType DEF Types, Count, CountNothing
  <2>3. pcmLeft' \in Nat /\ rows' \in Seq(Queued) /\ Len(rows') <= Rows
    <3>1. CASE CountNothing
      BY <3>1 DEF CountNothing, buffers, Types
    <3>2. CASE Count /\ rows = <<>>
      <4>1. pcmLeft' = pcmLeft + Counted /\ rows' = rows
        BY <3>2 DEF Count
      <4> QED
        BY <4>1, CountedType DEF Types
    <3>3. CASE Count /\ rows # <<>>
      <4> DEFINE last == [rows[LastRow] EXCEPT !.bytes = @ + Counted]
      <4>1. rows' = [rows EXCEPT ![LastRow] = last] /\ pcmLeft' = pcmLeft
        BY <3>3 DEF Count
      <4>2. LastRow \in 1 .. Len(rows) /\ rows \in Seq(Queued)
        BY <3>3 DEF Types, LastRow
      <4>3. last \in Queued
        <5>1. rows[LastRow] \in Queued /\ Counted \in Nat
          BY <4>2, CountedType
        <5> QED
          BY <5>1 DEF Queued
      <4> HIDE DEF last
      <4>4. rows' \in Seq(Queued) /\ Len(rows') = Len(rows)
        BY <4>1, <4>2, <4>3, ExceptSeq
      <4> QED
        BY <4>1, <4>4 DEF Types
    <3> QED
      BY <1>4, <3>1, <3>2, <3>3
  <2>4. src' \in Seq(Stored) /\ Len(src') + written' <= FrameBytes * frames'
    <3>1. Len(src') = 0 /\ src' \in Seq(Stored)
      BY <2>1
    <3>2. FrameBytes * frames \in Nat
      BY SizesAssumption DEF Types
    <3> QED
      BY <2>1, <3>1, <3>2
  <2> QED
    BY <1>2, <2>1, <2>2, <2>3, <2>4 DEF Types, stop, WriterSteps
<1>5. CASE PushRow
  <2> DEFINE row == [track |-> changes, bytes |-> 0]
  <2>1. /\ ~Full /\ rows' = Append(rows, row) /\ reader' = Notified /\ writer' = "idle"
        /\ writer \in {"lockingRow", "retryingRow"}
        /\ UNCHANGED <<ring, pcmLeft, claimed, delivered, block, changes, stop>>
    BY <1>5 DEF PushRow
  <2>2. row \in Queued
    BY <2>1 DEF Types, Queued
  <2> HIDE DEF row
  <2>3. rows' \in Seq(Queued) /\ Len(rows') <= Rows
    BY <2>1, <2>2, AppendProperties, SizesAssumption DEF Types, Full
  <2>4. reader' \in ReaderSteps /\ (reader' = "reading" <=> reader = "reading")
    BY <2>1, NotifiedType DEF Types
  <2> QED
    BY <1>2, <2>1, <2>3, <2>4 DEF Types, block, stop, WriterSteps
<1>6. CASE CutShort \/ AwaitRow \/ DropChange \/ JobsStopped
  <2>1. /\ UNCHANGED <<buffers, reader, block, changes, stop>>
        /\ writer' \in WriterSteps \ {"storing"}
        /\ writer' \in {"lockingRow", "retryingRow"} => writer \in {"lockingRow", "retryingRow"}
    BY <1>6 DEF CutShort, AwaitRow, DropChange, JobsStopped, WriterSteps
  <2> QED
    BY <1>2, <2>1 DEF Types, buffers, block, stop
<1> QED
  BY <1>3, <1>4, <1>5, <1>6 DEF WriterStep

LEMMA ProductionTypes ==
  ASSUME Types, (\E n \in 1 .. MaxBlock : StartBlock(n)) \/ StartChange
  PROVE  Types'
<1>1. CASE \E n \in 1 .. MaxBlock : StartBlock(n)
  <2>1. PICK n \in 1 .. MaxBlock : StartBlock(n)
    BY <1>1
  <2>2. n \in Nat \ {0} /\ frames \in Nat
    BY BoundAssumption DEF Types
  <2>3. /\ frames' = frames + n /\ frames' \in Nat /\ written' = 0 /\ writer' = "storing"
        /\ src' = [i \in 1 .. n * FrameBytes |-> Byte(frames * FrameBytes + i)]
        /\ UNCHANGED <<buffers, reader, changes, stop>>
    BY <2>1, <2>2 DEF StartBlock
  <2>4. /\ n * FrameBytes \in Nat \ {0} /\ frames * FrameBytes \in Nat
        /\ FrameBytes * frames' = frames * FrameBytes + n * FrameBytes
        /\ FrameBytes * frames \in Nat /\ FrameBytes * frames = frames * FrameBytes
    <3>1. n * FrameBytes = (n - 1) * FrameBytes + FrameBytes /\ (n - 1) * FrameBytes >= 0
      BY <2>2, SizesAssumption
    <3> QED
      BY <2>2, <2>3, <3>1, SizesAssumption
  <2> DEFINE x == n * FrameBytes
             y == frames * FrameBytes
             z == FrameBytes * frames'
  <2>5. Stored' = {Byte(i) : i \in 1 .. z} /\ Stored = {Byte(i) : i \in 1 .. y}
    BY <2>4 DEF Stored
  <2>6. x \in Nat \ {0} /\ y \in Nat /\ z = y + x /\ src' = [i \in 1 .. x |-> Byte(y + i)]
    BY <2>3, <2>4
  <2>7. Queued' = Queued /\ Changed' = Changed
    BY <2>3 DEF Queued, Changed
  <2> HIDE DEF x, y, z
  <2>8. src' \in Seq(Stored') /\ Len(src') = x /\ src' # <<>>
    <3>1. \A i \in 1 .. x : Byte(y + i) \in Stored'
      BY <2>5, <2>6
    <3>2. src' \in Seq(Stored')
      BY <2>6, <3>1, IsASeq
    <3>3. Len(src') = x
      BY <2>6
    <3> QED
      BY <2>6, <3>2, <3>3
  <2>9. Stored \subseteq Stored'
    BY <2>5, <2>6
  <2>10. ring' \in Seq(Stored') /\ delivered' \in Seq(Stored' \cup Changed')
    <3>1. ring' = ring /\ delivered' = delivered
      BY <2>3 DEF buffers
    <3>2. Stored \cup Changed \subseteq Stored' \cup Changed'
      BY <2>7, <2>9
    <3> QED
      BY <2>9, <3>1, <3>2, SeqMonotonic DEF Types
  <2>11. Len(src') + written' <= z
    <3>1. Len(src') = x /\ written' = 0
      BY <2>3, <2>8
    <3> QED
      BY <2>6, <3>1
  <2>12. Len(src') + written' <= FrameBytes * frames'
    BY <2>11 DEF z
  <2> QED
    BY <2>3, <2>7, <2>8, <2>10, <2>12 DEF Types, buffers, stop, WriterSteps
<1>2. CASE StartChange
  <2>1. /\ changes' = changes + 1 /\ writer' = "lockingRow"
        /\ UNCHANGED <<buffers, reader, block, stop>>
    BY <1>2 DEF StartChange
  <2>2. Stored' = Stored /\ Queued \subseteq Queued' /\ Changed \subseteq Changed'
        /\ changes' \in Nat /\ changes' > 0
    BY <2>1 DEF Types, block, Stored, Queued, Changed
  <2>3. rows' = rows /\ delivered' = delivered
    BY <2>1 DEF buffers
  <2>4. rows' \in Seq(Queued') /\ delivered' \in Seq(Stored' \cup Changed')
    <3>1. Stored \cup Changed \subseteq Stored' \cup Changed'
      BY <2>2
    <3> QED
      BY <2>2, <2>3, <3>1, SeqMonotonic DEF Types
  <2> QED
    BY <2>1, <2>2, <2>4 DEF Types, buffers, block, stop, WriterSteps
<1> QED
  BY <1>1, <1>2

LEMMA TypesStep == Types /\ [Next]_vars => Types'
<1> SUFFICES ASSUME Types, [Next]_vars PROVE Types'
  OBVIOUS
<1>1. CASE Terminate \/ Close \/ CloseRing \/ CloseNotifies \/ UNCHANGED vars
  <2>1. /\ UNCHANGED <<buffers, block, changes, writer>>
        /\ {ringClosed', closed', terminating'} \subseteq BOOLEAN
        /\ closer' \in {"open", "closeRing", "notify", "done"}
    BY <1>1 DEF Types, Terminate, Close, CloseRing, CloseNotifies, vars, stop
  <2>2. reader' \in ReaderSteps /\ (reader' = "reading" <=> reader = "reading")
    BY <1>1, NotifiedType DEF Types, Terminate, Close, CloseRing, CloseNotifies, vars
  <2>3. Stored' = Stored /\ Queued' = Queued /\ Changed' = Changed
    BY <2>1, SameItems DEF block
  <2> QED
    BY <2>1, <2>2, <2>3 DEF Types, buffers, block
<1> QED
  BY <1>1, ReaderTypes, WriterTypes, ProductionTypes DEF Next

-----------------------------------------------------------------------------
(* What the actions do to the ends of the rows.                            *)

\* Whatever is like the ends of the rows is the ends of the rows.
LEMMA EndsAre ==
  ASSUME NEW rs \in Seq(Row), NEW base \in Nat, NEW e, Ends(e, rs, base)
  PROVE  EndsOf(rs, base) = e
  BY EndsExist, EndsUnique

\* The first row becomes the current track.
LEMMA EndsOfRest ==
  ASSUME NEW rs \in Seq(Row), rs # <<>>, NEW e, Ends(e, rs, 0)
  PROVE  EndsOf(Tail(rs), Head(rs).bytes) = [j \in 0 .. Len(rs) - 1 |-> e[j + 1]]
<1> DEFINE n == Len(rs)
           f == [j \in 0 .. n - 1 |-> e[j + 1]]
<1>1. /\ n \in Nat \ {0} /\ Tail(rs) \in Seq(Row) /\ Len(Tail(rs)) = n - 1
      /\ \A j \in 1 .. n - 1 : Tail(rs)[j] = rs[j + 1]
      /\ Head(rs) = rs[1]
  BY HeadTailProperties
<1>2. /\ \A j \in 1 .. n : rs[j].bytes \in Nat
      /\ \A j \in 0 .. n : e[j] \in Nat
  BY EndsGrow
<1>3. e[0] = 0 /\ \A j \in 1 .. n : e[j] = e[j - 1] + rs[j].bytes
  BY DEF Ends
<1>4. f \in [0 .. n - 1 -> Nat]
  BY <1>1, <1>2
<1>5. f[0] = Head(rs).bytes
  <2>1. 1 \in 1 .. n /\ 0 \in 0 .. n - 1 /\ 1 - 1 = 0
    BY <1>1
  <2>2. e[1] = e[0] + rs[1].bytes /\ rs[1].bytes \in Nat
    BY <1>2, <1>3, <2>1
  <2> QED
    BY <1>1, <1>3, <2>1, <2>2
<1>6. ASSUME NEW j \in 1 .. n - 1
      PROVE  f[j] = f[j - 1] + Tail(rs)[j].bytes
  <2>1. j + 1 \in 1 .. n /\ (j + 1) - 1 = j /\ j \in 0 .. n - 1 /\ j - 1 \in 0 .. n - 1
        /\ (j - 1) + 1 = j
    BY <1>1
  <2>2. e[j + 1] = e[j] + rs[j + 1].bytes
    BY <1>3, <2>1
  <2> QED
    BY <1>1, <2>1, <2>2
<1>7. Head(rs).bytes \in Nat
  BY <1>1, <1>2
<1> HIDE DEF f
<1>8. Ends(f, Tail(rs), Head(rs).bytes)
  BY <1>1, <1>4, <1>5, <1>6 DEF Ends
<1>9. EndsOf(Tail(rs), Head(rs).bytes) = f
  BY <1>1, <1>7, <1>8, EndsAre
<1> QED
  BY <1>9 DEF f

\* A row is added that has no bytes yet.
WithRow(e, n) == [j \in 0 .. n + 1 |-> IF j <= n THEN e[j] ELSE e[n]]

LEMMA EndsOfLonger ==
  ASSUME NEW rs \in Seq(Row), NEW base \in Nat, NEW e, Ends(e, rs, base),
         NEW row \in Row, row.bytes = 0
  PROVE  EndsOf(Append(rs, row), base) = WithRow(e, Len(rs))
<1> DEFINE n == Len(rs)
           more == Append(rs, row)
           f == [j \in 0 .. n + 1 |-> IF j <= n THEN e[j] ELSE e[n]]
<1>1. /\ n \in Nat /\ more \in Seq(Row) /\ Len(more) = n + 1
      /\ \A j \in 1 .. n : more[j] = rs[j]
      /\ more[n + 1] = row
  BY AppendProperties
<1>2. \A j \in 0 .. n : e[j] \in Nat
  BY EndsGrow
<1>3. e[0] = base /\ \A j \in 1 .. n : e[j] = e[j - 1] + rs[j].bytes
  BY DEF Ends
<1> HIDE DEF more
<1>4. f \in [0 .. n + 1 -> Nat] /\ f[0] = base
  BY <1>1, <1>2, <1>3
<1>5. ASSUME NEW j \in 1 .. n + 1
      PROVE  f[j] = f[j - 1] + more[j].bytes
  <2>1. CASE j <= n
    <3>1. j \in 1 .. n /\ j \in 0 .. n + 1 /\ j - 1 \in 0 .. n + 1 /\ j - 1 <= n
      BY <1>1, <2>1
    <3> QED
      BY <1>1, <1>3, <2>1, <3>1
  <2>2. CASE j = n + 1
    <3>1. j - 1 = n /\ n \in 0 .. n + 1 /\ j \in 0 .. n + 1 /\ ~(j <= n)
      BY <1>1, <2>2
    <3>2. f[j] = e[n] /\ f[j - 1] = e[n] /\ more[j].bytes = 0 /\ e[n] \in Nat
      BY <1>1, <1>2, <2>2, <3>1
    <3> QED
      BY <3>2
  <2> QED
    BY <1>1, <2>1, <2>2
<1> HIDE DEF f
<1>6. Ends(f, more, base)
  BY <1>1, <1>4, <1>5 DEF Ends
<1>7. EndsOf(more, base) = f
  BY <1>1, <1>6, EndsAre
<1> QED
  BY <1>7 DEF f, more, WithRow

\* k bytes more are counted for the last row, ...
LastHasMore(rs, more, k) ==
  /\ more \in Seq(Row) /\ Len(more) = Len(rs)
  /\ \A j \in 1 .. Len(rs) - 1 : more[j] = rs[j]
  /\ more[Len(rs)].bytes = rs[Len(rs)].bytes + k

EndsLater(e, n, k) == [e EXCEPT ![n] = @ + k]

LEMMA EndsOfCounted ==
  ASSUME NEW rs \in Seq(Row), rs # <<>>, NEW base \in Nat, NEW e, Ends(e, rs, base),
         NEW k \in Nat, NEW more, LastHasMore(rs, more, k)
  PROVE  EndsOf(more, base) = EndsLater(e, Len(rs), k)
<1> DEFINE n == Len(rs)
           f == [e EXCEPT ![n] = @ + k]
<1>0. /\ more \in Seq(Row) /\ Len(more) = n
      /\ \A j \in 1 .. n - 1 : more[j] = rs[j]
      /\ more[n].bytes = rs[n].bytes + k
  BY DEF LastHasMore
<1>1. n \in Nat \ {0}
  OBVIOUS
<1>2. /\ \A j \in 1 .. n : rs[j].bytes \in Nat
      /\ \A j \in 0 .. n : e[j] \in Nat
  BY EndsGrow
<1>3. /\ e \in [0 .. n -> Nat]
      /\ e[0] = base /\ \A j \in 1 .. n : e[j] = e[j - 1] + rs[j].bytes
  BY DEF Ends
<1>4. /\ f \in [0 .. n -> Nat]
      /\ f[n] = e[n] + k
      /\ \A j \in 0 .. n - 1 : f[j] = e[j]
  BY <1>1, <1>2, <1>3
<1> HIDE DEF f
<1>5. ASSUME NEW j \in 1 .. n
      PROVE  f[j] = f[j - 1] + more[j].bytes
  <2>1. CASE j < n
    <3>1. j \in 1 .. n - 1 /\ j \in 0 .. n - 1 /\ j - 1 \in 0 .. n - 1
      BY <1>1, <2>1
    <3> QED
      BY <1>0, <1>3, <1>4, <3>1
  <2>2. CASE j = n
    <3>1. n - 1 \in 0 .. n - 1 /\ n \in 1 .. n /\ n - 1 \in 0 .. n
      BY <1>1
    <3>2. e[n] = e[n - 1] + rs[n].bytes /\ e[n - 1] \in Nat /\ rs[n].bytes \in Nat
      BY <1>2, <1>3, <3>1
    <3>3. f[n] = e[n] + k /\ f[n - 1] = e[n - 1]
      BY <1>4, <3>1
    <3>4. f[n] = f[n - 1] + more[n].bytes
      BY <1>0, <3>2, <3>3
    <3> QED
      BY <2>2, <3>4
  <2> QED
    BY <1>1, <2>1, <2>2
<1>6. f[0] = base
  BY <1>1, <1>3, <1>4
<1>7. Ends(f, more, base)
  BY <1>0, <1>4, <1>5, <1>6 DEF Ends
<1>8. EndsOf(more, base) = f
  BY <1>0, <1>7, EndsAre
<1> QED
  BY <1>8 DEF f, EndsLater

\* ... or for the current track if no row is queued.
LEMMA EndsOfNone ==
  ASSUME NEW base \in Nat
  PROVE  EndsOf(<<>>, base) = [j \in 0 .. 0 |-> base]
<1> DEFINE f == [j \in 0 .. 0 |-> base]
<1>1. <<>> \in Seq(Row) /\ Len(<<>>) = 0
  OBVIOUS
<1>2. Ends(f, <<>>, base)
  BY <1>1 DEF Ends
<1> QED
  BY <1>1, <1>2, EndsAre

\* m bytes of the current track are read.
LEMMA EndsOfRead ==
  ASSUME NEW rs \in Seq(Row), NEW base \in Nat, NEW e, Ends(e, rs, base),
         NEW m \in Nat, m <= base
  PROVE  EndsOf(rs, base - m) = [j \in 0 .. Len(rs) |-> e[j] - m]
<1> DEFINE n == Len(rs)
           f == [j \in 0 .. n |-> e[j] - m]
<1>1. /\ n \in Nat
      /\ \A j \in 1 .. n : rs[j].bytes \in Nat
      /\ \A j \in 0 .. n : e[j] \in Nat
      /\ \A i, j \in 0 .. n : i <= j => e[i] <= e[j]
  BY EndsGrow
<1>2. e[0] = base /\ \A j \in 1 .. n : e[j] = e[j - 1] + rs[j].bytes
  BY DEF Ends
<1>3. f \in [0 .. n -> Nat] /\ f[0] = base - m
  <2>1. \A j \in 0 .. n : m <= e[j]
    BY <1>1, <1>2
  <2> QED
    BY <1>1, <1>2, <2>1
<1>4. ASSUME NEW j \in 1 .. n
      PROVE  f[j] = f[j - 1] + rs[j].bytes
  <2>1. j \in 0 .. n /\ j - 1 \in 0 .. n
    BY <1>1
  <2>2. f[j] = e[j] - m /\ f[j - 1] = e[j - 1] - m /\ e[j] = e[j - 1] + rs[j].bytes
    BY <1>2, <2>1
  <2>3. e[j] \in Nat /\ e[j - 1] \in Nat /\ rs[j].bytes \in Nat
    BY <1>1, <2>1
  <2> HIDE DEF f
  <2> QED
    BY <2>2, <2>3
<1> HIDE DEF f
<1>5. Ends(f, rs, base - m) /\ base - m \in Nat
  BY <1>3, <1>4 DEF Ends
<1>6. EndsOf(rs, base - m) = f
  BY <1>5, EndsAre
<1> QED
  BY <1>6 DEF f

-----------------------------------------------------------------------------
(* The counters and the ring.                                              *)

\* Where the rows end in the present state.
E == EndsOf(rows, claimed + pcmLeft)

\* What CountsMatchRing says beyond the types.
Accounts == E[Len(rows)] + Uncounted = Len(ring)

LEMMA RowsIn ==
  ASSUME Types
  PROVE  /\ rows \in Seq(Row) /\ ring \in Seq(Items) /\ delivered \in Seq(Items)
         /\ src \in Seq(Items)
         /\ claimed + pcmLeft \in Nat /\ claimed \in Nat /\ pcmLeft \in Nat
         /\ Len(rows) \in Nat /\ Len(ring) \in Nat
         /\ Ends(E, rows, claimed + pcmLeft)
         /\ E[0] = claimed + pcmLeft
         /\ \A i \in 0 .. Len(rows) : E[i] \in Nat /\ E[0] <= E[i] /\ E[i] <= E[Len(rows)]
<1>1. Queued \subseteq Row
  BY DEF Types, Queued, Row
<1>2. Stored \subseteq Items /\ Stored \cup Changed \subseteq Items
  BY SizesAssumption DEF Types, Stored, Changed, Items
<1>3. /\ rows \in Seq(Row) /\ ring \in Seq(Items) /\ delivered \in Seq(Items)
      /\ src \in Seq(Items)
  BY <1>1, <1>2, SeqMonotonic DEF Types
<1>4. /\ claimed + pcmLeft \in Nat /\ claimed \in Nat /\ pcmLeft \in Nat
      /\ Len(rows) \in Nat /\ Len(ring) \in Nat
  BY <1>3 DEF Types
<1>5. Ends(E, rows, claimed + pcmLeft)
  BY <1>3, <1>4, EndsExist DEF E
<1>6. E[0] = claimed + pcmLeft
  BY <1>5 DEF Ends
<1>7. /\ \A j \in 0 .. Len(rows) : E[j] \in Nat
      /\ \A i, j \in 0 .. Len(rows) : i <= j => E[i] <= E[j]
  BY <1>3, <1>4, <1>5, EndsGrow
<1>8. \A i \in 0 .. Len(rows) : E[i] \in Nat /\ E[0] <= E[i] /\ E[i] <= E[Len(rows)]
  BY <1>4, <1>7
<1> QED
  BY <1>3, <1>4, <1>5, <1>6, <1>8

\* With timed writes the ring holds what the rows and the block account for.
LEMMA Within ==
  ASSUME Types, Accounts
  PROVE  /\ Uncounted \in Nat
         /\ E[Len(rows)] \in Nat /\ E[Len(rows)] <= Len(ring)
         /\ E[0] \in Nat /\ E[0] <= E[Len(rows)]
         /\ claimed <= Len(ring)
<1>1. Uncounted \in Nat
  BY DEF Types, Uncounted
<1>2. /\ Len(rows) \in Nat /\ Len(ring) \in Nat /\ claimed \in Nat /\ pcmLeft \in Nat
      /\ E[0] = claimed + pcmLeft
      /\ \A i \in 0 .. Len(rows) : E[i] \in Nat /\ E[0] <= E[i] /\ E[i] <= E[Len(rows)]
  BY RowsIn
<1>3. 0 \in 0 .. Len(rows) /\ Len(rows) \in 0 .. Len(rows)
  BY <1>2
<1>4. E[0] \in Nat /\ E[Len(rows)] \in Nat /\ E[0] <= E[Len(rows)]
  BY <1>2, <1>3
<1>5. E[Len(rows)] + Uncounted = Len(ring)
  BY DEF Accounts
<1> QED
  BY <1>1, <1>2, <1>4, <1>5

\* What the encoder has claimed is in the ring: it gets all of it.
LEMMA AllThere ==
  ASSUME Types, Accounts, ReadFull
  PROVE  /\ claimed > 0
         /\ delivered' = delivered \o SubSeq(ring, 1, claimed)
         /\ ring' = SubSeq(ring, claimed + 1, Len(ring))
         /\ Len(ring') = Len(ring) - claimed
<1>1. claimed <= Len(ring) /\ Len(ring) \in Nat /\ claimed \in Nat /\ ring \in Seq(Items)
  BY Within, RowsIn
<1>2. Least(claimed, Len(ring)) = claimed
  BY <1>1 DEF Least
<1>3. /\ delivered' = delivered \o SubSeq(ring, 1, claimed)
      /\ ring' = SubSeq(ring, claimed + 1, Len(ring))
      /\ claimed > 0
  BY <1>2 DEF ReadFull, Types
<1>4. Len(SubSeq(ring, claimed + 1, Len(ring))) = Len(ring) - claimed
  BY <1>1, Piece
<1> QED
  BY <1>3, <1>4

\* The first row becomes the current track, of which nothing was left.
LEMMA RestEnds ==
  ASSUME Types, ReadTrackChange
  PROVE  /\ rows # <<>> /\ rows' = Tail(rows) /\ Len(rows') = Len(rows) - 1
         /\ ring' = ring /\ claimed + pcmLeft = 0
         /\ E' = [j \in 0 .. Len(rows) - 1 |-> E[j + 1]]
<1>1. /\ rows \in Seq(Row) /\ claimed \in Nat /\ pcmLeft \in Nat
      /\ Ends(E, rows, claimed + pcmLeft)
  BY RowsIn
<1>2. /\ rows # <<>> /\ rows' = Tail(rows) /\ pcmLeft' = Head(rows).bytes
      /\ pcmLeft = 0 /\ claimed = 0 /\ claimed' = 0 /\ ring' = ring
  BY <1>1 DEF ReadTrackChange, Types
<1>3. Head(rows).bytes \in Nat /\ Len(Tail(rows)) = Len(rows) - 1 /\ Len(rows) # 0
  <2>1. /\ Head(rows) \in Row /\ Len(Tail(rows)) = Len(rows) - 1 /\ Len(rows) # 0
    BY <1>1, <1>2, HeadTailProperties
  <2> QED
    BY <2>1 DEF Row
<1>4. claimed + pcmLeft = 0 /\ claimed' + pcmLeft' = Head(rows).bytes
  BY <1>2, <1>3
<1>5. EndsOf(Tail(rows), Head(rows).bytes) = [j \in 0 .. Len(rows) - 1 |-> E[j + 1]]
  BY <1>1, <1>2, <1>4, EndsOfRest
<1>6. E' = EndsOf(Tail(rows), Head(rows).bytes)
  BY <1>2, <1>4 DEF E
<1> QED
  BY <1>2, <1>3, <1>4, <1>5, <1>6

\* What the encoder had claimed is no longer in the ring.
LEMMA ReadEnds ==
  ASSUME Types, ReadFull
  PROVE  /\ rows' = rows /\ E' = [j \in 0 .. Len(rows) |-> E[j] - claimed]
         /\ claimed <= claimed + pcmLeft
<1> DEFINE base == claimed + pcmLeft
<1>1. /\ rows \in Seq(Row) /\ claimed \in Nat /\ pcmLeft \in Nat /\ base \in Nat
      /\ Ends(E, rows, base)
  BY RowsIn
<1>2. rows' = rows /\ claimed' = 0 /\ pcmLeft' = pcmLeft
  BY DEF ReadFull
<1>3. claimed' + pcmLeft' = base - claimed /\ claimed <= base
  BY <1>1, <1>2
<1>4. E' = EndsOf(rows, base - claimed)
  BY <1>2, <1>3 DEF E
<1> HIDE DEF base
<1>5. EndsOf(rows, base - claimed) = [j \in 0 .. Len(rows) |-> E[j] - claimed]
  BY <1>1, <1>3, EndsOfRead, SMTT(30)
<1> QED
  BY <1>2, <1>3, <1>4, <1>5 DEF base

LEMMA ReaderAccounts ==
  ASSUME Types, Accounts, ReaderStep \/ SpuriousWakeup
  PROVE  Accounts'
<1>1. UNCHANGED <<writer, written>> /\ Uncounted' = Uncounted
  BY DEF ReaderStep, SpuriousWakeup, ReadTrackChange, NoTrackChange, Claim, Decide,
         FallAsleep, ReadFull, NothingRead, Terminated, block, Uncounted
<1>2. /\ rows \in Seq(Row) /\ claimed \in Nat /\ pcmLeft \in Nat
      /\ Len(rows) \in Nat /\ Len(ring) \in Nat
      /\ Ends(E, rows, claimed + pcmLeft) /\ E[0] = claimed + pcmLeft
  BY RowsIn
<1>3. Uncounted \in Nat /\ E[Len(rows)] \in Nat /\ E[Len(rows)] + Uncounted = Len(ring)
  BY Within DEF Accounts
<1>4. CASE ReadTrackChange
  <2>1. /\ rows # <<>> /\ Len(rows') = Len(rows) - 1 /\ ring' = ring
        /\ E' = [j \in 0 .. Len(rows) - 1 |-> E[j + 1]]
    BY <1>4, RestEnds
  <2>2. E'[Len(rows')] = E[Len(rows)]
    BY <1>2, <2>1
  <2> QED
    BY <1>1, <1>3, <2>1, <2>2 DEF Accounts
<1>5. CASE Claim
  <2>1. /\ rows' = rows /\ ring' = ring
        /\ claimed' = Wanted - (Wanted % FrameBytes)
        /\ pcmLeft' = pcmLeft - (Wanted - (Wanted % FrameBytes))
        /\ claimed = 0
    BY <1>2, <1>5 DEF Claim, Types
  <2>2. Wanted - (Wanted % FrameBytes) \in Nat
    BY <1>2, WantedBytes, FramesClaimed
  <2>3. claimed' + pcmLeft' = claimed + pcmLeft
    BY <1>2, <2>1, <2>2
  <2> QED
    BY <1>1, <1>3, <2>1, <2>3 DEF Accounts, E
<1>6. CASE ReadFull
  <2>1. Len(ring') = Len(ring) - claimed
    BY <1>6, AllThere
  <2>2. rows' = rows /\ E' = [j \in 0 .. Len(rows) |-> E[j] - claimed]
    BY <1>6, ReadEnds
  <2>3. E'[Len(rows')] = E[Len(rows)] - claimed
    BY <1>2, <2>2
  <2>4. (E[Len(rows)] - claimed) + Uncounted = Len(ring) - claimed
    <3> DEFINE a == E[Len(rows)]
               b == Uncounted
               c == Len(ring)
    <3>1. a \in Nat /\ b \in Nat /\ c \in Nat /\ claimed \in Nat /\ a + b = c
      BY <1>2, <1>3
    <3> HIDE DEF a, b, c
    <3>2. (a - claimed) + b = c - claimed
      BY ONLY <3>1
    <3> QED
      BY <3>2 DEF a, b, c
  <2> QED
    BY <1>1, <2>1, <2>3, <2>4 DEF Accounts
<1>7. CASE NoTrackChange \/ Decide \/ FallAsleep \/ NothingRead \/ Terminated \/ SpuriousWakeup
  <2>1. NoTrackChange \/ Decide \/ FallAsleep => UNCHANGED buffers
    BY DEF NoTrackChange, Decide, FallAsleep
  <2>2. NothingRead \/ Terminated \/ SpuriousWakeup => UNCHANGED buffers
    BY DEF NothingRead, Terminated, SpuriousWakeup
  <2>3. UNCHANGED buffers
    BY <1>7, <2>1, <2>2
  <2> QED
    BY <1>1, <1>3, <2>3 DEF Accounts, E, buffers
<1> QED
  BY <1>4, <1>5, <1>6, <1>7 DEF ReaderStep

\* What Count does to the rows: the bytes go to the last one.
LEMMA CountedRows ==
  ASSUME Types, Count, rows # <<>>
  PROVE  /\ rows' \in Seq(Row) /\ Len(rows') = Len(rows)
         /\ \A j \in 1 .. Len(rows) - 1 : rows'[j] = rows[j]
         /\ rows'[Len(rows)].bytes = rows[Len(rows)].bytes + Counted
         /\ \A j \in 1 .. Len(rows) : rows'[j].track = rows[j].track
         /\ pcmLeft' = pcmLeft
<1> DEFINE n == Len(rows)
           last == [rows[n] EXCEPT !.bytes = @ + Counted]
<1>1. rows' = [rows EXCEPT ![n] = last] /\ pcmLeft' = pcmLeft
  BY DEF Count, LastRow
<1>2. rows \in Seq(Row) /\ n \in 1 .. n /\ n \in Nat /\ Counted \in Nat
  BY RowsIn, CountedType
<1>3. rows[n] \in Row
  BY <1>2
<1>4. /\ last \in Row /\ last.bytes = rows[n].bytes + Counted
      /\ last.track = rows[n].track
  BY <1>2, <1>3 DEF Row
<1> HIDE DEF last
<1>5. /\ rows' \in Seq(Row) /\ Len(rows') = n
      /\ rows'[n] = last /\ \A j \in 1 .. n - 1 : rows'[j] = rows[j]
  BY <1>1, <1>2, <1>4, ExceptSeq
<1>6. \A j \in 1 .. n : j \in 1 .. n - 1 \/ j = n
  BY <1>2
<1>7. \A j \in 1 .. n : rows'[j].track = rows[j].track
  BY <1>4, <1>5, <1>6
<1>8. rows'[n].bytes = rows[n].bytes + Counted
  BY <1>4, <1>5
<1> HIDE DEF n
<1>9. /\ rows' \in Seq(Row) /\ Len(rows') = n /\ \A j \in 1 .. n - 1 : rows'[j] = rows[j]
      /\ rows'[n].bytes = rows[n].bytes + Counted
      /\ \A j \in 1 .. n : rows'[j].track = rows[j].track
      /\ pcmLeft' = pcmLeft
  BY ONLY <1>1, <1>5, <1>7, <1>8
<1> QED
  BY ONLY <1>9 DEF n

LEMMA CountedEnds ==
  ASSUME Types, Count
  PROVE  /\ Len(rows') = Len(rows) /\ rows' \in Seq(Row)
         /\ E' = [E EXCEPT ![Len(rows)] = @ + Counted]
<1>1. /\ rows \in Seq(Row) /\ claimed \in Nat /\ pcmLeft \in Nat /\ claimed + pcmLeft \in Nat
      /\ Len(rows) \in Nat /\ Ends(E, rows, claimed + pcmLeft) /\ Counted \in Nat
  BY RowsIn, CountedType
<1>2. claimed' = claimed
  BY DEF Count
<1>3. CASE rows = <<>>
  <2>1. rows' = <<>> /\ pcmLeft' = pcmLeft + Counted
    BY <1>3 DEF Count
  <2>2. Len(rows) = 0 /\ <<>> \in Seq(Row)
    BY <1>3
  <2> DEFINE base == claimed + pcmLeft
  <2>3. claimed' + pcmLeft' = base + Counted /\ base \in Nat /\ base + Counted \in Nat
    BY <1>1, <1>2, <2>1
  <2>4. E = EndsOf(<<>>, base) /\ E' = EndsOf(<<>>, base + Counted)
    BY <1>3, <2>1, <2>3 DEF E
  <2> HIDE DEF base
  <2>5. E = [j \in 0 .. 0 |-> base] /\ E' = [j \in 0 .. 0 |-> base + Counted]
    BY <2>3, <2>4, EndsOfNone
  <2> QED
    BY <1>3, <2>1, <2>2, <2>5
<1>4. CASE rows # <<>>
  <2> DEFINE base == claimed + pcmLeft
             more == rows'
  <2>1. /\ more \in Seq(Row) /\ Len(more) = Len(rows)
        /\ \A j \in 1 .. Len(rows) - 1 : more[j] = rows[j]
        /\ more[Len(rows)].bytes = rows[Len(rows)].bytes + Counted
        /\ pcmLeft' = pcmLeft
    BY <1>4, CountedRows
  <2>2. base \in Nat /\ Ends(E, rows, base) /\ E' = EndsOf(more, base)
    BY <1>1, <1>2, <2>1 DEF E
  <2> HIDE DEF base, more
  <2>3. LastHasMore(rows, more, Counted)
    BY <2>1 DEF LastHasMore
  <2>4. EndsOf(more, base) = EndsLater(E, Len(rows), Counted)
    BY <1>1, <1>4, <2>2, <2>3, EndsOfCounted
  <2> QED
    BY <2>1, <2>2, <2>4 DEF more, EndsLater
<1> QED
  BY <1>3, <1>4

LEMMA PushedEnds ==
  ASSUME Types, PushRow
  PROVE  /\ E' = WithRow(E, Len(rows))
         /\ rows' = Append(rows, [track |-> changes, bytes |-> 0])
         /\ Len(rows') = Len(rows) + 1
         /\ [track |-> changes, bytes |-> 0] \in Row
<1> DEFINE row == [track |-> changes, bytes |-> 0]
           base == claimed + pcmLeft
<1>1. rows \in Seq(Row) /\ base \in Nat /\ Ends(E, rows, base)
  BY RowsIn
<1>2. row \in Row /\ row.bytes = 0
  BY DEF Types, Row
<1>3. rows' = Append(rows, row) /\ claimed' + pcmLeft' = base
  BY DEF PushRow
<1>4. E' = EndsOf(Append(rows, row), base)
  BY <1>3 DEF E
<1> HIDE DEF base, row
<1>5. EndsOf(Append(rows, row), base) = WithRow(E, Len(rows))
  BY <1>1, <1>2, EndsOfLonger
<1>6. Len(rows') = Len(rows) + 1
  BY <1>1, <1>2, <1>3, AppendProperties
<1> QED
  BY <1>2, <1>3, <1>4, <1>5, <1>6 DEF row

\* Where the bytes go that a round of pcm_.writeTimed stores.
LEMMA StoredBytes ==
  ASSUME Types, Store
  PROVE  \E n \in Nat \ {0} :
           /\ n <= Len(src)
           /\ SubSeq(src, 1, n) \in Seq(Items) /\ Len(SubSeq(src, 1, n)) = n
           /\ ring' = ring \o SubSeq(src, 1, n)
           /\ Len(ring') = Len(ring) + n
           /\ written' = written + n
<1> DEFINE n == Least(Len(src), Size - Len(ring))
<1>1. /\ writer = "storing" /\ Len(ring) < Size
      /\ ring' = ring \o SubSeq(src, 1, n) /\ written' = written + n
  BY DEF Store
<1>2. src \in Seq(Items) /\ ring \in Seq(Items) /\ src # <<>>
  BY <1>1, RowsIn DEF Types
<1>3. Len(src) \in Nat \ {0} /\ Len(ring) \in Nat
  BY <1>2
<1>4. n \in Nat \ {0} /\ n <= Len(src)
  BY <1>1, <1>3, SizesAssumption DEF Least
<1> HIDE DEF n
<1>5. SubSeq(src, 1, n) \in Seq(Items) /\ Len(SubSeq(src, 1, n)) = n
  <2>1. SubSeq(src, 0 + 1, n) \in Seq(Items) /\ Len(SubSeq(src, 0 + 1, n)) = n - 0
    BY <1>2, <1>3, <1>4, Piece
  <2> QED
    BY <1>4, <2>1
<1>6. Len(ring') = Len(ring) + n
  BY <1>1, <1>2, <1>5, ConcatProperties
<1> QED
  BY <1>1, <1>4, <1>5, <1>6

LEMMA WriterAccounts ==
  ASSUME Skip, Types, Accounts, WriterStep \/ JobsStopped
  PROVE  Accounts'
<1>1. Uncounted \in Nat /\ E[Len(rows)] \in Nat /\ E[Len(rows)] + Uncounted = Len(ring)
  BY Within DEF Accounts
<1>2. /\ rows \in Seq(Row) /\ Len(rows) \in Nat /\ Len(ring) \in Nat /\ written \in Nat
      /\ Ends(E, rows, claimed + pcmLeft)
  BY RowsIn DEF Types
<1>3. Counted = written
  BY DEF Counted
<1>4. CASE Store
  <2>1. PICK n \in Nat : Len(ring') = Len(ring) + n /\ written' = written + n
    BY <1>4, StoredBytes
  <2>2. Uncounted = written /\ Uncounted' = written' /\ E' = E /\ rows' = rows
    BY <1>4 DEF Store, Uncounted, E
  <2>3. E[Len(rows)] + (written + n) = Len(ring) + n
    BY <1>1, <1>2, <2>2
  <2> QED
    BY <2>1, <2>2, <2>3 DEF Accounts
<1>5. CASE Count
  <2>1. Len(rows') = Len(rows) /\ E' = [E EXCEPT ![Len(rows)] = @ + Counted]
    BY <1>5, CountedEnds
  <2>2. Uncounted = written /\ Uncounted' = 0 /\ ring' = ring
    BY <1>5 DEF Count, Uncounted
  <2>3. E'[Len(rows')] = E[Len(rows)] + written
    BY <1>2, <1>3, <2>1 DEF Ends
  <2>4. (E[Len(rows)] + written) + 0 = Len(ring)
    BY <1>1, <1>2, <2>2
  <2> QED
    BY <2>2, <2>3, <2>4 DEF Accounts
<1>6. CASE PushRow
  <2>1. /\ Len(rows') = Len(rows) + 1
        /\ E' = [j \in 0 .. Len(rows) + 1 |-> IF j <= Len(rows) THEN E[j] ELSE E[Len(rows)]]
    BY <1>6, PushedEnds DEF WithRow
  <2>2. Uncounted = 0 /\ Uncounted' = 0 /\ ring' = ring
    BY <1>6 DEF PushRow, Uncounted
  <2>3. E'[Len(rows')] = E[Len(rows)]
    BY <1>2, <2>1
  <2> QED
    BY <1>1, <2>2, <2>3 DEF Accounts
<1>7. CASE CutShort \/ CountNothing \/ AwaitRow \/ DropChange \/ JobsStopped
  <2>1. UNCHANGED buffers
    BY <1>7 DEF CutShort, CountNothing, AwaitRow, DropChange, JobsStopped
  <2>2. Uncounted' = Uncounted
    BY <1>3, <1>7 DEF CutShort, CountNothing, AwaitRow, DropChange, JobsStopped, Uncounted, block
  <2> QED
    BY <1>1, <2>1, <2>2 DEF Accounts, E, buffers
<1> QED
  BY <1>4, <1>5, <1>6, <1>7 DEF WriterStep

LEMMA AccountsStep == Skip /\ Types /\ Accounts /\ [Next]_vars => Accounts'
<1> SUFFICES ASSUME Skip, Types, Accounts, [Next]_vars PROVE Accounts'
  OBVIOUS
<1>1. CASE \/ \E n \in 1 .. MaxBlock : StartBlock(n)
           \/ StartChange \/ Terminate \/ Close \/ CloseRing \/ CloseNotifies \/ UNCHANGED vars
  <2>1. UNCHANGED buffers
    BY <1>1 DEF StartBlock, StartChange, Terminate, Close, CloseRing, CloseNotifies, vars
  <2>2. Uncounted' = Uncounted
    BY <1>1 DEF StartBlock, StartChange, Terminate, Close, CloseRing, CloseNotifies, vars,
                Uncounted, block
  <2> QED
    BY <2>1, <2>2 DEF Accounts, E, buffers
<1> QED
  BY <1>1, ReaderAccounts, WriterAccounts DEF Next

LEMMA AccountsInit == Init => Accounts
<1> SUFFICES ASSUME Init PROVE Accounts
  OBVIOUS
<1>1. rows = <<>> /\ claimed + pcmLeft = 0 /\ Len(ring) = 0 /\ Len(rows) = 0 /\ Uncounted = 0
  BY DEF Init, Uncounted
<1>2. E = [j \in 0 .. 0 |-> 0]
  BY <1>1, EndsOfNone DEF E
<1>3. E[Len(rows)] = 0
  BY <1>1, <1>2
<1> QED
  BY <1>1, <1>3 DEF Accounts

LEMMA TypesInvariant == Spec => []Types
<1> QED
  BY TypesInit, TypesStep, PTL DEF Spec

LEMMA Invariance ==
  ASSUME Skip
  PROVE  Spec => [](Types /\ Accounts)
<1>1. Init => Types /\ Accounts
  BY TypesInit, AccountsInit
<1>2. Types /\ Accounts /\ [Next]_vars => (Types /\ Accounts)'
  BY TypesStep, AccountsStep
<1> QED
  BY <1>1, <1>2, PTL DEF Spec

\* "The ring and the counters are never updated together": with timed writes,
\* the default, every byte in the ring is nevertheless counted exactly once, by
\* a row, by the current track, by what the encoder has claimed or by the block
\* that is being written (readPcm, writePcm and readTrackChange together).
THEOREM PcmCountsMatchRing ==
  ASSUME Skip
  PROVE  Spec => []CountsMatchRing
<1>1. Types /\ Accounts => CountsMatchRing
  BY TypesOK, EndOfIs DEF Accounts, E, CountsMatchRing
<1> QED
  BY <1>1, Invariance, PTL

-----------------------------------------------------------------------------
(* What the actions do to the stream.                                      *)

\* What is put before a stream that grows.
LEMMA Regrouped ==
  ASSUME NEW S, NEW a \in Seq(S), NEW b \in Seq(S), NEW c \in Seq(S)
  PROVE  a \o (b \o c) = (a \o b) \o c
  BY ConcatAssociative, SMTT(30)

\* Of the items of a stream.
Regroups(a, b, c) == a \o (b \o c) = (a \o b) \o c

LEMMA ItemsRegrouped == \A a, b, c \in Seq(Items) : Regroups(a, b, c)
  BY Regrouped DEF Regroups

\* A stream is as good as another one that grows in the same way.
LEMMA WholeIs ==
  ASSUME NEW rs \in Seq(Row), NEW base \in Nat, NEW e, Ends(e, rs, base),
         NEW rg \in Seq(Items), e[Len(rs)] <= Len(rg), NEW u, Streams(u, e, rs, rg)
  PROVE  Whole(e, rs, rg) = u[Len(rs)] \o SubSeq(rg, e[Len(rs)] + 1, Len(rg))
<1>1. Streams(StreamsOf(e, rs, rg), e, rs, rg)
  BY StreamsExist
<1>2. StreamsOf(e, rs, rg) = u
  BY <1>1, StreamsUnique
<1> QED
  BY <1>2 DEF Whole

\* Row j adds its change and its bytes to the stream u.
Adds(u, e, rs, rg, j) ==
  /\ u[j] = u[j - 1] \o <<Change(rs[j].track)>> \o OfRow(e, rs, rg, j)
  /\ <<Change(rs[j].track)>> \in Seq(Items)
  /\ OfRow(e, rs, rg, j) \in Seq(Items)

\* What is known of a stream u and its pieces, in one place.
Known(u, e, rs, rg) ==
  /\ Len(rs) \in Nat /\ Len(rg) \in Nat
  /\ \A j \in 0 .. Len(rs) : e[j] \in Nat /\ e[j] <= Len(rg)
  /\ \A i, j \in 0 .. Len(rs) : i <= j => e[i] <= e[j]
  /\ u \in [0 .. Len(rs) -> Seq(Items)]
  /\ u[0] = SubSeq(rg, 1, e[0])
  /\ \A j \in 1 .. Len(rs) : Adds(u, e, rs, rg, j)
  /\ SubSeq(rg, e[Len(rs)] + 1, Len(rg)) \in Seq(Items)
  /\ Whole(e, rs, rg) = u[Len(rs)] \o SubSeq(rg, e[Len(rs)] + 1, Len(rg))
  /\ Whole(e, rs, rg) \in Seq(Items)

LEMMA Parts ==
  ASSUME NEW rs \in Seq(Row), NEW base \in Nat, NEW e, Ends(e, rs, base),
         NEW rg \in Seq(Items), e[Len(rs)] <= Len(rg)
  PROVE  Known(StreamsOf(e, rs, rg), e, rs, rg)
<1> DEFINE n == Len(rs)
           u == StreamsOf(e, rs, rg)
           rest == SubSeq(rg, e[n] + 1, Len(rg))
<1>1. /\ n \in Nat /\ \A j \in 0 .. n : e[j] \in Nat
      /\ \A i, j \in 0 .. n : i <= j => e[i] <= e[j]
  BY EndsGrow
<1>2. /\ u \in [0 .. n -> Seq(Items)] /\ u[0] = SubSeq(rg, 1, e[0])
      /\ \A j \in 1 .. n :
           u[j] = u[j - 1] \o <<Change(rs[j].track)>> \o OfRow(e, rs, rg, j)
  BY StreamsExist DEF Streams, OfRow
<1>3. /\ \A j \in 1 .. n : OfRow(e, rs, rg, j) \in Seq(Items) /\ Change(rs[j].track) \in Items
      /\ rest \in Seq(Items)
  BY RowPieces
<1>4. Whole(e, rs, rg) = u[n] \o rest
  BY DEF Whole
<1>5. \A j \in 0 .. n : e[j] <= Len(rg)
  <2>1. Len(rg) \in Nat
    OBVIOUS
  <2> QED
    BY <1>1, <2>1
<1>6. \A j \in 1 .. n : <<Change(rs[j].track)>> \in Seq(Items)
  BY <1>3
<1> HIDE DEF rest, u
<1>7. u[n] \o rest \in Seq(Items)
  <2>1. u[n] \in Seq(Items)
    BY <1>1, <1>2
  <2> QED
    BY <1>3, <2>1, ConcatProperties
<1>8. \A j \in 1 .. n : Adds(u, e, rs, rg, j)
  BY <1>2, <1>3, <1>6 DEF Adds
<1>9. Len(rg) \in Nat /\ Whole(e, rs, rg) \in Seq(Items)
  BY <1>4, <1>7
<1> HIDE DEF n
<1> QED
  BY <1>1, <1>2, <1>3, <1>4, <1>5, <1>8, <1>9 DEF u, rest, n, Known

\* The stream that starts with the first row is that change and then the rest.
LEMMA WholeOfRest ==
  ASSUME NEW rs \in Seq(Row), rs # <<>>, NEW e, Ends(e, rs, 0),
         NEW rg \in Seq(Items), e[Len(rs)] <= Len(rg)
  PROVE  LET f == [j \in 0 .. Len(rs) - 1 |-> e[j + 1]]
         IN  /\ Whole(f, Tail(rs), rg) \in Seq(Items)
             /\ Whole(e, rs, rg) = <<Change(Head(rs).track)>> \o Whole(f, Tail(rs), rg)
<1> DEFINE n == Len(rs)
           f == [j \in 0 .. n - 1 |-> e[j + 1]]
           tl == Tail(rs)
           first == <<Change(Head(rs).track)>>
           v == StreamsOf(f, tl, rg)
           u == [j \in 0 .. n |-> IF j = 0 THEN <<>> ELSE first \o v[j - 1]]
           rest == SubSeq(rg, e[n] + 1, Len(rg))
<1>1. /\ n \in Nat \ {0} /\ tl \in Seq(Row) /\ Len(tl) = n - 1
      /\ \A j \in 1 .. n - 1 : tl[j] = rs[j + 1]
      /\ Head(rs) = rs[1] /\ Head(rs) \in Row
  BY HeadTailProperties
<1>2. first \in Seq(Items) /\ Head(rs).bytes \in Nat
  BY <1>1 DEF Row, Items
<1>3. Ends(f, tl, Head(rs).bytes)
  <2>1. EndsOf(tl, Head(rs).bytes) = f
    BY EndsOfRest
  <2> HIDE DEF f, tl
  <2> QED
    BY <1>1, <1>2, <2>1, EndsExist
<1>4. /\ \A j \in 0 .. n - 1 : f[j] = e[j + 1]
      /\ f[n - 1] = e[n] /\ e[0] = 0 /\ n - 1 \in 0 .. n - 1
  BY <1>1 DEF Ends
<1> HIDE DEF f, tl, first
<1>5. /\ v \in [0 .. n - 1 -> Seq(Items)]
      /\ v[0] = SubSeq(rg, 1, e[1])
      /\ \A j \in 1 .. n - 1 : Adds(v, f, tl, rg, j)
      /\ rest \in Seq(Items)
      /\ Whole(f, tl, rg) = v[n - 1] \o rest
      /\ Whole(f, tl, rg) \in Seq(Items)
  <2>1. f[Len(tl)] <= Len(rg)
    BY <1>1, <1>4
  <2>2. 0 \in 0 .. n - 1 /\ f[0] = e[1]
    BY <1>1, <1>4
  <2>3. /\ v \in [0 .. Len(tl) -> Seq(Items)]
        /\ v[0] = SubSeq(rg, 1, f[0])
        /\ \A j \in 1 .. Len(tl) : Adds(v, f, tl, rg, j)
        /\ SubSeq(rg, f[Len(tl)] + 1, Len(rg)) \in Seq(Items)
        /\ Whole(f, tl, rg) = v[Len(tl)] \o SubSeq(rg, f[Len(tl)] + 1, Len(rg))
        /\ Whole(f, tl, rg) \in Seq(Items)
    <3>1. tl \in Seq(Row) /\ Head(rs).bytes \in Nat
      BY <1>1, <1>2
    <3>2. Known(v, f, tl, rg)
      BY <1>3, <2>1, <3>1, Parts
    <3> HIDE DEF v
    <3> QED
      BY <3>2 DEF Known
  <2>4. Len(tl) = n - 1 /\ f[Len(tl)] = e[n]
    BY <1>1, <1>4
  <2> HIDE DEF v
  <2> QED
    BY <2>2, <2>3, <2>4
<1> HIDE DEF v, rest
<1>6. Streams(u, e, rs, rg)
  <2>1. u \in [0 .. n -> Seq(Items)]
    <3>1. \A j \in 1 .. n : first \o v[j - 1] \in Seq(Items)
      <4> TAKE j \in 1 .. n
      <4>1. v[j - 1] \in Seq(Items)
        <5>1. j - 1 \in 0 .. n - 1
          BY <1>1
        <5>2. v \in [0 .. n - 1 -> Seq(Items)]
          BY <1>5
        <5> QED
          BY <5>1, <5>2
      <4> QED
        BY <1>2, <4>1, ConcatProperties
    <3>2. <<>> \in Seq(Items)
      OBVIOUS
    <3>3. \A j \in 0 .. n : u[j] \in Seq(Items)
      BY <3>1, <3>2
    <3> QED
      BY <3>3
  <2>2. u[0] = SubSeq(rg, 1, e[0])
    BY <1>1, <1>4
  <2>3. ASSUME NEW j \in 1 .. n
        PROVE  u[j] = u[j - 1] \o <<Change(rs[j].track)>> \o SubSeq(rg, e[j - 1] + 1, e[j])
    <3>1. CASE j = 1
      <4>1. u[1] = first \o v[0] /\ u[0] = <<>>
        BY <1>1, SMTT(30)
      <4>2. v[0] = SubSeq(rg, e[0] + 1, e[1])
        BY <1>4, <1>5
      <4>3. <<>> \o first = first
        BY <1>2, ConcatEmptySeq
      <4>4. first = <<Change(rs[1].track)>>
        BY <1>1 DEF first
      <4>5. first \o v[0] = (<<>> \o first) \o SubSeq(rg, e[0] + 1, e[1])
        BY <4>2, <4>3
      <4>6. u[1] = (u[0] \o <<Change(rs[1].track)>>) \o SubSeq(rg, e[0] + 1, e[1])
        BY <4>1, <4>4, <4>5
      <4> HIDE DEF u
      <4>7. 1 - 1 = 0
        OBVIOUS
      <4> QED
        BY <3>1, <4>6, <4>7
    <3>2. CASE j # 1
      <4> DEFINE i == j - 1
                 c == <<Change(rs[j].track)>>
                 p == SubSeq(rg, e[j - 1] + 1, e[j])
      <4>1. i \in 1 .. n - 1 /\ i - 1 \in 0 .. n - 1 /\ i \in 0 .. n - 1 /\ i + 1 = j
            /\ (i - 1) + 1 = j - 1 /\ j \in 0 .. n /\ j - 1 \in 0 .. n /\ j # 0 /\ j - 1 # 0
            /\ (j - 1) - 1 = i - 1
        BY <1>1, <3>2
      <4>2. u[j] = first \o v[i] /\ u[j - 1] = first \o v[i - 1]
        BY <4>1
      <4>3. tl[i] = rs[j]
        BY <1>1, <4>1
      <4>4. OfRow(f, tl, rg, i) = p
        BY <1>4, <4>1 DEF OfRow
      <4>5. v[i] = v[i - 1] \o c \o p /\ c \in Seq(Items) /\ p \in Seq(Items)
            /\ v[i - 1] \in Seq(Items)
        BY <1>5, <4>1, <4>3, <4>4 DEF Adds
      <4> HIDE DEF i, c, p, u
      <4>6. first \o (v[i - 1] \o c \o p) = (first \o v[i - 1]) \o c \o p
        <5> DEFINE x == v[i - 1]
        <5>1. first \in Seq(Items) /\ x \in Seq(Items) /\ c \in Seq(Items) /\ p \in Seq(Items)
          BY <1>2, <4>5
        <5> HIDE DEF x
        <5>2. first \o (x \o c \o p) = (first \o x) \o c \o p
          <6> DEFINE y == x \o c
          <6>1. y \in Seq(Items)
            BY <5>1, ConcatProperties
          <6>2. first \o y = (first \o x) \o c
            <7>1. Regroups(first, x, c)
              BY ONLY <5>1, ItemsRegrouped
            <7> QED
              BY ONLY <7>1 DEF Regroups
          <6> HIDE DEF y
          <6>3. first \o (y \o p) = (first \o y) \o p
            <7>1. first \in Seq(Items) /\ p \in Seq(Items)
              BY <5>1
            <7>2. Regroups(first, y, p)
              BY ONLY <6>1, <7>1, ItemsRegrouped
            <7> QED
              BY ONLY <7>2 DEF Regroups
          <6> QED
            BY <6>2, <6>3 DEF y
        <5> QED
          BY <5>2 DEF x
      <4>7. u[j] = u[j - 1] \o c \o p
        BY <4>2, <4>5, <4>6
      <4> QED
        BY <4>7 DEF c, p
    <3> QED
      BY <3>1, <3>2
  <2> HIDE DEF u
  <2> QED
    BY <2>1, <2>2, <2>3 DEF Streams
<1>7. Whole(e, rs, rg) = u[n] \o rest
  <2> HIDE DEF u
  <2> QED
    BY <1>6, WholeIs DEF rest
<1>8. u[n] \o rest = first \o (v[n - 1] \o rest)
  <2>1. u[n] = first \o v[n - 1]
    BY <1>1
  <2>2. v[n - 1] \in Seq(Items)
    BY <1>4, <1>5
  <2> DEFINE x == v[n - 1]
  <2>3. first \in Seq(Items) /\ x \in Seq(Items) /\ rest \in Seq(Items)
    BY <1>2, <1>5, <2>2
  <2> HIDE DEF x
  <2>4. first \o (x \o rest) = (first \o x) \o rest
    <3>1. Regroups(first, x, rest)
      BY ONLY <2>3, ItemsRegrouped
    <3> QED
      BY ONLY <3>1 DEF Regroups
  <2> QED
    BY <2>1, <2>4 DEF x
<1>9. Whole(e, rs, rg) = first \o Whole(f, tl, rg)
  BY <1>5, <1>7, <1>8
<1> QED
  BY <1>5, <1>9 DEF f, tl, first

\* The first m rows have the same changes and the same bytes, with h before
\* the first one, ...
SameRows(h, m, e, rs, rg, f, ts, tg) ==
  /\ h \in Seq(Items) /\ SubSeq(rg, 1, e[0]) = h \o SubSeq(tg, 1, f[0])
  /\ m \in Nat /\ m <= Len(rs) /\ m <= Len(ts)
  /\ \A j \in 1 .. m : /\ ts[j].track = rs[j].track
                        /\ OfRow(f, ts, tg, j) = OfRow(e, rs, rg, j)

\* ... so that the streams differ in what stands before them only.
LEMMA Alike ==
  ASSUME NEW rs, NEW e, NEW rg, NEW u, Known(u, e, rs, rg),
         NEW ts, NEW f, NEW tg, NEW v, Known(v, f, ts, tg),
         NEW m, NEW h, SameRows(h, m, e, rs, rg, f, ts, tg)
  PROVE  \A j \in 0 .. m : u[j] = h \o v[j]
<1> DEFINE S == {j \in Nat : j <= m => u[j] = h \o v[j]}
<1>1. /\ h \in Seq(Items) /\ SubSeq(rg, 1, e[0]) = h \o SubSeq(tg, 1, f[0])
      /\ m \in Nat /\ m <= Len(rs) /\ m <= Len(ts)
      /\ \A j \in 1 .. m : /\ ts[j].track = rs[j].track
                            /\ OfRow(f, ts, tg, j) = OfRow(e, rs, rg, j)
  BY DEF SameRows
<1>2. /\ u[0] = h \o v[0]
      /\ \A j \in 0 .. m : v[j] \in Seq(Items)
  <2>1. v \in [0 .. Len(ts) -> Seq(Items)] /\ Len(ts) \in Nat
    BY DEF Known
  <2>2. u[0] = SubSeq(rg, 1, e[0]) /\ v[0] = SubSeq(tg, 1, f[0])
    BY DEF Known
  <2>3. \A j \in 0 .. m : j \in 0 .. Len(ts)
    BY <1>1, <2>1
  <2> QED
    BY <1>1, <2>1, <2>2, <2>3
<1>3. \A j \in 1 .. m : Adds(u, e, rs, rg, j) /\ Adds(v, f, ts, tg, j)
  <2>1. /\ Len(rs) \in Nat /\ \A j \in 1 .. Len(rs) : Adds(u, e, rs, rg, j)
        /\ Len(ts) \in Nat /\ \A j \in 1 .. Len(ts) : Adds(v, f, ts, tg, j)
    BY DEF Known
  <2>2. \A j \in 1 .. m : j \in 1 .. Len(rs) /\ j \in 1 .. Len(ts)
    BY <1>1, <2>1
  <2> QED
    BY <2>1, <2>2
<1>4. 0 \in S
  BY <1>2
<1>5. ASSUME NEW j \in Nat, j \in S
      PROVE  j + 1 \in S
  <2>1. CASE j + 1 <= m
    <3> DEFINE x == v[j]
               c == <<Change(rs[j + 1].track)>>
               p == OfRow(e, rs, rg, j + 1)
               y == x \o c
    <3>1. j + 1 \in 1 .. m /\ (j + 1) - 1 = j /\ j \in 0 .. m
      BY <1>1, <2>1
    <3>2. /\ u[j + 1] = u[j] \o c \o p /\ v[j + 1] = x \o c \o p
          /\ c \in Seq(Items) /\ p \in Seq(Items)
      BY <1>1, <1>3, <3>1 DEF Adds
    <3>3. u[j] = h \o x /\ x \in Seq(Items)
      BY <1>2, <1>5, <2>1, <3>1
    <3>4. u[j + 1] = (h \o x) \o c \o p /\ v[j + 1] = y \o p
      BY <3>2, <3>3
    <3> HIDE DEF x, c, p
    <3>5. y \in Seq(Items)
      BY <3>2, <3>3, ConcatProperties
    <3>6. h \o y = (h \o x) \o c
      <4>1. x \in Seq(Items) /\ c \in Seq(Items) /\ h \in Seq(Items)
        BY <1>1, <3>2, <3>3
      <4>2. Regroups(h, x, c)
        BY ONLY <4>1, ItemsRegrouped
      <4> QED
        BY ONLY <4>2 DEF Regroups
    <3> HIDE DEF y
    <3>7. h \o (y \o p) = (h \o y) \o p
      <4>1. p \in Seq(Items) /\ h \in Seq(Items)
        BY <1>1, <3>2
      <4>2. Regroups(h, y, p)
        BY ONLY <3>5, <4>1, ItemsRegrouped
      <4> QED
        BY ONLY <4>2 DEF Regroups
    <3>8. u[j + 1] = h \o v[j + 1]
      BY <3>4, <3>6, <3>7
    <3> QED
      BY <3>8
  <2> QED
    BY <2>1
<1>6. Nat \subseteq S
  <2> HIDE DEF S
  <2> QED
    BY <1>4, <1>5, SetInduction
<1> QED
  BY <1>1, <1>6

\* What is read is the beginning of the stream.
LEMMA WholeOfRead ==
  ASSUME NEW rs \in Seq(Row), NEW base \in Nat, NEW e, Ends(e, rs, base),
         NEW rg \in Seq(Items), e[Len(rs)] <= Len(rg), NEW m \in Nat, m <= base
  PROVE  LET f  == [j \in 0 .. Len(rs) |-> e[j] - m]
             tg == SubSeq(rg, m + 1, Len(rg))
         IN  /\ Whole(f, rs, tg) \in Seq(Items)
             /\ Whole(e, rs, rg) = SubSeq(rg, 1, m) \o Whole(f, rs, tg)
<1> DEFINE n == Len(rs)
           f == [j \in 0 .. n |-> e[j] - m]
           tg == SubSeq(rg, m + 1, Len(rg))
           h == SubSeq(rg, 1, m)
           u == StreamsOf(e, rs, rg)
           v == StreamsOf(f, rs, tg)
<1>1. Known(u, e, rs, rg)
  BY Parts
<1>2. /\ n \in Nat /\ Len(rg) \in Nat
      /\ \A j \in 0 .. n : e[j] \in Nat /\ e[j] <= Len(rg) /\ m <= e[j]
      /\ \A j \in 1 .. n : j - 1 \in 0 .. n /\ j \in 0 .. n /\ e[j - 1] <= e[j]
      /\ e[0] = base /\ m <= Len(rg) /\ 0 \in 0 .. n /\ n \in 0 .. n
  <2>1. /\ n \in Nat /\ Len(rg) \in Nat
        /\ \A j \in 0 .. n : e[j] \in Nat /\ e[j] <= Len(rg)
        /\ \A i, j \in 0 .. n : i <= j => e[i] <= e[j]
    BY <1>1 DEF Known
  <2>2. e[0] = base
    BY DEF Ends
  <2>3. \A j \in 0 .. n : e[0] <= e[j]
    BY <2>1
  <2>4. \A j \in 1 .. n : j - 1 \in 0 .. n /\ j \in 0 .. n /\ j - 1 <= j
    BY <2>1
  <2> QED
    BY <2>1, <2>2, <2>3, <2>4
<1>3. tg \in Seq(Items) /\ Len(tg) = Len(rg) - m
  BY <1>2, Piece
<1>4. h \in Seq(Items)
  <2>1. SubSeq(rg, 0 + 1, m) \in Seq(Items)
    BY <1>2, Piece
  <2> QED
    BY <2>1
<1>5. Ends(f, rs, base - m) /\ base - m \in Nat
  <2>1. EndsOf(rs, base - m) = f
    BY EndsOfRead
  <2>2. base - m \in Nat
    OBVIOUS
  <2>3. Ends(EndsOf(rs, base - m), rs, base - m)
    BY <2>2, EndsExist
  <2> HIDE DEF f
  <2> QED
    BY <2>1, <2>2, <2>3
<1>6. \A j \in 0 .. n : f[j] = e[j] - m
  OBVIOUS
<1> HIDE DEF f
<1>7. f[n] <= Len(tg)
  BY <1>2, <1>3, <1>6
<1>8. Known(v, f, rs, tg)
  BY <1>3, <1>5, <1>7, Parts
<1>9. \A j \in 1 .. n : OfRow(f, rs, tg, j) = OfRow(e, rs, rg, j)
  <2> TAKE j \in 1 .. n
  <2> DEFINE a == e[j - 1]
             b == e[j]
  <2>1. a \in Nat /\ b \in Nat /\ m <= a /\ a <= b /\ b <= Len(rg)
        /\ f[j - 1] = a - m /\ f[j] = b - m
    BY <1>2, <1>6
  <2> HIDE DEF a, b
  <2>2. SubSeq(tg, (a - m) + 1, b - m) = SubSeq(rg, a + 1, b)
    BY <2>1, PieceOfRest
  <2> QED
    BY <2>1, <2>2 DEF OfRow, a, b
<1>10. SubSeq(rg, 1, e[0]) = h \o SubSeq(tg, 1, f[0])
  <2> DEFINE b == e[0]
  <2>1. b \in Nat /\ m <= b /\ b <= Len(rg) /\ f[0] = b - m
    BY <1>2, <1>6
  <2> HIDE DEF b
  <2>2. SubSeq(tg, (m - m) + 1, b - m) = SubSeq(rg, m + 1, b)
    BY <2>1, PieceOfRest
  <2>3. SubSeq(rg, 0 + 1, m) \o SubSeq(rg, m + 1, b) = SubSeq(rg, 0 + 1, b)
    BY <2>1, Joined
  <2>4. (m - m) + 1 = 1 /\ 0 + 1 = 1
    OBVIOUS
  <2> QED
    BY <2>1, <2>2, <2>3, <2>4 DEF b
<1>11. SubSeq(tg, f[n] + 1, Len(tg)) = SubSeq(rg, e[n] + 1, Len(rg))
  <2> DEFINE a == e[n]
             b == Len(rg)
  <2>1. a \in Nat /\ b \in Nat /\ m <= a /\ a <= b /\ f[n] = a - m /\ Len(tg) = b - m
    BY <1>2, <1>3, <1>6
  <2> HIDE DEF a
  <2>2. SubSeq(tg, (a - m) + 1, b - m) = SubSeq(rg, a + 1, b)
    BY <2>1, PieceOfRest
  <2> HIDE DEF tg
  <2> QED
    BY <2>1, <2>2 DEF a
<1> HIDE DEF h, tg, u, v
<1>12. u[n] = h \o v[n]
  <2>1. \A j \in 0 .. n : u[j] = h \o v[j]
    <3>1. SameRows(h, n, e, rs, rg, f, rs, tg)
      <4>1. n \in Nat /\ n <= Len(rs)
        BY <1>2
      <4>2. \A j \in 1 .. n : rs[j].track = rs[j].track /\ OfRow(f, rs, tg, j) = OfRow(e, rs, rg, j)
        BY <1>9
      <4> HIDE DEF n
      <4> QED
        BY <1>4, <1>10, <4>1, <4>2 DEF SameRows
    <3> HIDE DEF n
    <3> QED
      BY <1>1, <1>8, <3>1, Alike
  <2> QED
    BY <1>2, <2>1
<1> DEFINE rest == SubSeq(rg, e[n] + 1, Len(rg))
<1>13. /\ Whole(e, rs, rg) = u[n] \o rest
       /\ Whole(f, rs, tg) = v[n] \o rest
       /\ Whole(f, rs, tg) \in Seq(Items)
       /\ rest \in Seq(Items) /\ v[n] \in Seq(Items)
  BY <1>1, <1>2, <1>8, <1>11 DEF Known
<1>14. h \o (v[n] \o rest) = (h \o v[n]) \o rest
  <2> DEFINE x == v[n]
  <2>1. x \in Seq(Items) /\ rest \in Seq(Items) /\ h \in Seq(Items)
    BY <1>4, <1>13
  <2> HIDE DEF x, rest
  <2>2. h \o (x \o rest) = (h \o x) \o rest
    <3>1. Regroups(h, x, rest)
      BY ONLY <2>1, ItemsRegrouped
    <3> QED
      BY ONLY <3>1 DEF Regroups
  <2> QED
    BY <2>2 DEF x
<1>15. Whole(e, rs, rg) = h \o Whole(f, rs, tg)
  BY <1>12, <1>13, <1>14
<1> QED
  BY <1>13, <1>15 DEF f, tg, h

\* The same with nothing before the first row.
SameStart(m, e, rs, rg, f, ts, tg) ==
  /\ SubSeq(rg, 1, e[0]) = SubSeq(tg, 1, f[0])
  /\ m \in Nat /\ m <= Len(rs) /\ m <= Len(ts)
  /\ \A j \in 1 .. m : /\ ts[j].track = rs[j].track
                        /\ OfRow(f, ts, tg, j) = OfRow(e, rs, rg, j)

LEMMA AlikeFromStart ==
  ASSUME NEW rs, NEW e, NEW rg, NEW u, Known(u, e, rs, rg),
         NEW ts, NEW f, NEW tg, NEW v, Known(v, f, ts, tg),
         NEW m, SameStart(m, e, rs, rg, f, ts, tg)
  PROVE  u[m] = v[m] /\ u[m] \in Seq(Items)
<1>1. /\ m \in Nat /\ m <= Len(rs) /\ m <= Len(ts) /\ SubSeq(rg, 1, e[0]) = SubSeq(tg, 1, f[0])
  BY DEF SameStart
<1>2. /\ Len(rs) \in Nat /\ u \in [0 .. Len(rs) -> Seq(Items)]
      /\ Len(ts) \in Nat /\ v \in [0 .. Len(ts) -> Seq(Items)]
      /\ u[0] = SubSeq(rg, 1, e[0]) /\ v[0] = SubSeq(tg, 1, f[0])
  BY DEF Known
<1>3. /\ v[0] \in Seq(Items) /\ v[m] \in Seq(Items) /\ u[m] \in Seq(Items)
  <2>1. 0 \in 0 .. Len(ts) /\ m \in 0 .. Len(ts) /\ m \in 0 .. Len(rs)
    BY <1>1, <1>2
  <2> QED
    BY <1>2, <2>1
<1>4. <<>> \in Seq(Items) /\ <<>> \o v[0] = v[0] /\ <<>> \o v[m] = v[m]
  <2>1. <<>> \in Seq(Items)
    OBVIOUS
  <2> QED
    BY <1>3, <2>1, ConcatEmptySeq
<1>5. SameRows(<<>>, m, e, rs, rg, f, ts, tg)
  BY <1>1, <1>2, <1>4 DEF SameRows, SameStart
<1>6. \A j \in 0 .. m : u[j] = <<>> \o v[j]
  <2> DEFINE h == <<>>
  <2>1. SameRows(h, m, e, rs, rg, f, ts, tg)
    BY <1>5
  <2> HIDE DEF h
  <2>2. \A j \in 0 .. m : u[j] = h \o v[j]
    BY <2>1, Alike
  <2> QED
    BY <2>2 DEF h
<1> QED
  BY <1>1, <1>3, <1>4, <1>6

\* What is stored comes last in the stream.
LEMMA WholeOfStored ==
  ASSUME NEW rs \in Seq(Row), NEW base \in Nat, NEW e, Ends(e, rs, base),
         NEW rg \in Seq(Items), e[Len(rs)] <= Len(rg), NEW x \in Seq(Items)
  PROVE  /\ Whole(e, rs, rg) \in Seq(Items)
         /\ Whole(e, rs, rg \o x) = Whole(e, rs, rg) \o x
<1> DEFINE n == Len(rs)
           tg == rg \o x
           u == StreamsOf(e, rs, rg)
           v == StreamsOf(e, rs, tg)
           rest == SubSeq(rg, e[n] + 1, Len(rg))
<1>1. Known(u, e, rs, rg)
  BY Parts
<1>2. /\ n \in Nat /\ Len(rg) \in Nat
      /\ \A j \in 0 .. n : e[j] \in Nat /\ e[j] <= Len(rg)
      /\ \A i, j \in 0 .. n : i <= j => e[i] <= e[j]
      /\ Whole(e, rs, rg) = u[n] \o rest /\ rest \in Seq(Items)
      /\ Whole(e, rs, rg) \in Seq(Items)
  BY <1>1 DEF Known
<1>3. tg \in Seq(Items) /\ Len(rg) <= Len(tg) /\ Len(tg) \in Nat
  BY ConcatProperties
<1>4. e[n] <= Len(tg) /\ n \in 0 .. n /\ 0 \in 0 .. n
  <2>1. n \in 0 .. n /\ 0 \in 0 .. n
    BY <1>2
  <2>2. e[n] \in Nat /\ e[n] <= Len(rg)
    BY <1>2, <2>1
  <2> HIDE DEF tg
  <2> QED
    BY <1>2, <1>3, <2>1, <2>2
<1>5. SubSeq(tg, e[n] + 1, Len(tg)) = rest \o x
  <2> DEFINE a == e[n]
  <2>1. a \in Nat /\ a <= Len(rg)
    BY <1>2, <1>4
  <2> HIDE DEF a
  <2>2. SubSeq(rg \o x, a + 1, Len(rg \o x)) = SubSeq(rg, a + 1, Len(rg)) \o x
    BY <2>1, RestOfLonger
  <2> QED
    BY <2>2 DEF a
<1>6. \A a, b \in Nat : a <= b /\ b <= Len(rg) => SubSeq(tg, a + 1, b) = SubSeq(rg, a + 1, b)
  BY PieceOfLonger
<1> HIDE DEF tg
<1>7. Known(v, e, rs, tg)
  BY <1>3, <1>4, Parts
<1>8. SameStart(n, e, rs, rg, e, rs, tg)
  <2>1. ASSUME NEW j \in 1 .. n
        PROVE  OfRow(e, rs, tg, j) = OfRow(e, rs, rg, j)
    <3>1. j - 1 \in 0 .. n /\ j \in 0 .. n /\ j - 1 <= j
      BY <1>2
    <3>2. e[j - 1] \in Nat /\ e[j] \in Nat /\ e[j - 1] <= e[j] /\ e[j] <= Len(rg)
      BY <1>2, <3>1
    <3> QED
      BY <1>6, <3>2 DEF OfRow
  <2>2. SubSeq(rg, 1, e[0]) = SubSeq(tg, 1, e[0])
    <3>1. e[0] \in Nat /\ e[0] <= Len(rg) /\ 0 <= e[0] /\ 0 \in Nat /\ 0 + 1 = 1
      BY <1>2, <1>4
    <3>2. SubSeq(tg, 0 + 1, e[0]) = SubSeq(rg, 0 + 1, e[0])
      BY <1>6, <3>1
    <3> QED
      BY <3>1, <3>2
  <2>3. n \in Nat /\ n <= Len(rs)
    BY <1>2
  <2>4. \A j \in 1 .. n : rs[j].track = rs[j].track /\ OfRow(e, rs, tg, j) = OfRow(e, rs, rg, j)
    BY <2>1
  <2> HIDE DEF n
  <2> QED
    BY <2>2, <2>3, <2>4 DEF SameStart
<1> HIDE DEF u, v
<1>9. u[n] = v[n] /\ u[n] \in Seq(Items)
  BY <1>1, <1>7, <1>8, AlikeFromStart
<1>10. Whole(e, rs, tg) = v[n] \o (rest \o x)
  BY <1>5, <1>7 DEF Known
<1>11. u[n] \o (rest \o x) = (u[n] \o rest) \o x
  <2> DEFINE y == u[n]
  <2>1. y \in Seq(Items) /\ rest \in Seq(Items) /\ x \in Seq(Items)
    BY <1>2, <1>9
  <2> HIDE DEF y, rest
  <2>2. y \o (rest \o x) = (y \o rest) \o x
    <3>1. Regroups(y, rest, x)
      BY ONLY <2>1, ItemsRegrouped, SMTT(30)
    <3> QED
      BY ONLY <3>1 DEF Regroups
  <2> QED
    BY <2>2 DEF y
<1>12. Whole(e, rs, tg) = Whole(e, rs, rg) \o x
  BY <1>2, <1>9, <1>10, <1>11
<1> QED
  BY <1>2, <1>12 DEF tg

\* So does a row that is added when all bytes are counted.
LEMMA WholeOfLonger ==
  ASSUME NEW rs \in Seq(Row), NEW base \in Nat, NEW e, Ends(e, rs, base),
         NEW rg \in Seq(Items), e[Len(rs)] = Len(rg), NEW row \in Row, row.bytes = 0
  PROVE  /\ Whole(e, rs, rg) \in Seq(Items)
         /\ <<Change(row.track)>> \in Seq(Items)
         /\ Whole(WithRow(e, Len(rs)), Append(rs, row), rg)
              = Whole(e, rs, rg) \o <<Change(row.track)>>
<1> DEFINE n == Len(rs)
           ts == Append(rs, row)
           f == WithRow(e, n)
           u == StreamsOf(e, rs, rg)
           v == StreamsOf(f, ts, rg)
           c == <<Change(row.track)>>
<1>1. Len(rg) \in Nat /\ e[n] <= Len(rg)
  OBVIOUS
<1>2. Known(u, e, rs, rg)
  BY <1>1, Parts
<1>3. /\ n \in Nat /\ \A j \in 0 .. n : e[j] \in Nat
      /\ u \in [0 .. n -> Seq(Items)]
      /\ Whole(e, rs, rg) = u[n] \o SubSeq(rg, e[n] + 1, Len(rg))
      /\ Whole(e, rs, rg) \in Seq(Items)
  BY <1>2 DEF Known
<1>4. /\ ts \in Seq(Row) /\ Len(ts) = n + 1 /\ ts[n + 1] = row
      /\ \A j \in 1 .. n : ts[j] = rs[j]
  BY AppendProperties
<1>5. Ends(f, ts, base)
  <2>1. EndsOf(ts, base) = f
    BY EndsOfLonger
  <2> HIDE DEF f, ts
  <2> QED
    BY <1>4, <2>1, EndsExist
<1>6. /\ \A j \in 0 .. n : f[j] = e[j]
      /\ f[n + 1] = Len(rg) /\ f[(n + 1) - 1] = Len(rg)
  <2>1. n + 1 \in 0 .. n + 1 /\ ~(n + 1 <= n) /\ \A j \in 0 .. n : j \in 0 .. n + 1 /\ j <= n
    BY <1>3
  <2>2. (n + 1) - 1 = n /\ n \in 0 .. n
    BY <1>3
  <2> QED
    BY <2>1, <2>2 DEF WithRow
<1>7. c \in Seq(Items)
  BY DEF Row, Items
<1> HIDE DEF f, ts, c
<1>8. Known(v, f, ts, rg)
  BY <1>1, <1>4, <1>5, <1>6, Parts
<1>9. SameStart(n, e, rs, rg, f, ts, rg)
  <2>1. \A j \in 1 .. n : ts[j].track = rs[j].track /\ OfRow(f, ts, rg, j) = OfRow(e, rs, rg, j)
    <3> TAKE j \in 1 .. n
    <3>1. j \in 0 .. n /\ j - 1 \in 0 .. n
      BY <1>3
    <3> QED
      BY <1>4, <1>6, <3>1 DEF OfRow
  <2>2. n \in Nat /\ n <= Len(rs) /\ n <= Len(ts) /\ 0 \in 0 .. n
    BY <1>3, <1>4
  <2>3. SubSeq(rg, 1, e[0]) = SubSeq(rg, 1, f[0])
    BY <1>6, <2>2
  <2> HIDE DEF n
  <2> QED
    BY <2>1, <2>2, <2>3 DEF SameStart
<1> HIDE DEF u, v
<1>10. u[n] = v[n] /\ u[n] \in Seq(Items)
  BY <1>2, <1>8, <1>9, AlikeFromStart
<1>11. SubSeq(rg, Len(rg) + 1, Len(rg)) = <<>>
  BY <1>1, SubSeqEmpty
<1>12. \A s \in Seq(Items) : s \o <<>> = s
  BY ConcatEmptySeq
<1>13. v[n + 1] = v[n] \o c
  <2>1. n + 1 \in 1 .. Len(ts) /\ (n + 1) - 1 = n
    BY <1>3, <1>4
  <2>2. v[n + 1] = v[n] \o <<Change(ts[n + 1].track)>> \o OfRow(f, ts, rg, n + 1)
    BY <1>8, <2>1 DEF Known, Adds
  <2>3. OfRow(f, ts, rg, n + 1) = <<>>
    BY <1>6, <1>11 DEF OfRow
  <2>4. <<Change(ts[n + 1].track)>> = c
    BY <1>4 DEF c
  <2>5. v[n] \o c \in Seq(Items)
    BY <1>7, <1>10, ConcatProperties
  <2> QED
    BY <1>12, <2>2, <2>3, <2>4, <2>5
<1>14. v[n] \o c \in Seq(Items)
  BY <1>7, <1>10, ConcatProperties
<1>15. Whole(f, ts, rg) = v[n] \o c
  <2>1. Whole(f, ts, rg) = v[Len(ts)] \o SubSeq(rg, f[Len(ts)] + 1, Len(rg))
    BY <1>8 DEF Known
  <2>2. Whole(f, ts, rg) = (v[n] \o c) \o <<>>
    BY <1>4, <1>6, <1>11, <1>13, <2>1
  <2> QED
    BY <1>12, <1>14, <2>2
<1>16. Whole(e, rs, rg) = u[n]
  BY <1>3, <1>10, <1>11, <1>12
<1>17. Whole(f, ts, rg) = Whole(e, rs, rg) \o c
  BY <1>10, <1>15, <1>16
<1> QED
  BY <1>3, <1>7, <1>17 DEF f, ts, c

\* The bytes behind the last row are part of the stream, counted or not.
LEMMA LastOpen ==
  ASSUME NEW rs, NEW e, NEW rg \in Seq(Items), NEW u, Known(u, e, rs, rg)
  PROVE  /\ Len(rs) = 0 => Whole(e, rs, rg) = SubSeq(rg, 1, Len(rg))
         /\ Len(rs) > 0 => Whole(e, rs, rg)
              = (u[Len(rs) - 1] \o <<Change(rs[Len(rs)].track)>>)
                  \o SubSeq(rg, e[Len(rs) - 1] + 1, Len(rg))
<1> DEFINE n == Len(rs)
           rest == SubSeq(rg, e[n] + 1, Len(rg))
<1>1. /\ n \in Nat /\ Len(rg) \in Nat
      /\ \A j \in 0 .. n : e[j] \in Nat /\ e[j] <= Len(rg)
      /\ \A i, j \in 0 .. n : i <= j => e[i] <= e[j]
      /\ u \in [0 .. n -> Seq(Items)] /\ u[0] = SubSeq(rg, 1, e[0])
      /\ Whole(e, rs, rg) = u[n] \o rest /\ rest \in Seq(Items)
      /\ \A j \in 1 .. n : Adds(u, e, rs, rg, j)
  BY DEF Known
<1>2. CASE n = 0
  <2> DEFINE a == e[0]
  <2>1. a \in Nat /\ a <= Len(rg) /\ 0 <= a /\ 0 \in Nat /\ 0 + 1 = 1
    BY <1>1, <1>2
  <2>2. Whole(e, rs, rg) = SubSeq(rg, 1, a) \o SubSeq(rg, a + 1, Len(rg))
    <3>1. u[n] = SubSeq(rg, 1, a) /\ rest = SubSeq(rg, a + 1, Len(rg))
      BY <1>1, <1>2
    <3> HIDE DEF rest, a
    <3> QED
      BY <1>1, <3>1
  <2> HIDE DEF a
  <2> DEFINE z == 0
             l == Len(rg)
  <2>3. /\ z \in Nat /\ l \in Nat /\ z <= a /\ a <= l /\ l <= Len(rg) /\ z + 1 = 1
    BY <1>1, <2>1
  <2> HIDE DEF z, l
  <2>4. SubSeq(rg, z + 1, a) \o SubSeq(rg, a + 1, l) = SubSeq(rg, z + 1, l)
    BY <2>1, <2>3, Joined
  <2>5. Whole(e, rs, rg) = SubSeq(rg, 1, l)
    BY <2>2, <2>3, <2>4 DEF l
  <2> QED
    BY <1>2, <2>5 DEF l
<1>3. CASE n > 0
  <2> DEFINE a == e[n - 1]
             b == e[n]
             c == <<Change(rs[n].track)>>
             p == OfRow(e, rs, rg, n)
             y == u[n - 1] \o c
  <2>1. n \in 1 .. n /\ n - 1 \in 0 .. n /\ n \in 0 .. n /\ n - 1 <= n
    BY <1>1, <1>3
  <2>2. a \in Nat /\ b \in Nat /\ a <= b /\ b <= Len(rg)
    BY <1>1, <2>1
  <2>3. u[n] = (u[n - 1] \o c) \o p /\ c \in Seq(Items) /\ p \in Seq(Items)
    BY <1>1, <2>1 DEF Adds
  <2>4. u[n - 1] \in Seq(Items)
    BY <1>1, <2>1
  <2>5. p = SubSeq(rg, a + 1, b) /\ rest = SubSeq(rg, b + 1, Len(rg))
    BY DEF OfRow
  <2>6. y \in Seq(Items)
    BY <2>3, <2>4, ConcatProperties
  <2> HIDE DEF a, b, c, p, rest
  <2>7. u[n] \o rest = (y \o p) \o rest
    BY <2>3
  <2> HIDE DEF y
  <2>8. (y \o p) \o rest = y \o (p \o rest)
    <3>1. p \in Seq(Items) /\ rest \in Seq(Items)
      BY <1>1, <2>3
    <3>2. Regroups(y, p, rest)
      BY ONLY <2>6, <3>1, ItemsRegrouped
    <3> QED
      BY ONLY <3>2 DEF Regroups
  <2>9. p \o rest = SubSeq(rg, a + 1, Len(rg))
    <3> DEFINE l == Len(rg)
    <3>1. l \in Nat /\ b <= l /\ l <= Len(rg)
      BY <1>1, <2>2
    <3> HIDE DEF l
    <3>2. SubSeq(rg, a + 1, b) \o SubSeq(rg, b + 1, l) = SubSeq(rg, a + 1, l)
      BY <2>2, <3>1, Joined
    <3> QED
      BY <2>5, <3>2 DEF l
  <2>10. Whole(e, rs, rg) = y \o SubSeq(rg, a + 1, Len(rg))
    BY <1>1, <2>7, <2>8, <2>9
  <2> QED
    BY <1>3, <2>10 DEF y, a, c
<1> QED
  BY <1>1, <1>2, <1>3

\* Of the bytes in the ring, k more are counted for the last row.
CountedFor(k, e, rs, f, ts, rg) ==
  /\ k \in Nat /\ e[Len(rs)] + k <= Len(rg)
  /\ Len(ts) = Len(rs) /\ f = [e EXCEPT ![Len(rs)] = @ + k]
  /\ \A j \in 1 .. Len(rs) : ts[j].track = rs[j].track

\* Counting bytes changes nothing in the stream.
LEMMA WholeOfCounted ==
  ASSUME NEW rs \in Seq(Row), NEW base \in Nat, NEW e, Ends(e, rs, base),
         NEW ts \in Seq(Row), NEW tbase \in Nat, NEW f, Ends(f, ts, tbase),
         NEW rg \in Seq(Items), NEW k, CountedFor(k, e, rs, f, ts, rg)
  PROVE  Whole(f, ts, rg) = Whole(e, rs, rg)
<1> DEFINE n == Len(rs)
           u == StreamsOf(e, rs, rg)
           v == StreamsOf(f, ts, rg)
<1>1. /\ k \in Nat /\ e[n] + k <= Len(rg) /\ Len(ts) = n /\ f = [e EXCEPT ![n] = @ + k]
      /\ \A j \in 1 .. n : ts[j].track = rs[j].track
  BY DEF CountedFor
<1>2. /\ n \in Nat /\ Len(rg) \in Nat /\ e \in [0 .. n -> Nat]
      /\ f[n] = e[n] + k /\ \A j \in 0 .. n : j # n => f[j] = e[j]
      /\ e[n] \in Nat
  BY <1>1 DEF Ends
<1>3. Known(u, e, rs, rg) /\ Known(v, f, ts, rg)
  <2>1. e[n] <= Len(rg) /\ f[Len(ts)] <= Len(rg)
    BY <1>1, <1>2
  <2> QED
    BY <2>1, Parts
<1> HIDE DEF u, v
<1>4. CASE n = 0
  <2>1. Whole(e, rs, rg) = SubSeq(rg, 1, Len(rg)) /\ Whole(f, ts, rg) = SubSeq(rg, 1, Len(rg))
    <3>1. /\ Len(rs) = 0 => Whole(e, rs, rg) = SubSeq(rg, 1, Len(rg))
          /\ Len(ts) = 0 => Whole(f, ts, rg) = SubSeq(rg, 1, Len(rg))
      BY <1>3, LastOpen
    <3> QED
      BY <1>1, <1>4, <3>1
  <2> QED
    BY <2>1
<1>5. CASE n > 0
  <2>1. SameStart(n - 1, e, rs, rg, f, ts, rg)
    <3>1. \A j \in 1 .. n - 1 : ts[j].track = rs[j].track
                                /\ OfRow(f, ts, rg, j) = OfRow(e, rs, rg, j)
      <4> TAKE j \in 1 .. n - 1
      <4>1. j \in 0 .. n /\ j # n /\ j - 1 \in 0 .. n /\ j - 1 # n /\ j \in 1 .. n
        BY <1>2
      <4> QED
        BY <1>1, <1>2, <4>1 DEF OfRow
    <3>2. n - 1 \in Nat /\ n - 1 <= Len(rs) /\ n - 1 <= Len(ts)
      BY <1>1, <1>2, <1>5
    <3>3. f[0] = e[0]
      BY <1>2, <1>5
    <3> HIDE DEF n
    <3> QED
      BY <3>1, <3>2, <3>3 DEF SameStart
  <2>2. u[n - 1] = v[n - 1]
    <3> DEFINE m == n - 1
    <3> HIDE DEF m
    <3>1. SameStart(m, e, rs, rg, f, ts, rg)
      BY <2>1 DEF m
    <3>2. u[m] = v[m]
      BY <1>3, <3>1, AlikeFromStart
    <3> QED
      BY <3>2 DEF m
  <2>3. f[n - 1] = e[n - 1] /\ ts[n].track = rs[n].track
    <3>1. n - 1 \in 0 .. n /\ n - 1 # n /\ n \in 1 .. n
      BY <1>2, <1>5
    <3> QED
      BY <1>1, <1>2, <3>1
  <2>4. Whole(e, rs, rg) = (u[n - 1] \o <<Change(rs[n].track)>>)
                             \o SubSeq(rg, e[n - 1] + 1, Len(rg))
    BY <1>3, <1>5, LastOpen
  <2>5. Whole(f, ts, rg) = (v[n - 1] \o <<Change(ts[n].track)>>)
                             \o SubSeq(rg, f[n - 1] + 1, Len(rg))
    <3>1. Len(ts) > 0 => Whole(f, ts, rg)
            = (v[Len(ts) - 1] \o <<Change(ts[Len(ts)].track)>>)
                \o SubSeq(rg, f[Len(ts) - 1] + 1, Len(rg))
      BY <1>3, LastOpen
    <3>2. Len(ts) = n
      BY <1>1
    <3> QED
      BY <1>5, <3>1, <3>2
  <2> QED
    BY <2>2, <2>3, <2>4, <2>5
<1> QED
  BY <1>2, <1>4, <1>5

-----------------------------------------------------------------------------
(* The buffer implements the stream.                                       *)

LEMMA PendingOf ==
  /\ Pending = Whole(E, rows, ring)
  /\ Pending' = Whole(E', rows', ring')
  BY PendingIs DEF E

\* A sequence of one item is delivered first, and what is behind it remains.
LEMMA FirstDelivered ==
  ASSUME NEW p \in Seq(Items), NEW q \in Seq(Items), Len(p) > 0
  PROVE  /\ SubSeq(p \o q, 1, Len(p)) = p
         /\ SubSeq(p \o q, Len(p) + 1, Len(p \o q)) = q
         /\ Len(p) \in 1 .. Len(p \o q)
<1>1. Len(p) \in Nat /\ Len(q) \in Nat /\ Len(p \o q) = Len(p) + Len(q)
  BY ConcatProperties
<1>2. SubSeq(p \o q, 0 + 1, Len(p)) = SubSeq(p, 0 + 1, Len(p))
  BY <1>1, PieceOfLonger
<1>3. SubSeq(p \o q, Len(p) + 1, Len(p \o q)) = SubSeq(p, Len(p) + 1, Len(p)) \o q
  BY <1>1, RestOfLonger
<1>4. SubSeq(p, 1, Len(p)) = p /\ SubSeq(p, Len(p) + 1, Len(p)) = <<>>
  BY <1>1, SubSeqFull, SubSeqEmpty
<1>5. <<>> \o q = q
  BY ConcatEmptySeq
<1>6. Len(p) \in 1 .. Len(p \o q)
  BY <1>1
<1> QED
  BY <1>2, <1>3, <1>4, <1>5, <1>6

LEMMA Delivers ==
  ASSUME NEW p \in Seq(Items), NEW q \in Seq(Items), Len(p) > 0,
         Pending = p \o q, Pending' = q, delivered' = delivered \o p
  PROVE  Stream!Next
<1>1. /\ SubSeq(Pending, 1, Len(p)) = p
      /\ SubSeq(Pending, Len(p) + 1, Len(Pending)) = q
      /\ Len(p) \in 1 .. Len(Pending)
  BY FirstDelivered
<1>2. Stream!Deliver(Len(p))
  BY <1>1 DEF Stream!Deliver
<1> QED
  BY <1>1, <1>2 DEF Stream!Next

LEMMA Writes ==
  ASSUME NEW x \in Seq(Items), Len(x) > 0, Pending \in Seq(Items),
         Pending' = Pending \o x, UNCHANGED delivered
  PROVE  Stream!Next
<1> DEFINE p == Pending
<1>1. p \in Seq(Items) /\ Len(p) \in Nat /\ Len(x) \in Nat
  OBVIOUS
<1> HIDE DEF p
<1>2. Len(p \o x) = Len(p) + Len(x)
  BY <1>1, ConcatProperties
<1>3. SubSeq(p \o x, 1, Len(p)) = p
  <2>1. SubSeq(p \o x, 0 + 1, Len(p)) = SubSeq(p, 0 + 1, Len(p))
    BY <1>1, PieceOfLonger
  <2>2. SubSeq(p, 1, Len(p)) = p
    BY <1>1, SubSeqFull
  <2> QED
    BY <2>1, <2>2
<1>4. Len(p \o x) > Len(p)
  BY <1>1, <1>2
<1>5. Stream!Write
  BY <1>3, <1>4 DEF Stream!Write, p
<1> QED
  BY <1>5 DEF Stream!Next

LEMMA InitRefines == Init => Stream!Init
<1> SUFFICES ASSUME Init PROVE Stream!Init
  OBVIOUS
<1>1. Types /\ Accounts
  BY TypesInit, AccountsInit
<1>2. rows = <<>> /\ ring = <<>> /\ delivered = <<>>
  BY DEF Init
<1>3. rows \in Seq(Row) /\ ring \in Seq(Items) /\ claimed + pcmLeft \in Nat
      /\ Ends(E, rows, claimed + pcmLeft) /\ E[Len(rows)] <= Len(ring)
  BY <1>1, RowsIn, Within
<1>4. Known(StreamsOf(E, rows, ring), E, rows, ring)
  BY <1>3, Parts
<1>5. Len(rows) = 0 => Whole(E, rows, ring) = SubSeq(ring, 1, Len(ring))
  BY <1>3, <1>4, LastOpen
<1>6. Len(rows) = 0 /\ Len(ring) = 0 /\ SubSeq(ring, 1, 0) = <<>>
  BY <1>2, SubSeqEmpty
<1>7. Pending = <<>>
  BY <1>5, <1>6, PendingOf
<1> QED
  BY <1>2, <1>7 DEF Stream!Init

LEMMA ReaderRefines ==
  ASSUME Types, Accounts, ReaderStep \/ SpuriousWakeup
  PROVE  Stream!Next \/ UNCHANGED <<Pending, delivered>>
<1>1. /\ rows \in Seq(Row) /\ ring \in Seq(Items) /\ delivered \in Seq(Items)
      /\ claimed \in Nat /\ pcmLeft \in Nat /\ claimed + pcmLeft \in Nat
      /\ Ends(E, rows, claimed + pcmLeft) /\ E[Len(rows)] <= Len(ring)
      /\ claimed <= Len(ring)
  BY RowsIn, Within
<1>2. CASE ReadTrackChange
  <2> DEFINE f == [j \in 0 .. Len(rows) - 1 |-> E[j + 1]]
             p == <<Change(Head(rows).track)>>
             q == Whole(f, Tail(rows), ring)
  <2>1. /\ rows # <<>> /\ rows' = Tail(rows) /\ ring' = ring /\ claimed + pcmLeft = 0
        /\ E' = f
    BY <1>2, RestEnds
  <2>2. Ends(E, rows, 0)
    BY <1>1, <2>1
  <2>3. q \in Seq(Items) /\ Whole(E, rows, ring) = p \o q
    BY <1>1, <2>1, <2>2, WholeOfRest
  <2>4. Pending = p \o q /\ Pending' = q
    BY <2>1, <2>3, PendingOf
  <2>5. Change(Head(rows).track) \in Items
    <3>1. Head(rows) \in Row
      BY <1>1, <2>1, HeadTailProperties
    <3> QED
      BY <3>1 DEF Row, Items
  <2>6. p \in Seq(Items) /\ Len(p) > 0
    BY <2>5
  <2>7. delivered' = delivered \o p
    BY <1>1, <1>2, <2>5, AppendIsConcat DEF ReadTrackChange
  <2> HIDE DEF p, q
  <2> QED
    BY <2>3, <2>4, <2>6, <2>7, Delivers
<1>3. CASE ReadFull
  <2> DEFINE f  == [j \in 0 .. Len(rows) |-> E[j] - claimed]
             tg == SubSeq(ring, claimed + 1, Len(ring))
             p  == SubSeq(ring, 1, claimed)
             q  == Whole(f, rows, tg)
  <2>1. /\ claimed > 0 /\ delivered' = delivered \o p /\ ring' = tg
    BY <1>3, AllThere
  <2>2. rows' = rows /\ E' = f /\ claimed <= claimed + pcmLeft
    BY <1>3, ReadEnds
  <2>3. q \in Seq(Items) /\ Whole(E, rows, ring) = p \o q
    <3> DEFINE base == claimed + pcmLeft
    <3>1. base \in Nat /\ claimed \in Nat /\ claimed <= base /\ Ends(E, rows, base)
      BY <1>1, <2>2
    <3> HIDE DEF base
    <3> QED
      BY <1>1, <3>1, WholeOfRead
  <2>4. Pending = p \o q /\ Pending' = q
    BY <2>1, <2>2, <2>3, PendingOf
  <2>5. p \in Seq(Items) /\ Len(p) > 0
    <3>1. SubSeq(ring, 0 + 1, claimed) \in Seq(Items)
          /\ Len(SubSeq(ring, 0 + 1, claimed)) = claimed - 0
      BY <1>1, Piece
    <3> QED
      BY <1>1, <2>1, <3>1
  <2> HIDE DEF p, q, f, tg
  <2> QED
    BY <2>1, <2>3, <2>4, <2>5, Delivers
<1>4. CASE Claim
  <2> DEFINE n == Wanted - (Wanted % FrameBytes)
  <2>1. /\ UNCHANGED <<rows, ring, delivered>> /\ claimed = 0
        /\ claimed' = n /\ pcmLeft' = pcmLeft - n
    BY <1>1, <1>4 DEF Claim, Types
  <2>2. n \in Nat
    BY <1>1, WantedBytes, FramesClaimed
  <2> HIDE DEF n
  <2>3. claimed' + pcmLeft' = claimed + pcmLeft
    BY <1>1, <2>1, <2>2
  <2> QED
    BY <2>1, <2>3, PendingOf DEF E
<1>5. CASE NoTrackChange \/ Decide \/ FallAsleep \/ NothingRead \/ Terminated \/ SpuriousWakeup
  <2>1. UNCHANGED buffers
    BY <1>5 DEF NoTrackChange, Decide, FallAsleep, NothingRead, Terminated, SpuriousWakeup
  <2> QED
    BY <2>1, PendingOf DEF E, buffers
<1> QED
  BY <1>2, <1>3, <1>4, <1>5 DEF ReaderStep

LEMMA WriterRefines ==
  ASSUME Skip, Types, Accounts, WriterStep \/ JobsStopped
  PROVE  Stream!Next \/ UNCHANGED <<Pending, delivered>>
<1>1. /\ rows \in Seq(Row) /\ ring \in Seq(Items) /\ Len(rows) \in Nat /\ Len(ring) \in Nat
      /\ claimed \in Nat /\ pcmLeft \in Nat /\ claimed + pcmLeft \in Nat
      /\ Ends(E, rows, claimed + pcmLeft) /\ E[Len(rows)] <= Len(ring)
      /\ E[Len(rows)] \in Nat
  BY RowsIn, Within
<1>2. CASE Store
  <2>1. PICK n \in Nat \ {0} :
          /\ SubSeq(src, 1, n) \in Seq(Items) /\ Len(SubSeq(src, 1, n)) = n
          /\ ring' = ring \o SubSeq(src, 1, n)
    BY <1>2, StoredBytes
  <2> DEFINE x == SubSeq(src, 1, n)
  <2>2. x \in Seq(Items) /\ Len(x) > 0 /\ ring' = ring \o x
    BY <2>1
  <2>3. rows' = rows /\ E' = E /\ delivered' = delivered
    BY <1>2 DEF Store, E
  <2> HIDE DEF x
  <2>4. Whole(E, rows, ring) \in Seq(Items)
        /\ Whole(E, rows, ring \o x) = Whole(E, rows, ring) \o x
    BY <1>1, <2>2, WholeOfStored
  <2>5. Pending \in Seq(Items) /\ Pending' = Pending \o x
    BY <2>2, <2>3, <2>4, PendingOf
  <2> QED
    BY <2>2, <2>3, <2>5, Writes
<1>3. CASE Count
  <2> DEFINE f == E'
             ts == rows'
             tbase == claimed' + pcmLeft'
             k == Counted
  <2>1. /\ Len(ts) = Len(rows) /\ ts \in Seq(Row) /\ f = [E EXCEPT ![Len(rows)] = @ + k]
        /\ k \in Nat
    BY <1>3, CountedEnds, CountedType
  <2>2. tbase \in Nat
    BY <1>3, TypesStep, RowsIn, CountedRows, CountedType DEF Count
  <2>3. Ends(f, ts, tbase)
    BY <2>1, <2>2, EndsExist DEF E
  <2>4. E[Len(rows)] + k <= Len(ring)
    <3>1. Uncounted = written /\ k = written
      BY <1>3 DEF Count, Uncounted, Counted
    <3> QED
      BY <1>1, <3>1 DEF Accounts
  <2>5. \A j \in 1 .. Len(rows) : ts[j].track = rows[j].track
    BY <1>3, CountedRows DEF Count
  <2>6. ring' = ring /\ delivered' = delivered
    BY <1>3 DEF Count
  <2>7. Pending' = Whole(f, ts, ring) /\ Pending = Whole(E, rows, ring)
    BY <2>6, PendingOf
  <2> HIDE DEF f, ts, tbase, k
  <2>8. CountedFor(k, E, rows, f, ts, ring)
    BY <2>1, <2>4, <2>5 DEF CountedFor
  <2>9. Whole(f, ts, ring) = Whole(E, rows, ring)
    <3> DEFINE base == claimed + pcmLeft
    <3>1. base \in Nat /\ Ends(E, rows, base)
      BY <1>1
    <3> HIDE DEF base
    <3> QED
      BY <1>1, <2>1, <2>2, <2>3, <2>8, <3>1, WholeOfCounted
  <2> QED
    BY <2>6, <2>7, <2>9
<1>4. CASE PushRow
  <2> DEFINE row == [track |-> changes, bytes |-> 0]
             f == WithRow(E, Len(rows))
             x == <<Change(row.track)>>
  <2>1. E' = f /\ rows' = Append(rows, row) /\ row \in Row /\ row.bytes = 0
    BY <1>4, PushedEnds
  <2>2. ring' = ring /\ delivered' = delivered /\ Uncounted = 0
    BY <1>4 DEF PushRow, Uncounted
  <2>3. E[Len(rows)] = Len(ring)
    BY <1>1, <2>2 DEF Accounts
  <2> HIDE DEF row
  <2>4. /\ Whole(E, rows, ring) \in Seq(Items) /\ x \in Seq(Items)
        /\ Whole(f, Append(rows, row), ring) = Whole(E, rows, ring) \o x
    <3> DEFINE base == claimed + pcmLeft
    <3>1. base \in Nat /\ Ends(E, rows, base)
      BY <1>1
    <3> HIDE DEF base
    <3> QED
      BY <1>1, <2>1, <2>3, <3>1, WholeOfLonger
  <2>5. Pending \in Seq(Items) /\ Pending' = Pending \o x
    BY <2>1, <2>2, <2>4, PendingOf
  <2>6. Len(x) > 0
    OBVIOUS
  <2> HIDE DEF x
  <2> QED
    BY <2>2, <2>4, <2>5, <2>6, Writes
<1>5. CASE CutShort \/ CountNothing \/ AwaitRow \/ DropChange \/ JobsStopped
  <2>1. UNCHANGED buffers
    BY <1>5 DEF CutShort, CountNothing, AwaitRow, DropChange, JobsStopped
  <2> QED
    BY <2>1, PendingOf DEF E, buffers
<1> QED
  BY <1>2, <1>3, <1>4, <1>5 DEF WriterStep

LEMMA NextRefines ==
  Skip /\ Types /\ Accounts /\ [Next]_vars => [Stream!Next]_(Stream!vars)
<1> SUFFICES ASSUME Skip, Types, Accounts, [Next]_vars
             PROVE  Stream!Next \/ UNCHANGED <<Pending, delivered>>
  BY DEF Stream!vars
<1>1. CASE \/ \E n \in 1 .. MaxBlock : StartBlock(n)
           \/ StartChange \/ Terminate \/ Close \/ CloseRing \/ CloseNotifies \/ UNCHANGED vars
  <2>1. UNCHANGED buffers
    BY <1>1 DEF StartBlock, StartChange, Terminate, Close, CloseRing, CloseNotifies, vars
  <2> QED
    BY <2>1, PendingOf DEF E, buffers
<1> QED
  BY <1>1, ReaderRefines, WriterRefines DEF Next

\* "Track changes are passed on at right positions": with timed writes, the
\* default, every behaviour of the encoder's loop, of the writes and of close()
\* is one of a stream to whose end what is written is added and from whose
\* beginning the encoder takes, so that a change is never seen before or after
\* another byte than the one it was written before.
THEOREM PcmInRightPositions ==
  ASSUME Skip
  PROVE  Spec => InRightPositions
<1>1. Init => Stream!Init
  BY InitRefines
<1>2. Types /\ Accounts /\ [Next]_vars => [Stream!Next]_(Stream!vars)
  BY NextRefines
<1> QED
  BY <1>1, <1>2, Invariance, PTL DEF Spec, InRightPositions, Stream!Spec

-----------------------------------------------------------------------------
(* Shutdown.                                                               *)

Multiple(n) == \E k \in Int : n = FrameBytes * k

\* Nobody ever has a part of a frame.
WholeFrames ==
  /\ Multiple(pcmLeft) /\ Multiple(claimed) /\ Multiple(Len(ring))
  /\ Multiple(written) /\ Multiple(Len(src))
  /\ \A i \in 1 .. Len(rows) : Multiple(rows[i].bytes)

\* Unless a signal came: the buffer closes after the last write, and when the
\* encoder reads nothing, the current track has been read and stays so, because
\* what is written from now on belongs to a later track.
Orderly ==
  ~terminating =>
    /\ closed => writer = "stopped"
    /\ closer = "open" \/ closed
    /\ reader = "closed?" => pcmLeft = 0 /\ (closed \/ rows # <<>>)
    /\ reader = "done" => pcmLeft = 0 /\ closed

LEMMA Multiples ==
  /\ Multiple(0) /\ Multiple(FrameBytes)
  /\ \A a, b : Multiple(a) /\ Multiple(b) => Multiple(a + b) /\ Multiple(a - b)
                                           /\ Multiple(Least(a, b))
  /\ \A n \in Nat : Multiple(n * FrameBytes)
  /\ \A n \in Nat : n % FrameBytes = 0 => Multiple(n)
  /\ \A n \in Nat : Multiple(n) /\ n < FrameBytes => n = 0
<1>1. Multiple(0) /\ Multiple(FrameBytes)
  <2>1. 0 = FrameBytes * 0 /\ FrameBytes = FrameBytes * 1
    BY SizesAssumption
  <2> QED
    BY <2>1 DEF Multiple
<1>2. ASSUME NEW a, NEW b, Multiple(a), Multiple(b)
      PROVE  Multiple(a + b) /\ Multiple(a - b) /\ Multiple(Least(a, b))
  <2>1. PICK k \in Int : a = FrameBytes * k
    BY <1>2 DEF Multiple
  <2>2. PICK l \in Int : b = FrameBytes * l
    BY <1>2 DEF Multiple
  <2>3. a + b = FrameBytes * (k + l) /\ a - b = FrameBytes * (k - l)
    BY <2>1, <2>2, SizesAssumption
  <2>4. k + l \in Int /\ k - l \in Int
    OBVIOUS
  <2>5. Least(a, b) = a \/ Least(a, b) = b
    BY DEF Least
  <2> QED
    BY <1>2, <2>3, <2>4, <2>5 DEF Multiple
<1>3. ASSUME NEW n \in Nat PROVE Multiple(n * FrameBytes)
  <2>1. n * FrameBytes = FrameBytes * n
    BY SizesAssumption
  <2> QED
    BY <2>1 DEF Multiple
<1>4. ASSUME NEW n \in Nat, n % FrameBytes = 0 PROVE Multiple(n)
  <2>1. n = FrameBytes * (n \div FrameBytes) + (n % FrameBytes) /\ n \div FrameBytes \in Nat
    BY Division, SizesAssumption
  <2>2. n = FrameBytes * (n \div FrameBytes)
    BY <1>4, <2>1, SizesAssumption
  <2> QED
    BY <2>1, <2>2 DEF Multiple
<1>5. ASSUME NEW n \in Nat, Multiple(n), n < FrameBytes PROVE n = 0
  <2>1. PICK k \in Int : n = FrameBytes * k
    BY <1>5 DEF Multiple
  <2>2. CASE k >= 1
    <3>1. FrameBytes * k = FrameBytes + FrameBytes * (k - 1) /\ FrameBytes * (k - 1) >= 0
      BY <2>2, SizesAssumption
    <3> QED
      BY <1>5, <2>1, <3>1, SizesAssumption
  <2>3. CASE k <= -1
    <3>1. FrameBytes * (0 - k) = FrameBytes + FrameBytes * (0 - k - 1)
          /\ FrameBytes * (0 - k - 1) >= 0 /\ FrameBytes * (0 - k) = 0 - FrameBytes * k
      BY <2>3, SizesAssumption
    <3> QED
      BY <1>5, <2>1, <3>1, SizesAssumption
  <2>4. CASE k = 0
    BY <2>1, <2>4, SizesAssumption
  <2> QED
    BY <2>2, <2>3, <2>4
<1> QED
  BY <1>1, <1>2, <1>3, <1>4, <1>5

LEMMA ReaderWhole ==
  ASSUME Types, WholeFrames, ReaderStep \/ SpuriousWakeup
  PROVE  WholeFrames'
<1>1. UNCHANGED <<writer, src, written>>
  BY DEF ReaderStep, SpuriousWakeup, ReadTrackChange, NoTrackChange, Claim, Decide,
         FallAsleep, ReadFull, NothingRead, Terminated, block
<1>2. CASE ReadTrackChange
  <2>1. /\ rows # <<>> /\ rows' = Tail(rows) /\ pcmLeft' = Head(rows).bytes
        /\ UNCHANGED <<ring, claimed>>
    BY <1>2 DEF ReadTrackChange
  <2>2. /\ rows \in Seq(Queued) /\ Len(rows) > 0 /\ Head(rows) = rows[1]
        /\ Len(Tail(rows)) = Len(rows) - 1
        /\ \A i \in 1 .. Len(rows) - 1 : Tail(rows)[i] = rows[i + 1] /\ i + 1 \in 1 .. Len(rows)
    BY <2>1, HeadTailProperties DEF Types
  <2>3. 1 \in 1 .. Len(rows)
    BY <2>2
  <2> QED
    BY <1>1, <2>1, <2>2, <2>3 DEF WholeFrames
<1>3. CASE Claim
  <2> DEFINE n == Wanted - (Wanted % FrameBytes)
  <2>1. UNCHANGED <<ring, rows>> /\ claimed' = n /\ pcmLeft' = pcmLeft - n
    BY <1>3 DEF Claim
  <2>2. n \in Nat /\ n % FrameBytes = 0
    BY WantedBytes, FramesClaimed DEF Types
  <2> HIDE DEF n
  <2>3. Multiple(n)
    BY <2>2, Multiples
  <2>4. Multiple(pcmLeft - n)
    BY <2>3, Multiples DEF WholeFrames
  <2> QED
    BY <1>1, <2>1, <2>3, <2>4 DEF WholeFrames
<1>4. CASE ReadFull
  <2> DEFINE n == Least(claimed, Len(ring))
  <2>1. /\ ring' = SubSeq(ring, n + 1, Len(ring)) /\ claimed' = 0
        /\ UNCHANGED <<rows, pcmLeft>>
    BY <1>4 DEF ReadFull
  <2>2. n \in Nat /\ n <= Len(ring) /\ Len(ring) \in Nat /\ ring \in Seq(Stored)
    BY DEF Types, Least
  <2>3. Multiple(n) /\ Multiple(Len(ring) - n) /\ Multiple(0)
    BY Multiples DEF WholeFrames
  <2> HIDE DEF n
  <2>4. Len(ring') = Len(ring) - n
    BY <2>1, <2>2, Piece
  <2> QED
    BY <1>1, <2>1, <2>3, <2>4 DEF WholeFrames
<1>5. CASE NoTrackChange \/ Decide \/ FallAsleep \/ NothingRead \/ Terminated \/ SpuriousWakeup
  <2>1. UNCHANGED buffers
    BY <1>5 DEF NoTrackChange, Decide, FallAsleep, NothingRead, Terminated, SpuriousWakeup
  <2> QED
    BY <1>1, <2>1 DEF WholeFrames, buffers
<1> QED
  BY <1>2, <1>3, <1>4, <1>5 DEF ReaderStep

LEMMA WriterWhole ==
  ASSUME Multiple(Size), Types, WholeFrames, WriterStep \/ JobsStopped
  PROVE  WholeFrames'
<1>1. CASE Store
  <2> DEFINE n == Least(Len(src), Size - Len(ring))
  <2>1. /\ ring' = ring \o SubSeq(src, 1, n) /\ Len(ring) < Size
        /\ src' = SubSeq(src, n + 1, Len(src))
        /\ written' = written + n
        /\ UNCHANGED <<rows, pcmLeft, claimed>>
    BY <1>1 DEF Store
  <2>2. /\ n \in Nat /\ n <= Len(src) /\ src \in Seq(Stored) /\ ring \in Seq(Stored)
        /\ Len(src) \in Nat /\ Len(ring) \in Nat
    BY <2>1, SizesAssumption DEF Types, Least
  <2>3. Multiple(n)
    BY Multiples DEF WholeFrames
  <2> HIDE DEF n
  <2>4. Multiple(Len(ring) + n) /\ Multiple(Len(src) - n) /\ Multiple(written + n)
    BY <2>3, Multiples DEF WholeFrames
  <2>5. Len(src') = Len(src) - n
    BY <2>1, <2>2, Piece
  <2>6. Len(ring') = Len(ring) + n
    <3>1. SubSeq(src, 0 + 1, n) \in Seq(Stored) /\ Len(SubSeq(src, 0 + 1, n)) = n - 0
      BY <2>2, Piece
    <3>2. SubSeq(src, 1, n) \in Seq(Stored) /\ Len(SubSeq(src, 1, n)) = n
      BY <2>2, <3>1
    <3> QED
      BY <2>1, <2>2, <3>2, ConcatProperties
  <2> QED
    BY <2>1, <2>4, <2>5, <2>6 DEF WholeFrames
<1>2. CASE Count
  <2>1. Multiple(Counted) /\ Counted \in Nat
    BY CountedType, Multiples DEF Counted, WholeFrames
  <2>2. /\ src' = <<>> /\ written' = 0 /\ UNCHANGED <<ring, claimed>> /\ Len(src') = 0
        /\ Multiple(0)
    BY <1>2, Multiples DEF Count
  <2>3. CASE rows = <<>>
    <3>1. pcmLeft' = pcmLeft + Counted /\ rows' = rows
      BY <1>2, <2>3 DEF Count
    <3>2. Multiple(pcmLeft + Counted)
      BY <2>1, Multiples DEF WholeFrames
    <3> QED
      BY <2>2, <3>1, <3>2 DEF WholeFrames
  <2>4. CASE rows # <<>>
    <3> DEFINE last == [rows[LastRow] EXCEPT !.bytes = @ + Counted]
    <3>1. rows' = [rows EXCEPT ![LastRow] = last] /\ pcmLeft' = pcmLeft
      BY <1>2, <2>4 DEF Count
    <3>2. LastRow \in 1 .. Len(rows) /\ rows \in Seq(Queued)
      BY <2>4 DEF Types, LastRow
    <3>3. last \in Queued /\ last.bytes = rows[LastRow].bytes + Counted
      <4>1. rows[LastRow] \in Queued
        BY <3>2
      <4> QED
        BY <2>1, <4>1 DEF Queued
    <3>4. Multiple(last.bytes)
      BY <2>1, <3>2, <3>3, Multiples DEF WholeFrames
    <3> HIDE DEF last
    <3>5. /\ Len(rows') = Len(rows)
          /\ \A i \in 1 .. Len(rows) : rows'[i] = IF i = LastRow THEN last ELSE rows[i]
      BY <3>1, <3>2, <3>3, ExceptSeq
    <3> QED
      BY <2>2, <3>1, <3>4, <3>5 DEF WholeFrames
  <2> QED
    BY <2>3, <2>4
<1>3. CASE CountNothing
  <2>1. src' = <<>> /\ written' = 0 /\ UNCHANGED buffers /\ Len(src') = 0 /\ Multiple(0)
    BY <1>3, Multiples DEF CountNothing
  <2> QED
    BY <2>1 DEF WholeFrames, buffers
<1>4. CASE PushRow
  <2> DEFINE row == [track |-> changes, bytes |-> 0]
  <2>1. rows' = Append(rows, row) /\ UNCHANGED <<ring, pcmLeft, claimed, src, written>>
    BY <1>4 DEF PushRow, block
  <2>2. row \in Queued /\ row.bytes = 0 /\ rows \in Seq(Queued)
    BY <1>4 DEF Types, Queued, PushRow
  <2> HIDE DEF row
  <2>3. /\ Len(rows') = Len(rows) + 1 /\ rows'[Len(rows) + 1] = row
        /\ \A i \in 1 .. Len(rows) : rows'[i] = rows[i]
    BY <2>1, <2>2, AppendProperties
  <2>4. \A i \in 1 .. Len(rows') : i = Len(rows) + 1 \/ i \in 1 .. Len(rows)
    BY <2>2, <2>3
  <2>5. Multiple(0)
    BY Multiples
  <2> QED
    BY <2>1, <2>2, <2>3, <2>4, <2>5 DEF WholeFrames
<1>5. CASE CutShort \/ AwaitRow \/ DropChange \/ JobsStopped
  <2>1. UNCHANGED <<buffers, block>>
    BY <1>5 DEF CutShort, AwaitRow, DropChange, JobsStopped
  <2> QED
    BY <2>1 DEF WholeFrames, buffers, block
<1> QED
  BY <1>1, <1>2, <1>3, <1>4, <1>5 DEF WriterStep

LEMMA WholeStep ==
  ASSUME Multiple(Size)
  PROVE  Types /\ WholeFrames /\ [Next]_vars => WholeFrames'
<1> SUFFICES ASSUME Types, WholeFrames, [Next]_vars PROVE WholeFrames'
  OBVIOUS
<1>1. CASE \E n \in 1 .. MaxBlock : StartBlock(n)
  <2>1. PICK n \in 1 .. MaxBlock : StartBlock(n)
    BY <1>1
  <2>2. n \in Nat /\ n * FrameBytes \in Nat
    BY SizesAssumption, BoundAssumption
  <2>3. /\ src' = [i \in 1 .. n * FrameBytes |-> Byte(frames * FrameBytes + i)]
        /\ written' = 0 /\ UNCHANGED buffers
    BY <2>1 DEF StartBlock
  <2>4. Len(src') = n * FrameBytes
    <3> DEFINE len == n * FrameBytes
               f   == [i \in 1 .. len |-> Byte(frames * FrameBytes + i)]
    <3>1. len \in Nat /\ src' = f /\ DOMAIN f = 1 .. len
      BY <2>2, <2>3
    <3>2. f \in Seq({f[i] : i \in 1 .. len})
      BY <3>1
    <3> HIDE DEF f, len
    <3>3. Len(f) = len
      BY <3>1, <3>2
    <3> QED
      BY <3>1, <3>3 DEF len
  <2>5. Multiple(n * FrameBytes) /\ Multiple(0)
    BY <2>2, Multiples
  <2> QED
    BY <2>3, <2>4, <2>5 DEF WholeFrames, buffers
<1>2. CASE StartChange \/ Terminate \/ Close \/ CloseRing \/ CloseNotifies \/ UNCHANGED vars
  <2>1. UNCHANGED <<buffers, block>>
    BY <1>2 DEF StartChange, Terminate, Close, CloseRing, CloseNotifies, vars
  <2> QED
    BY <2>1 DEF WholeFrames, buffers, block
<1> QED
  BY <1>1, <1>2, ReaderWhole, WriterWhole DEF Next

\* readPcm() returns 0 only when the current track is read, not because a part
\* of a frame is left.
LEMMA NothingClaimed ==
  ASSUME Types, WholeFrames, Claim, reader' = "closed?"
  PROVE  pcmLeft' = 0 /\ (closed \/ rows # <<>>)
<1> DEFINE n == Wanted - (Wanted % FrameBytes)
<1>1. n \in Nat /\ (n = 0 => Wanted < FrameBytes)
  BY WantedBytes, FramesClaimed DEF Types
<1>2. n = 0 /\ pcmLeft' = pcmLeft - n /\ Readable
  BY <1>1 DEF Claim
<1>3. Wanted = pcmLeft /\ pcmLeft < FrameBytes /\ pcmLeft \in Nat
  BY <1>1, <1>2, WantedBytes DEF Types
<1>4. pcmLeft = 0
  BY <1>3, Multiples DEF WholeFrames
<1> QED
  BY <1>2, <1>4 DEF Readable

LEMMA OrderlyStep == Types /\ WholeFrames /\ Orderly /\ [Next]_vars => Orderly'
<1> SUFFICES ASSUME Types, WholeFrames, Orderly, [Next]_vars, ~terminating' PROVE Orderly'
  BY DEF Orderly
<1>1. ~terminating
  BY DEF Next, vars, ReaderStep, SpuriousWakeup, ReadTrackChange, NoTrackChange, Claim, Decide,
         FallAsleep, ReadFull, NothingRead, Terminated, StartBlock, StartChange, WriterStep,
         Store, CutShort, Count, CountNothing, PushRow, AwaitRow, DropChange, JobsStopped,
         Terminate, Close, CloseRing, CloseNotifies, stop
<1>2. /\ closed => writer = "stopped"
      /\ closer = "open" \/ closed
      /\ reader = "closed?" => pcmLeft = 0 /\ (closed \/ rows # <<>>)
      /\ reader = "done" => pcmLeft = 0 /\ closed
  BY <1>1 DEF Orderly
<1>3. CASE ReaderStep \/ SpuriousWakeup
  <2>1. UNCHANGED <<writer, stop>>
    BY <1>3 DEF ReaderStep, SpuriousWakeup, ReadTrackChange, NoTrackChange, Claim, Decide,
                FallAsleep, ReadFull, NothingRead, Terminated
  <2>2. CASE Claim
    <3>1. UNCHANGED rows /\ reader' \in {"reading", "closed?"}
      BY <2>2 DEF Claim
    <3> QED
      BY <1>2, <2>1, <2>2, <3>1, NothingClaimed DEF Orderly, stop
  <2>3. CASE NothingRead
    BY <1>2, <2>1, <2>3 DEF NothingRead, Orderly, stop, buffers
  <2>4. CASE ReadTrackChange \/ NoTrackChange \/ Decide \/ FallAsleep \/ ReadFull \/ SpuriousWakeup
    <3>1. reader' \notin {"closed?", "done"}
      BY <2>4 DEF ReadTrackChange, NoTrackChange, Decide, FallAsleep, ReadFull, SpuriousWakeup
    <3> QED
      BY <1>2, <2>1, <3>1 DEF Orderly, stop
  <2>5. ~Terminated
    BY <1>1 DEF Terminated
  <2> QED
    BY <1>3, <2>2, <2>3, <2>4, <2>5 DEF ReaderStep
<1>4. CASE WriterStep \/ StartChange \/ \E n \in 1 .. MaxBlock : StartBlock(n)
  <2>1. ~closed /\ UNCHANGED stop /\ closer = "open"
    <3>1. ~closed /\ UNCHANGED stop
      BY <1>2, <1>4 DEF WriterStep, StartChange, StartBlock, Store, CutShort, Count, CountNothing,
                        PushRow, AwaitRow, DropChange
    <3> QED
      BY <1>2, <3>1
  <2>2. reader' = "closed?" => reader = "closed?"
    BY <1>4 DEF WriterStep, StartChange, StartBlock, Store, CutShort, Count, CountNothing,
                PushRow, AwaitRow, DropChange, Notified
  <2>3. reader' # "done"
    BY <1>2, <1>4, <2>1 DEF WriterStep, StartChange, StartBlock, Store, CutShort, Count,
                            CountNothing, PushRow, AwaitRow, DropChange, Notified
  <2>4. ASSUME rows # <<>> PROVE UNCHANGED pcmLeft /\ rows' # <<>>
    <3>1. CASE Count
      <4>1. UNCHANGED pcmLeft /\ DOMAIN rows' = DOMAIN rows
        BY <2>4, <3>1 DEF Count
      <4>2. rows \in Seq(Queued) /\ Len(rows) > 0
        BY <2>4 DEF Types
      <4>3. 1 \in DOMAIN rows
        BY <4>2
      <4> QED
        BY <4>1, <4>3
    <3>2. CASE PushRow
      <4>1. rows' = Append(rows, [track |-> changes, bytes |-> 0]) /\ UNCHANGED pcmLeft
        BY <3>2 DEF PushRow
      <4>2. rows' # <<>>
        BY <4>1, AppendProperties DEF Types
      <4> QED
        BY <4>1, <4>2
    <3>3. CASE ~Count /\ ~PushRow
      <4>1. UNCHANGED <<rows, pcmLeft>>
        BY <1>4, <3>3 DEF WriterStep, StartChange, StartBlock, Store, CutShort, CountNothing,
                          AwaitRow, DropChange, buffers
      <4> QED
        BY <2>4, <4>1
    <3> QED
      BY <3>1, <3>2, <3>3
  <2> QED
    BY <1>2, <2>1, <2>2, <2>3, <2>4 DEF Orderly, stop
<1>5. CASE JobsStopped \/ UNCHANGED vars
  BY <1>2, <1>5 DEF JobsStopped, Orderly, vars, stop, buffers
<1>6. CASE Close \/ CloseRing \/ CloseNotifies
  <2>1. /\ UNCHANGED <<buffers, writer>> /\ (closed => closed')
        /\ reader' \in {"closed?", "done"} => reader' = reader
    BY <1>6 DEF Close, CloseRing, CloseNotifies, Notified
  <2>2. closed' /\ writer = "stopped"
    BY <1>1, <1>2, <1>6 DEF Close, CloseRing, CloseNotifies
  <2> QED
    BY <1>2, <2>1, <2>2 DEF Orderly, buffers
<1>7. ~Terminate
  BY DEF Terminate
<1> QED
  BY <1>3, <1>4, <1>5, <1>6, <1>7 DEF Next

\* An orderly shutdown cuts no track that is being played: where the ring holds
\* whole frames, an encoder that ends although no signal came has played all of
\* the track that was current (readPcm, run and close together), whether the
\* writes are timed or not.
THEOREM PcmCurrentTrackFinished ==
  ASSUME Size % FrameBytes = 0
  PROVE  Spec => []CurrentTrackFinished
<1>1. Multiple(Size)
  BY Multiples, SizesAssumption
<1>2. Init => WholeFrames /\ Orderly
  <2>1. Multiple(0)
    BY Multiples
  <2> QED
    BY <2>1 DEF Init, WholeFrames, Orderly
<1>3. WholeFrames /\ Types /\ Orderly /\ [Next]_vars => WholeFrames' /\ Orderly'
  BY <1>1, WholeStep, OrderlyStep
<1>4. Types /\ Orderly => CurrentTrackFinished
  <2> SUFFICES ASSUME Types, Orderly, reader = "done", ~terminating
               PROVE  pcmLeft = 0 /\ claimed = 0
    BY DEF CurrentTrackFinished
  <2>1. claimed \in Nat /\ ~(claimed > 0)
    BY DEF Types
  <2> QED
    BY <2>1 DEF Orderly
<1> QED
  BY <1>2, <1>3, <1>4, TypesInvariant, PTL DEF Spec

-----------------------------------------------------------------------------
(* Writes that are not timed.                                              *)

\* No byte was counted, and so none was read.
OnlyChanges ==
  ~ringClosed =>
    /\ pcmLeft = 0 /\ claimed = 0
    /\ \A i \in 1 .. Len(rows) : rows[i].bytes = 0
    /\ \A i \in 1 .. Len(delivered) : delivered[i] \in {Change(k) : k \in Nat}

LEMMA OnlyChangesStep == ~Skip /\ Types /\ OnlyChanges /\ [Next]_vars => OnlyChanges'
<1> SUFFICES ASSUME ~Skip, Types, OnlyChanges, [Next]_vars, ~ringClosed' PROVE OnlyChanges'
  BY DEF OnlyChanges
<1>1. ~ringClosed
  BY DEF Next, vars, ReaderStep, SpuriousWakeup, ReadTrackChange, NoTrackChange, Claim, Decide,
         FallAsleep, ReadFull, NothingRead, Terminated, StartBlock, StartChange, WriterStep,
         Store, CutShort, Count, CountNothing, PushRow, AwaitRow, DropChange, JobsStopped,
         Terminate, Close, CloseRing, CloseNotifies, stop
<1>2. /\ pcmLeft = 0 /\ claimed = 0
      /\ \A i \in 1 .. Len(rows) : rows[i].bytes = 0
      /\ \A i \in 1 .. Len(delivered) : delivered[i] \in {Change(k) : k \in Nat}
      /\ rows \in Seq(Row) /\ delivered \in Seq(Items)
  BY <1>1, RowsIn DEF OnlyChanges
<1>3. CASE ReadTrackChange
  <2>1. /\ rows # <<>> /\ rows' = Tail(rows) /\ pcmLeft' = Head(rows).bytes
        /\ delivered' = Append(delivered, Change(Head(rows).track)) /\ claimed' = claimed
    BY <1>3 DEF ReadTrackChange
  <2>2. Len(rows) \in Nat \ {0} /\ Head(rows) = rows[1] /\ rows[1] \in Row
    BY <1>2, <2>1
  <2>3. Head(rows).bytes = 0 /\ Head(rows).track \in Nat
    BY <1>2, <2>2 DEF Row
  <2>4. Len(rows') = Len(rows) - 1 /\ \A i \in 1 .. Len(rows) - 1 : rows'[i] = rows[i + 1]
    BY <1>2, <2>1
  <2>5. \A i \in 1 .. Len(rows') : rows'[i].bytes = 0
    BY <1>2, <2>2, <2>4
  <2> DEFINE c == Change(Head(rows).track)
  <2>6. c \in {Change(k) : k \in Nat}
    BY <2>3
  <2> HIDE DEF c
  <2>7. /\ Len(delivered') = Len(delivered) + 1 /\ delivered'[Len(delivered) + 1] = c
        /\ \A i \in 1 .. Len(delivered) : delivered'[i] = delivered[i]
    BY <1>2, <2>1 DEF c
  <2>8. \A i \in 1 .. Len(delivered') : delivered'[i] \in {Change(k) : k \in Nat}
    BY <1>2, <2>6, <2>7
  <2> QED
    BY <1>2, <2>1, <2>3, <2>5, <2>8 DEF OnlyChanges
<1>4. CASE Claim
  <2>1. Wanted = 0
    BY <1>2, SizesAssumption DEF Wanted, Least
  <2>2. 0 % FrameBytes = 0
    BY SizesAssumption
  <2>3. pcmLeft' = 0 /\ claimed' = 0 /\ UNCHANGED <<rows, delivered>>
    BY <1>2, <1>4, <2>1, <2>2 DEF Claim
  <2> QED
    BY <1>2, <2>3 DEF OnlyChanges
<1>5. ~ReadFull
  BY <1>2 DEF ReadFull, Types
<1>6. ~Count
  BY <1>1 DEF Count, Counted
<1>7. CASE PushRow
  <2> DEFINE row == [track |-> changes, bytes |-> 0]
  <2>1. rows' = Append(rows, row) /\ UNCHANGED <<pcmLeft, claimed, delivered>>
    BY <1>7 DEF PushRow
  <2>2. row.bytes = 0
    OBVIOUS
  <2> HIDE DEF row
  <2>3. \A i \in 1 .. Len(rows') : rows'[i] = IF i <= Len(rows) THEN rows[i] ELSE row
    BY <1>2, <2>1
  <2>4. \A i \in 1 .. Len(rows') : rows'[i].bytes = 0
    BY <1>2, <2>2, <2>3
  <2> QED
    BY <1>2, <2>1, <2>4 DEF OnlyChanges
<1>8. ASSUME UNCHANGED <<rows, pcmLeft, claimed, delivered>>
      PROVE  OnlyChanges'
  BY <1>2, <1>8 DEF OnlyChanges
<1>9. NoTrackChange \/ Decide \/ FallAsleep \/ NothingRead \/ Terminated \/ SpuriousWakeup
        => OnlyChanges'
  BY <1>8 DEF NoTrackChange, Decide, FallAsleep, NothingRead, Terminated, SpuriousWakeup, buffers
<1>10. Store \/ CutShort \/ CountNothing \/ AwaitRow \/ DropChange => OnlyChanges'
  BY <1>8 DEF Store, CutShort, CountNothing, AwaitRow, DropChange, buffers
<1>11. \A n \in 1 .. MaxBlock : StartBlock(n) => OnlyChanges'
  BY <1>8 DEF StartBlock, buffers
<1>12. StartChange \/ JobsStopped \/ Terminate \/ Close \/ CloseRing \/ CloseNotifies
         \/ UNCHANGED vars => OnlyChanges'
  BY <1>8 DEF StartChange, JobsStopped, Terminate, Close, CloseRing, CloseNotifies, vars, buffers
<1> QED
  BY <1>3, <1>4, <1>5, <1>6, <1>7, <1>9, <1>10, <1>11, <1>12 DEF Next, ReaderStep, WriterStep

\* writePcm() counts 0 bytes after a blocking write that succeeded: without
\* timed writes the encoder is given track changes and not one byte of sound
\* until the ring is closed, whatever the sizes and however it is scheduled.
THEOREM PcmBlockingReadsNothing ==
  ASSUME ~Skip
  PROVE  Spec => [](~ringClosed =>
           \A i \in 1 .. Len(delivered) : delivered[i] \in {Change(k) : k \in Nat})
<1>1. Init => OnlyChanges
  BY DEF Init, OnlyChanges
<1>2. OnlyChanges => (~ringClosed =>
        \A i \in 1 .. Len(delivered) : delivered[i] \in {Change(k) : k \in Nat})
  BY DEF OnlyChanges
<1>3. Types /\ OnlyChanges /\ [Next]_vars => OnlyChanges'
  BY OnlyChangesStep
<1> QED
  BY <1>1, <1>2, <1>3, TypesInvariant, PTL DEF Spec

=============================================================================
