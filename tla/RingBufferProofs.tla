-------------------------- MODULE RingBufferProofs --------------------------
(***************************************************************************)
(* Proofs about RingBuffer, for any capacity, any values and any threads:  *)
(* the array with its head and tail implements the bounded FIFO.  The      *)
(* index arithmetic is settled once, in lemmas about MoveTo and MoveFrom   *)
(* that say what the copies do to Contents; the steps then follow.  With   *)
(* one thread that waits on each side, no wakeup is lost.                  *)
(***************************************************************************)
EXTENDS RingBuffer, SequenceTheorems, TLAPS

RingOK ==
  /\ buffer \in [Slots -> Values]
  /\ head \in Slots
  /\ tail \in Slots

\* The value a putNoWait() still has to store.
PutPending ==
  \A w \in Writers : kind[w] = "putNoWait" =>
    /\ pc[w] \in {"locking", "tryLocking", "asleep"} => Len(src[w]) = 1
    /\ pc[w] = "notify" => src[w] = <<>>

IInv == TypeOK /\ PutPending

-----------------------------------------------------------------------------
(* Index arithmetic.                                                       *)

\* The ring never holds more than Size values, and After stays in the array.
LEMMA RingBounds ==
  ASSUME RingOK
  PROVE  /\ ToRead \in 0 .. Size
         /\ ToWrite \in 0 .. Size
         /\ ToRead + ToWrite = Size
         /\ \A i \in Slots, k \in 0 .. Size : After(i, k) \in Slots
  BY SizeAssumption DEF RingOK, Slots, ToRead, ToWrite, After

\* (i + 1) % buffer_.size() is the next slot.
LEMMA ModNext ==
  ASSUME NEW i \in Slots
  PROVE  (i + 1) % (Size + 1) = After(i, 1)
<1>1. CASE i = Size
  BY <1>1, SizeAssumption DEF Slots, After
<1>2. CASE i # Size
  BY <1>2, SizeAssumption DEF Slots, After
<1> QED
  BY <1>1, <1>2

\* canWrite_() and lockedToWrite_() agree.
LEMMA CanWriteMeansSpace ==
  ASSUME RingOK
  PROVE  CanWrite <=> ToWrite > 0
<1>1. (head + 1) % (Size + 1) = After(head, 1)
  BY ModNext DEF RingOK
<1> QED
  BY <1>1, SizeAssumption DEF RingOK, CanWrite, ToWrite, ToRead, Slots, After

LEMMA ContentsIsSeq ==
  ASSUME RingOK
  PROVE  /\ Contents \in Seq(Values)
         /\ Len(Contents) = ToRead
         /\ \A i \in 1 .. ToRead : Contents[i] = buffer[After(tail, i - 1)]
<1>1. ToRead \in Nat
  BY RingBounds
<1>2. \A i \in 1 .. ToRead : buffer[After(tail, i - 1)] \in Values
  <2> TAKE i \in 1 .. ToRead
  <2>1. i - 1 \in 0 .. Size
    BY RingBounds, SizeAssumption
  <2> QED
    BY <2>1, RingBounds DEF RingOK
<1>3. Contents \in [1 .. ToRead -> Values]
  BY <1>2 DEF Contents
<1>4. Contents \in Seq(Values)
  BY <1>1, <1>3, SeqDef
<1>5. Len(Contents) = ToRead
  BY <1>1, <1>3, <1>4, LenProperties
<1> QED
  BY <1>4, <1>5 DEF Contents

\* What lockedXferToBuffer_ does: the contents grow by the first n values.
LEMMA MoveToContents ==
  ASSUME RingOK, NEW s \in Seq(Values), NEW n \in 0 .. Len(s), n <= ToWrite,
         MoveTo(s, n)
  PROVE  /\ RingOK'
         /\ ToRead' = ToRead + n
         /\ Contents' = Contents \o SubSeq(s, 1, n)
<1>0. /\ Len(s) \in Nat /\ \A i \in 1 .. Len(s) : s[i] \in Values
      /\ ToRead \in 0 .. Size /\ ToRead + n <= Size
      /\ head \in 0 .. Size /\ tail \in 0 .. Size
  <2>1. Len(s) \in Nat /\ \A i \in 1 .. Len(s) : s[i] \in Values
    BY ElementOfSeq, LenProperties
  <2>2. ToRead \in 0 .. Size /\ ToRead + n <= Size
    BY RingBounds, <2>1, SizeAssumption
  <2> QED
    BY <2>1, <2>2 DEF RingOK, Slots
<1>b. \A i \in Slots : buffer'[i] = IF head <= i /\ i < head + n THEN s[i - head + 1]
                                    ELSE IF i + ((Size + 1) - head) < n
                                           THEN s[i + ((Size + 1) - head) + 1]
                                    ELSE buffer[i]
  BY DEF MoveTo
<1>1. tail' = tail /\ head' \in Slots
  BY <1>0, SizeAssumption DEF MoveTo, Slots
<1>2. buffer' \in [Slots -> Values]
  <2>1. ASSUME NEW i \in Slots PROVE buffer'[i] \in Values
    <3>1. CASE head <= i /\ i < head + n
      BY <1>0, <2>1, <3>1, SizeAssumption DEF MoveTo, Slots
    <3>2. CASE ~(head <= i /\ i < head + n) /\ i + (Size + 1 - head) < n
      BY <1>0, <2>1, <3>2, SizeAssumption DEF MoveTo, Slots
    <3>3. CASE ~(head <= i /\ i < head + n) /\ ~(i + (Size + 1 - head) < n)
      BY <1>0, <1>b, <2>1, <3>3, SizeAssumption DEF RingOK, Slots
    <3> QED
      BY <3>1, <3>2, <3>3
  <2> QED
    BY <2>1 DEF MoveTo
<1>3. RingOK'
  BY <1>1, <1>2, RingBounds DEF RingOK, Slots
<1>4. ToRead' = ToRead + n
  BY <1>0, <1>1, SizeAssumption DEF MoveTo, ToRead, Slots
<1>5. ASSUME NEW i \in 1 .. ToRead
      PROVE  buffer'[After(tail, i - 1)] = buffer[After(tail, i - 1)]
  <2>1. After(tail, i - 1) \in Slots
    <3>1. i - 1 \in 0 .. Size
      BY <1>0, <1>5, SizeAssumption
    <3> QED
      BY <3>1, RingBounds DEF RingOK
  <2>2. /\ ~(head <= After(tail, i - 1) /\ After(tail, i - 1) < head + n)
        /\ ~(After(tail, i - 1) + (Size + 1 - head) < n)
    BY <1>0, <1>5, SizeAssumption DEF After, ToRead
  <2> QED
    BY <1>0, <1>b, <2>1, <2>2, SizeAssumption DEF Slots
<1>6. ASSUME NEW i \in 1 .. n
      PROVE  buffer'[After(tail, ToRead + i - 1)] = s[i]
  <2> DEFINE k == After(tail, ToRead + i - 1)
  <2>1. k = After(head, i - 1) /\ k \in Slots
    BY <1>0, <1>6, SizeAssumption DEF After, ToRead, Slots
  <2>2. CASE head + i - 1 <= Size
    <3>1. head <= k /\ k < head + n /\ k - head + 1 = i
      BY <1>0, <1>6, <2>1, <2>2 DEF After
    <3> QED
      BY <1>0, <1>b, <2>1, <3>1, SizeAssumption DEF Slots
  <2>3. CASE head + i - 1 > Size
    <3>1. k < head /\ k + (Size + 1 - head) < n /\ k + (Size + 1 - head) + 1 = i
      BY <1>0, <1>6, <2>1, <2>3, SizeAssumption DEF After
    <3>2. ~(head <= k /\ k < head + n)
      BY <1>0, <2>1, <3>1 DEF Slots
    <3> QED
      BY <1>0, <1>b, <2>1, <3>1, <3>2, SizeAssumption, SMTT(30) DEF Slots
  <2>4. head + i - 1 \in Int
    BY <1>0, <1>6
  <2> QED
    BY <1>0, <2>2, <2>3, <2>4, SizeAssumption
<1>7. /\ SubSeq(s, 1, n) \in Seq(Values) /\ Len(SubSeq(s, 1, n)) = n
      /\ \A i \in 1 .. n : SubSeq(s, 1, n)[i] = s[i]
  BY <1>0, SubSeqProperties
<1>8. /\ Contents \in Seq(Values) /\ Len(Contents) = ToRead
      /\ \A i \in 1 .. ToRead : Contents[i] = buffer[After(tail, i - 1)]
  BY ContentsIsSeq
<1>9. /\ Contents' \in Seq(Values) /\ Len(Contents') = ToRead + n
      /\ \A i \in 1 .. ToRead + n : Contents'[i] = buffer'[After(tail, i - 1)]
  <2>1. Contents' = [i \in 1 .. ToRead + n |-> buffer'[After(tail, i - 1)]]
    BY <1>1, <1>4 DEF Contents, After
  <2>2. \A i \in 1 .. ToRead + n : buffer'[After(tail, i - 1)] \in Values
    <3> TAKE i \in 1 .. ToRead + n
    <3>1. i - 1 \in 0 .. Size
      BY <1>0, SizeAssumption
    <3>2. After(tail, i - 1) \in Slots
      BY <3>1, RingBounds DEF RingOK
    <3> QED
      BY <1>2, <3>2
  <2>3. Contents' \in [1 .. ToRead + n -> Values] /\ ToRead + n \in Nat
    BY <1>0, <2>1, <2>2
  <2>4. Contents' \in Seq(Values)
    BY <2>3, SeqDef
  <2>5. Len(Contents') = ToRead + n
    BY <2>3, <2>4, LenProperties
  <2> QED
    BY <2>1, <2>4, <2>5
<1>10. /\ Contents \o SubSeq(s, 1, n) \in Seq(Values)
       /\ Len(Contents \o SubSeq(s, 1, n)) = ToRead + n
       /\ \A i \in 1 .. ToRead + n : (Contents \o SubSeq(s, 1, n))[i] =
            IF i <= ToRead THEN Contents[i] ELSE SubSeq(s, 1, n)[i - ToRead]
  <2> DEFINE batch == SubSeq(s, 1, n)
  <2>1. /\ Contents \o batch \in Seq(Values)
        /\ Len(Contents \o batch) = Len(Contents) + Len(batch)
        /\ \A i \in 1 .. Len(Contents) + Len(batch) : (Contents \o batch)[i] =
             IF i <= Len(Contents) THEN Contents[i] ELSE batch[i - Len(Contents)]
    BY <1>7, <1>8, ConcatProperties
  <2> QED
    BY <1>7, <1>8, <2>1
<1>11. ASSUME NEW i \in 1 .. ToRead + n
       PROVE  Contents'[i] = (Contents \o SubSeq(s, 1, n))[i]
  <2>0. ToRead \in Nat /\ n \in Nat /\ i \in Nat
    BY <1>0
  <2>1. CASE i <= ToRead
    <3>1. i \in 1 .. ToRead
      BY <2>0, <2>1
    <3> QED
      BY <1>5, <1>8, <1>9, <1>10, <2>1, <3>1
  <2>2. CASE i > ToRead
    <3>1. i - ToRead \in 1 .. n /\ ToRead + (i - ToRead) - 1 = i - 1
      BY <1>0, <2>2
    <3>2. buffer'[After(tail, i - 1)] = s[i - ToRead]
      BY <1>6, <3>1
    <3> QED
      <4>1. Contents'[i] = s[i - ToRead]
        BY <1>9, <3>2
      <4>2. (Contents \o SubSeq(s, 1, n))[i] = SubSeq(s, 1, n)[i - ToRead]
        BY <1>10, <2>0, <2>2
      <4> QED
        BY <1>7, <3>1, <4>1, <4>2
  <2>3. i <= ToRead \/ i > ToRead
    BY <2>0
  <2> QED
    BY <2>1, <2>2, <2>3
<1>12. Contents' = Contents \o SubSeq(s, 1, n)
  BY <1>9, <1>10, <1>11, SeqEqual
<1> QED
  BY <1>3, <1>4, <1>12

\* What lockedMoveFromBuffer_ does: the contents lose their first n values,
\* which are the values read.
LEMMA MoveFromContents ==
  ASSUME RingOK, taken \in Seq(Values), NEW n \in Nat, n <= ToRead, MoveFrom(n)
  PROVE  /\ RingOK'
         /\ ToRead' = ToRead - n
         /\ Contents' = SubSeq(Contents, n + 1, Len(Contents))
         /\ taken' = taken \o SubSeq(Contents, 1, n)
         /\ taken' \in Seq(Values)
<1>0. /\ ToRead \in 0 .. Size
      /\ head \in 0 .. Size /\ tail \in 0 .. Size
      /\ head' = head /\ buffer' = buffer
  BY RingBounds DEF RingOK, Slots, MoveFrom
<1>1. tail' \in Slots /\ ToRead' = ToRead - n
  BY <1>0, SizeAssumption DEF MoveFrom, ToRead, Slots
<1>2. RingOK'
  BY <1>0, <1>1 DEF RingOK
<1>3. ASSUME NEW i \in 1 .. ToRead - n
      PROVE  After(tail', i - 1) = After(tail, i + n - 1)
  BY <1>0, <1>3, SizeAssumption DEF MoveFrom, ToRead, After
<1>4. /\ Contents \in Seq(Values) /\ Len(Contents) = ToRead
      /\ \A i \in 1 .. ToRead : Contents[i] = buffer[After(tail, i - 1)]
      /\ \A i \in 1 .. ToRead : Contents[i] \in Values
  BY ContentsIsSeq, ElementOfSeq
<1>5. /\ Contents' \in Seq(Values) /\ Len(Contents') = ToRead - n
      /\ \A i \in 1 .. ToRead - n : Contents'[i] = buffer[After(tail', i - 1)]
  <2>1. Contents' = [i \in 1 .. ToRead - n |-> buffer[After(tail', i - 1)]]
    BY <1>0, <1>1 DEF Contents, After
  <2>2. \A i \in 1 .. ToRead - n : buffer[After(tail', i - 1)] \in Values
    <3> TAKE i \in 1 .. ToRead - n
    <3>1. i + n \in 1 .. ToRead /\ i + n - 1 = (i + n) - 1
      BY <1>0
    <3>2. buffer[After(tail, (i + n) - 1)] \in Values
      BY <1>4, <3>1
    <3> QED
      BY <1>3, <3>1, <3>2
  <2>3. Contents' \in [1 .. ToRead - n -> Values] /\ ToRead - n \in Nat
    BY <1>0, <2>1, <2>2
  <2>4. Contents' \in Seq(Values)
    BY <2>3, SeqDef
  <2>5. Len(Contents') = ToRead - n
    BY <2>3, <2>4, LenProperties
  <2> QED
    BY <2>1, <2>4, <2>5
<1>6. /\ SubSeq(Contents, n + 1, ToRead) \in Seq(Values)
      /\ Len(SubSeq(Contents, n + 1, ToRead)) = ToRead - n
      /\ \A i \in 1 .. ToRead - n : SubSeq(Contents, n + 1, ToRead)[i] = Contents[i + n]
  <2>1. n + 1 \in Int /\ ToRead \in Int /\ \A i \in n + 1 .. ToRead : Contents[i] \in Values
    BY <1>0, <1>4
  <2>2. /\ SubSeq(Contents, n + 1, ToRead) \in Seq(Values)
        /\ Len(SubSeq(Contents, n + 1, ToRead)) =
             IF n + 1 <= ToRead THEN ToRead - (n + 1) + 1 ELSE 0
        /\ \A i \in 1 .. ToRead - (n + 1) + 1 :
             SubSeq(Contents, n + 1, ToRead)[i] = Contents[(n + 1) + i - 1]
    BY <2>1, SubSeqProperties
  <2>3. \A i \in 1 .. ToRead - n : /\ i \in 1 .. ToRead - (n + 1) + 1
                                   /\ (n + 1) + i - 1 = i + n
    BY <1>0
  <2> QED
    BY <1>0, <2>2, <2>3
<1>7. ASSUME NEW i \in 1 .. ToRead - n
      PROVE  Contents'[i] = SubSeq(Contents, n + 1, ToRead)[i]
  <2>1. i + n \in 1 .. ToRead /\ i + n - 1 = (i + n) - 1
    BY <1>0
  <2>2. Contents[i + n] = buffer[After(tail, (i + n) - 1)]
    BY <1>4, <2>1
  <2> QED
    BY <1>3, <1>5, <1>6, <2>1, <2>2
<1>8. Contents' = SubSeq(Contents, n + 1, Len(Contents))
  BY <1>4, <1>5, <1>6, <1>7, SeqEqual
<1>9. taken' = taken \o SubSeq(Contents, 1, n) /\ taken' \in Seq(Values)
  <2>1. \A i \in 1 .. n : Contents[i] \in Values
    BY <1>0, <1>4
  <2>2. SubSeq(Contents, 1, n) \in Seq(Values)
    BY <2>1, SubSeqProperties
  <2> QED
    BY <2>2, ConcatProperties DEF MoveFrom
<1> QED
  BY <1>1, <1>2, <1>8, <1>9

-----------------------------------------------------------------------------
(* Type correctness.                                                       *)

LEMMA LeastBounds ==
  ASSUME NEW a \in Nat, NEW b \in Nat
  PROVE  Least(a, b) \in Nat /\ Least(a, b) <= a /\ Least(a, b) <= b
  BY DEF Least

LEMMA InitIInv == Init => IInv
<1> SUFFICES ASSUME Init PROVE IInv
  OBVIOUS
<1>1. buffer \in [Slots -> Values] /\ head \in Slots /\ tail \in Slots
  BY SizeAssumption DEF Init, Slots
<1>2. kind \in [Threads -> ReadKinds \cup WriteKinds] /\ pc \in [Threads -> Locations]
  BY DEF Init, ReadKinds, WriteKinds, Locations
<1>3. src \in [Writers -> Seq(Values)] /\ taken \in Seq(Values)
  BY EmptySeq DEF Init
<1>4. PutPending
  BY DEF Init, PutPending, Threads
<1> QED
  BY <1>1, <1>2, <1>3, <1>4 DEF Init, IInv, TypeOK

\* A read takes no more than there is, so the lemma about MoveFrom applies.
LEMMA ReadMoves ==
  ASSUME IInv, NEW r \in Readers, Read(r)
  PROVE  \E n \in Nat : n <= ToRead /\ n <= left[r] /\ MoveFrom(n)
                        /\ left' = [left EXCEPT ![r] = IF kind[r] = "readSome" THEN 0 ELSE @ - n]
<1>1. ToRead \in Nat /\ left[r] \in Nat
  BY RingBounds DEF IInv, TypeOK, RingOK
<1> QED
  BY <1>1, LeastBounds DEF Read

\* A write fits, and so does a putNoWait() that finds space.
LEMMA WriteMoves ==
  ASSUME IInv, NEW w \in Writers, Write(w)
  PROVE  \E n \in 0 .. Len(src[w]) :
           /\ n <= ToWrite /\ MoveTo(src[w], n)
           /\ src' = [src EXCEPT ![w] = SubSeq(@, n + 1, Len(@))]
<1>1. ToWrite \in Nat /\ Len(src[w]) \in Nat
  BY RingBounds, LenProperties DEF IInv, TypeOK, RingOK
<1> DEFINE n == Least(Len(src[w]), ToWrite)
<1>a. n \in Nat /\ n <= Len(src[w]) /\ n <= ToWrite
  BY <1>1, LeastBounds
<1>2. n \in 0 .. Len(src[w]) /\ n <= ToWrite
  <2> HIDE DEF n
  <2> QED
    BY <1>1, <1>a
<1>3. MoveTo(src[w], n) /\ src' = [src EXCEPT ![w] = SubSeq(@, n + 1, Len(@))]
  BY DEF Write
<1> QED
  BY <1>2, <1>3

LEMMA PutMoves ==
  ASSUME IInv, NEW w \in Writers, PutNoWait(w), ToWrite > 0
  PROVE  1 \in 0 .. Len(src[w]) /\ 1 <= ToWrite /\ MoveTo(src[w], 1)
<1>1. ToWrite \in Nat
  BY RingBounds DEF IInv, TypeOK, RingOK
<1>2. Len(src[w]) = 1
  BY DEF IInv, PutPending, PutNoWait, At
<1> QED
  BY <1>1, <1>2 DEF PutNoWait

LEMMA NotifyOneType ==
  ASSUME pc \in [Threads -> Locations], NEW t \in Threads, NEW S,
         S \subseteq Threads, NEW l \in Locations, NotifyOne(t, S, l)
  PROVE  /\ pc' \in [Threads -> Locations]
         /\ pc'[t] = l \/ pc'[t] = "locking"
         /\ \A x \in Threads \ {t} : pc'[x] = pc[x] \/ (pc[x] = "asleep" /\ pc'[x] = "locking")
  BY DEF NotifyOne, GoTo, Asleep, Locations

LEMMA TypeStep == IInv /\ [Next]_vars => TypeOK'
<1> SUFFICES ASSUME IInv, [Next]_vars PROVE TypeOK'
  OBVIOUS
<1>0. /\ TypeOK /\ RingOK
      /\ pc \in [Threads -> Locations]
      /\ Readers \subseteq Threads /\ Writers \subseteq Threads
      /\ {"idle", "locking", "tryLocking", "asleep", "notify"} \subseteq Locations
  BY DEF IInv, TypeOK, RingOK, Threads, Locations
<1>1. ASSUME NEW r \in Readers, NEW k \in ReadKinds, NEW n \in 1 .. MaxChunk,
             StartRead(r, k, n)
      PROVE  TypeOK'
  BY <1>0, <1>1, BoundAssumption DEF TypeOK, StartRead, GoTo, At, ring
<1>2. ASSUME NEW w \in Writers, NEW k \in WriteKinds, NEW s \in Seq(Values),
             StartWrite(w, k, s)
      PROVE  TypeOK'
  BY <1>0, <1>2, LenProperties DEF TypeOK, StartWrite, GoTo, At, ring
<1>3. ASSUME NEW r \in Readers, Read(r) PROVE TypeOK'
  <2>1. PICK n \in Nat : /\ n <= ToRead /\ n <= left[r] /\ MoveFrom(n)
                         /\ left' = [left EXCEPT ![r] =
                                       IF kind[r] = "readSome" THEN 0 ELSE @ - n]
    BY <1>3, ReadMoves
  <2>2. RingOK' /\ taken' \in Seq(Values)
    BY <1>0, <2>1, MoveFromContents DEF TypeOK
  <2>3. left' \in [Readers -> Nat]
    BY <1>0, <2>1 DEF TypeOK
  <2> QED
    BY <1>0, <1>3, <2>2, <2>3 DEF TypeOK, RingOK, Read, GoTo
<1>4. ASSUME NEW r \in Readers, ReadNothing(r) PROVE TypeOK'
  BY <1>0, <1>4 DEF TypeOK, ReadNothing, GoTo, ring
<1>5. ASSUME NEW r \in Readers, DidRead(r) PROVE TypeOK'
  BY <1>0, <1>5, NotifyOneType DEF TypeOK, DidRead, ring
<1>6. ASSUME NEW w \in Writers, Write(w) PROVE TypeOK'
  <2>1. PICK n \in 0 .. Len(src[w]) :
           /\ n <= ToWrite /\ MoveTo(src[w], n)
           /\ src' = [src EXCEPT ![w] = SubSeq(@, n + 1, Len(@))]
    BY <1>6, WriteMoves
  <2>2. src[w] \in Seq(Values)
    BY <1>0 DEF TypeOK
  <2>3. RingOK'
    BY <1>0, <2>1, <2>2, MoveToContents
  <2>4. SubSeq(src[w], n + 1, Len(src[w])) \in Seq(Values)
    <3>1. Len(src[w]) \in Nat /\ n \in Nat /\ \A i \in n + 1 .. Len(src[w]) : src[w][i] \in Values
      BY <2>1, <2>2, LenProperties, ElementOfSeq
    <3> QED
      BY <3>1, SubSeqProperties
  <2>5. src' \in [Writers -> Seq(Values)]
    BY <1>0, <2>1, <2>4 DEF TypeOK
  <2> QED
    BY <1>0, <1>6, <2>3, <2>5 DEF TypeOK, RingOK, Write, GoTo
<1>7. ASSUME NEW w \in Writers, WriteWaits(w) PROVE TypeOK'
  BY <1>0, <1>7 DEF TypeOK, WriteWaits, GoTo, ring
<1>8. ASSUME NEW w \in Writers, WriteGivesUp(w) PROVE TypeOK'
  BY <1>0, <1>8, EmptySeq DEF TypeOK, WriteGivesUp, GoTo, ring
<1>9. ASSUME NEW w \in Writers, PutNoWait(w) PROVE TypeOK'
  <2>1. RingOK'
    <3>1. CASE ToWrite > 0
      <4>1. src[w] \in Seq(Values)
        BY <1>0 DEF TypeOK
      <4> QED
        BY <1>0, <1>9, <3>1, <4>1, PutMoves, MoveToContents
    <3>2. CASE ~(ToWrite > 0)
      BY <1>0, <1>9, <3>2 DEF PutNoWait, ring, RingOK, Slots
    <3> QED
      BY <3>1, <3>2
  <2>2. pc' \in [Threads -> Locations]
    BY <1>0, <1>9 DEF PutNoWait, GoTo
  <2> QED
    BY <1>0, <1>9, <2>1, <2>2, EmptySeq DEF TypeOK, RingOK, PutNoWait
<1>10. ASSUME NEW w \in Writers, DidWrite(w) PROVE TypeOK'
  <2>1. pc' \in [Threads -> Locations]
    BY <1>0, <1>10, NotifyOneType DEF DidWrite
  <2> QED
    BY <1>0, <1>10, <2>1 DEF TypeOK, DidWrite, ring
<1>11. CASE CloserStep
  BY <1>0, <1>11
  DEF TypeOK, CloserStep, Close, CloseNotifiesWriters, CloseNotifiesReaders, NotifyAll, ring
<1>12. ASSUME NEW t \in Threads, SpuriousWakeup(t) PROVE TypeOK'
  BY <1>0, <1>12 DEF TypeOK, SpuriousWakeup, GoTo, ring
<1>13. CASE UNCHANGED vars
  BY <1>0, <1>13 DEF TypeOK, vars, ring
<1>14. ASSUME NEW w \in Writers,
              \/ \E k \in {"writeFull", "writeTimed"}, s \in Chunks : StartWrite(w, k, s)
              \/ \E v \in Values : StartWrite(w, "putNoWait", <<v>>)
       PROVE  TypeOK'
  <2>1. Chunks \subseteq Seq(Values)
    BY SeqDef, BoundAssumption DEF Chunks
  <2>2. \A v \in Values : <<v>> \in Seq(Values)
    OBVIOUS
  <2> QED
    BY <1>2, <1>14, <2>1, <2>2 DEF WriteKinds
<1> QED
  BY <1>1, <1>3, <1>4, <1>5, <1>6, <1>7, <1>8, <1>9, <1>10, <1>11, <1>12, <1>13, <1>14,
     ThreadsAssumption
  DEF Next, ReaderStep, WriterStep

LEMMA PutPendingStep == IInv /\ [Next]_vars => PutPending'
<1> DEFINE P(x) == kind[x] = "putNoWait" =>
                     /\ pc[x] \in {"locking", "tryLocking", "asleep"} => Len(src[x]) = 1
                     /\ pc[x] = "notify" => src[x] = <<>>
<1> SUFFICES ASSUME IInv, [Next]_vars, NEW x \in Writers PROVE P(x)'
  BY DEF PutPending
<1>0. /\ TypeOK /\ PutPending
      /\ pc \in [Threads -> Locations] /\ kind \in [Threads -> ReadKinds \cup WriteKinds]
      /\ src \in [Writers -> Seq(Values)]
      /\ Readers \subseteq Threads /\ Writers \subseteq Threads
      /\ Readers \cap Writers = {}
  BY ThreadsAssumption DEF IInv, TypeOK, Threads
<1> USE DEF PutPending, GoTo, At
<1>1. ASSUME NEW r \in Readers, NEW k \in ReadKinds, NEW n \in 1 .. MaxChunk,
             StartRead(r, k, n)
      PROVE  P(x)'
  BY <1>0, <1>1 DEF StartRead
<1>2. ASSUME NEW w \in Writers, NEW k \in {"writeFull", "writeTimed"}, NEW s,
             StartWrite(w, k, s)
      PROVE  P(x)'
  BY <1>0, <1>2 DEF StartWrite
<1>3. ASSUME NEW w \in Writers, NEW v \in Values, StartWrite(w, "putNoWait", <<v>>)
      PROVE  P(x)'
  BY <1>0, <1>3 DEF StartWrite
<1>4. ASSUME NEW r \in Readers, Read(r) \/ ReadNothing(r) PROVE P(x)'
  BY <1>0, <1>4 DEF Read, ReadNothing
<1>5. ASSUME NEW r \in Readers, DidRead(r) PROVE P(x)'
  BY <1>0, <1>5 DEF DidRead, NotifyOne, Asleep
<1>6. ASSUME NEW w \in Writers, Write(w) \/ WriteWaits(w) \/ WriteGivesUp(w) \/ PutNoWait(w)
      PROVE  P(x)'
  <2>1. CASE x = w
    BY <1>0, <1>6, <2>1 DEF Write, WriteWaits, WriteGivesUp, PutNoWait, InLoop
  <2>2. CASE x # w
    BY <1>0, <1>6, <2>2 DEF Write, WriteWaits, WriteGivesUp, PutNoWait
  <2> QED
    BY <2>1, <2>2
<1>7. ASSUME NEW w \in Writers, DidWrite(w) PROVE P(x)'
  <2>1. CASE x = w
    BY <1>0, <1>7, <2>1 DEF DidWrite, NotifyOne, Asleep
  <2>2. CASE x # w
    BY <1>0, <1>7, <2>2 DEF DidWrite, NotifyOne, Asleep
  <2> QED
    BY <2>1, <2>2
<1>8. CASE CloserStep
  BY <1>0, <1>8
  DEF CloserStep, Close, CloseNotifiesWriters, CloseNotifiesReaders, NotifyAll, Asleep
<1>9. ASSUME NEW t \in Threads, SpuriousWakeup(t) PROVE P(x)'
  BY <1>0, <1>9 DEF SpuriousWakeup
<1>10. CASE UNCHANGED vars
  BY <1>0, <1>10 DEF vars
<1> QED
  BY <1>1, <1>2, <1>3, <1>4, <1>5, <1>6, <1>7, <1>8, <1>9, <1>10, ThreadsAssumption
  DEF Next, ReaderStep, WriterStep

-----------------------------------------------------------------------------
(* The theorems.                                                           *)

\* The inductive invariant holds in every reachable state.
THEOREM RingBufferInvariant == Spec => []IInv
<1>1. IInv /\ [Next]_vars => IInv'
  BY TypeStep, PutPendingStep DEF IInv
<1> QED
  BY <1>1, InitIInv, PTL DEF Spec

\* Type correctness: both indices always point into the array.
THEOREM RingBufferTypeOK == Spec => []TypeOK
<1>1. IInv => TypeOK
  BY DEF IInv
<1> QED
  BY <1>1, RingBufferInvariant, PTL

\* The ring implements the bounded FIFO.
THEOREM RingBufferImplementsFifo == Spec => FifoSpec
<1>1. Init => Fifo!Init
  <2> SUFFICES ASSUME Init PROVE Fifo!Init
    OBVIOUS
  <2>1. RingOK /\ ToRead = 0
    BY InitIInv, SizeAssumption DEF Init, IInv, TypeOK, RingOK, ToRead
  <2>2. Contents \in Seq(Values) /\ Len(Contents) = 0
    BY <2>1, ContentsIsSeq
  <2>3. Contents = <<>>
    BY <2>2, EmptySeq
  <2> QED
    BY <2>3 DEF Init, Fifo!Init
<1>2. IInv /\ [Next]_vars => [Fifo!Next]_Fifo!vars
  <2> SUFFICES ASSUME IInv, [Next]_vars PROVE [Fifo!Next]_Fifo!vars
    OBVIOUS
  <2>0. TypeOK /\ RingOK /\ taken \in Seq(Values)
    BY DEF IInv, TypeOK, RingOK
  <2>c. /\ Contents \in Seq(Values) /\ Len(Contents) = ToRead
        /\ ToRead \in Nat /\ ToWrite \in Nat /\ ToRead + ToWrite = Size
    BY <2>0, ContentsIsSeq, RingBounds
  <2>s. ASSUME UNCHANGED <<ring, taken>>, UNCHANGED closed \/ closed'
        PROVE  [Fifo!Next]_Fifo!vars
    <3>1. UNCHANGED Contents
      BY <2>s DEF ring, Contents, ToRead, After
    <3> QED
      BY <2>s, <3>1 DEF Fifo!Next, Fifo!Close, Fifo!vars
  <2>p. ASSUME NEW s \in Seq(Values), NEW n \in 0 .. Len(s), n <= ToWrite,
               MoveTo(s, n), UNCHANGED <<closed, taken>>
        PROVE  [Fifo!Next]_Fifo!vars
    <3> DEFINE batch == SubSeq(s, 1, n)
    <3>1. Contents' = Contents \o batch
      BY <2>0, <2>p, MoveToContents
    <3>2. /\ batch \in Seq(Values) /\ Len(batch) = n
          /\ n \in Nat
      <4>1. Len(s) \in Nat /\ \A i \in 1 .. n : s[i] \in Values
        BY <2>p, ElementOfSeq, LenProperties
      <4> QED
        BY <4>1, SubSeqProperties
    <3>3. CASE n = 0
      <4>1. batch = <<>>
        BY <3>2, <3>3, EmptySeq
      <4>2. Contents' = Contents
        BY <2>c, <3>1, <4>1, ConcatEmptySeq
      <4> QED
        BY <2>p, <4>2 DEF Fifo!vars
    <3>4. CASE n # 0
      <4>a. n \in 1 .. Size
        BY <2>c, <2>p, <3>2, <3>4, SizeAssumption
      <4>b. batch \in [1 .. n -> Values]
        <5> HIDE DEF batch
        <5> QED
          BY <3>2, LenProperties
      <4>1. batch \in [1 .. n -> Values] /\ n \in 1 .. Size
        BY <4>a, <4>b
      <4>2. batch \in Fifo!Batches
        BY <4>1 DEF Fifo!Batches
      <4>3. Fifo!Put(batch)
        BY <2>c, <2>p, <3>1, <3>2, SizeAssumption DEF Fifo!Put
      <4> QED
        BY <4>2, <4>3 DEF Fifo!Next
    <3> QED
      BY <3>3, <3>4
  <2>1. ASSUME NEW r \in Readers, Read(r) PROVE [Fifo!Next]_Fifo!vars
    <3>1. PICK n \in Nat : n <= ToRead /\ MoveFrom(n)
      BY <2>1, ReadMoves
    <3>2. /\ Contents' = SubSeq(Contents, n + 1, Len(Contents))
          /\ taken' = taken \o SubSeq(Contents, 1, n)
      BY <2>0, <3>1, MoveFromContents
    <3>3. closed' = closed
      BY <2>1 DEF Read
    <3>4. CASE n = 0
      <4>1. SubSeq(Contents, 1, n) = <<>>
        BY <3>4, SubSeqEmpty
      <4>2. Contents' = Contents /\ taken' = taken
        BY <2>0, <2>c, <3>2, <3>4, <4>1, SubSeqFull, ConcatEmptySeq
      <4> QED
        BY <3>3, <4>2 DEF Fifo!vars
    <3>5. CASE n # 0
      <4>1. n \in 1 .. Len(Contents)
        BY <2>c, <3>1, <3>5
      <4> QED
        BY <3>2, <3>3, <4>1 DEF Fifo!Next, Fifo!Take
    <3> QED
      BY <3>4, <3>5
  <2>2. ASSUME NEW w \in Writers, Write(w) PROVE [Fifo!Next]_Fifo!vars
    <3>1. PICK n \in 0 .. Len(src[w]) : n <= ToWrite /\ MoveTo(src[w], n)
      BY <2>2, WriteMoves
    <3>2. src[w] \in Seq(Values) /\ UNCHANGED <<closed, taken>>
      BY <2>0, <2>2 DEF TypeOK, Write
    <3> QED
      BY <2>p, <3>1, <3>2
  <2>3. ASSUME NEW w \in Writers, PutNoWait(w) PROVE [Fifo!Next]_Fifo!vars
    <3>1. src[w] \in Seq(Values) /\ UNCHANGED <<closed, taken>>
      BY <2>0, <2>3 DEF TypeOK, PutNoWait
    <3>2. CASE ToWrite > 0
      BY <2>3, <2>p, <3>1, <3>2, PutMoves
    <3>3. CASE ~(ToWrite > 0)
      BY <2>3, <2>s, <3>1, <3>3 DEF PutNoWait
    <3> QED
      BY <3>2, <3>3
  <2>4. ASSUME NEW r \in Readers, ReadNothing(r) \/ DidRead(r) PROVE [Fifo!Next]_Fifo!vars
    BY <2>4, <2>s DEF ReadNothing, DidRead
  <2>5. ASSUME NEW w \in Writers, WriteWaits(w) \/ WriteGivesUp(w) \/ DidWrite(w)
        PROVE  [Fifo!Next]_Fifo!vars
    BY <2>5, <2>s DEF WriteWaits, WriteGivesUp, DidWrite
  <2>6. CASE CloserStep
    BY <2>6, <2>s DEF CloserStep, Close, CloseNotifiesWriters, CloseNotifiesReaders
  <2>7. ASSUME NEW t \in Threads, SpuriousWakeup(t) PROVE [Fifo!Next]_Fifo!vars
    BY <2>7, <2>s DEF SpuriousWakeup
  <2>8. CASE UNCHANGED vars
    BY <2>8, <2>s DEF vars
  <2>9. ASSUME NEW t \in Threads,
               \/ \E k, n : StartRead(t, k, n)
               \/ \E k, s : StartWrite(t, k, s)
        PROVE  [Fifo!Next]_Fifo!vars
    BY <2>9, <2>s DEF StartRead, StartWrite
  <2> QED
    BY <2>1, <2>2, <2>3, <2>4, <2>5, <2>6, <2>7, <2>8, <2>9, ThreadsAssumption
    DEF Next, ReaderStep, WriterStep, Threads
<1> QED
  BY <1>1, <1>2, RingBufferInvariant, PTL DEF Spec, FifoSpec, Fifo!Spec

-----------------------------------------------------------------------------
(* No lost wakeup.                                                         *)

\* A putNoWait() never sleeps, and closed_ is set when the wakeups begin.
Sleepers ==
  /\ \A w \in NoWaitWriters : pc[w] # "asleep" /\ (pc[w] # "idle" => kind[w] = "putNoWait")
  /\ closed <=> closer # "open"

\* At most one thread sleeps on either side.
AloneOnItsSide ==
  /\ \A r, s \in Readers : r = s
  /\ \A v, w \in Writers \ NoWaitWriters : v = w

LEMMA SleepersStep == IInv /\ Sleepers /\ [Next]_vars => Sleepers'
<1> SUFFICES ASSUME IInv, Sleepers, [Next]_vars PROVE Sleepers'
  OBVIOUS
<1> USE ThreadsAssumption DEF Sleepers, GoTo, At
<1>0. /\ pc \in [Threads -> Locations] /\ kind \in [Threads -> ReadKinds \cup WriteKinds]
      /\ Readers \subseteq Threads /\ Writers \subseteq Threads /\ PutPending
  BY DEF IInv, TypeOK, Threads
<1>1. ASSUME NEW t \in Threads, NEW S, NEW l, S \subseteq Threads, NotifyOne(t, S, l),
             l # "asleep", pc[t] = "notify",
             t \in NoWaitWriters => l = "idle", UNCHANGED <<kind, closed, closer>>
      PROVE  Sleepers'
  BY <1>0, <1>1 DEF NotifyOne, Asleep
<1>2. ASSUME NEW r \in Readers, NEW k \in ReadKinds, NEW n \in 1 .. MaxChunk,
             StartRead(r, k, n)
      PROVE  Sleepers'
  BY <1>0, <1>2 DEF StartRead
<1>3. ASSUME NEW w \in Writers \ NoWaitWriters, NEW k, NEW s, StartWrite(w, k, s)
      PROVE  Sleepers'
  BY <1>0, <1>3 DEF StartWrite
<1>4. ASSUME NEW w \in NoWaitWriters, NEW v \in Values, StartWrite(w, "putNoWait", <<v>>)
      PROVE  Sleepers'
  BY <1>0, <1>4 DEF StartWrite
<1>5. ASSUME NEW r \in Readers, Read(r) \/ ReadNothing(r)
      PROVE  Sleepers'
  BY <1>0, <1>5 DEF Read, ReadNothing
<1>6. ASSUME NEW r \in Readers, DidRead(r)
      PROVE  Sleepers'
  BY <1>0, <1>1, <1>6 DEF DidRead
<1>7. ASSUME NEW w \in Writers,
             Write(w) \/ WriteWaits(w) \/ WriteGivesUp(w) \/ PutNoWait(w)
      PROVE  Sleepers'
  BY <1>0, <1>7 DEF Write, WriteWaits, WriteGivesUp, PutNoWait, InLoop
<1>8. ASSUME NEW w \in Writers, DidWrite(w)
      PROVE  Sleepers'
  <2>1. w \in NoWaitWriters => src[w] = <<>>
    BY <1>0, <1>8 DEF DidWrite, PutPending
  <2> QED
    BY <1>0, <1>1, <1>8, <2>1 DEF DidWrite
<1>9. CASE CloserStep
  BY <1>0, <1>9
  DEF CloserStep, Close, CloseNotifiesWriters, CloseNotifiesReaders, NotifyAll, Asleep
<1>10. ASSUME NEW t \in Threads, SpuriousWakeup(t)
       PROVE  Sleepers'
  BY <1>0, <1>10 DEF SpuriousWakeup
<1>11. CASE UNCHANGED vars
  BY <1>11 DEF vars
<1> QED
  BY <1>2, <1>3, <1>4, <1>5, <1>6, <1>7, <1>8, <1>9, <1>10, <1>11
  DEF Next, ReaderStep, WriterStep

\* The only reader sleeps beside a value only until its wakeup, the only
\* writer that waits beside space, and nobody sleeps once all were woken.
LEMMA WakeupStep ==
  ASSUME AloneOnItsSide
  PROVE  IInv /\ Sleepers /\ NoLostWakeup /\ [Next]_vars => NoLostWakeup'
<1> SUFFICES ASSUME IInv, Sleepers, NoLostWakeup, [Next]_vars PROVE NoLostWakeup'
  OBVIOUS
<1> USE ThreadsAssumption DEF AloneOnItsSide, Sleepers, NoLostWakeup, GoTo, At
<1>0. /\ pc \in [Threads -> Locations] /\ RingOK
      /\ Readers \subseteq Threads /\ Writers \subseteq Threads
      /\ Threads = Readers \cup Writers
  BY DEF IInv, TypeOK, RingOK, Threads
<1>1. ring' = ring => CanRead' = CanRead /\ CanWrite' = CanWrite
  BY DEF ring, CanRead, CanWrite
<1>2. ASSUME NEW t \in Threads, NEW k, NEW n, StartRead(t, k, n) \/ StartWrite(t, k, n)
      PROVE  NoLostWakeup'
  BY <1>0, <1>1, <1>2 DEF StartRead, StartWrite
<1>3. ASSUME NEW r \in Readers, Read(r)
      PROVE  NoLostWakeup'
  BY <1>0, <1>3 DEF Read
<1>4. ASSUME NEW r \in Readers, ReadNothing(r)
      PROVE  NoLostWakeup'
  BY <1>0, <1>1, <1>4 DEF ReadNothing
<1>5. ASSUME NEW r \in Readers, DidRead(r)
      PROVE  NoLostWakeup'
  BY <1>0, <1>1, <1>5 DEF DidRead, NotifyOne, Asleep
<1>6. ASSUME NEW w \in Writers, Write(w)
      PROVE  NoLostWakeup'
  BY <1>0, <1>6 DEF Write, InLoop
<1>7. ASSUME NEW w \in Writers, WriteWaits(w) \/ WriteGivesUp(w)
      PROVE  NoLostWakeup'
  BY <1>0, <1>1, <1>7 DEF WriteWaits, WriteGivesUp, InLoop
<1>8. ASSUME NEW w \in Writers, PutNoWait(w)
      PROVE  NoLostWakeup'
  <2>1. CASE ToWrite > 0
    <3>1. CanWrite
      BY <1>0, <2>1, CanWriteMeansSpace
    <3> QED
      BY <1>0, <1>8, <2>1, <3>1 DEF PutNoWait
  <2>2. CASE ~(ToWrite > 0)
    BY <1>0, <1>1, <1>8, <2>2 DEF PutNoWait
  <2> QED
    BY <2>1, <2>2
<1>9. ASSUME NEW w \in Writers, DidWrite(w)
      PROVE  NoLostWakeup'
  BY <1>0, <1>1, <1>9 DEF DidWrite, NotifyOne, Asleep
<1>10. CASE CloserStep
  BY <1>0, <1>1, <1>10
  DEF CloserStep, Close, CloseNotifiesWriters, CloseNotifiesReaders, NotifyAll, Asleep
<1>11. ASSUME NEW t \in Threads, SpuriousWakeup(t)
       PROVE  NoLostWakeup'
  BY <1>0, <1>1, <1>11 DEF SpuriousWakeup
<1>12. CASE UNCHANGED vars
  BY <1>1, <1>12 DEF vars
<1> QED
  BY <1>0, <1>2, <1>3, <1>4, <1>5, <1>6, <1>7, <1>8, <1>9, <1>10, <1>11, <1>12
  DEF Next, ReaderStep, WriterStep

\* One wakeup at a time is enough as long as each side has one thread that
\* waits, as every buffer of the program has: nobody oversleeps a value, space
\* or the end.
THEOREM RingBufferNoLostWakeup ==
  ASSUME AloneOnItsSide
  PROVE  Spec => []NoLostWakeup
<1>1. Init => Sleepers /\ NoLostWakeup
  BY ThreadsAssumption DEF Init, Sleepers, NoLostWakeup, At, Threads
<1>2. IInv /\ (Sleepers /\ NoLostWakeup) /\ [Next]_vars => (Sleepers /\ NoLostWakeup)'
  BY SleepersStep, WakeupStep
<1> QED
  BY <1>1, <1>2, RingBufferInvariant, PTL DEF Spec

-----------------------------------------------------------------------------
(* Closing.                                                                *)

\* Only the threads that never wait call putNoWait().
Putters == \A w \in Writers : kind[w] = "putNoWait" => w \in NoWaitWriters

LEMMA PuttersStep == IInv /\ Putters /\ [Next]_vars => Putters'
<1> SUFFICES ASSUME IInv, Putters, [Next]_vars PROVE Putters'
  OBVIOUS
<1> USE ThreadsAssumption DEF Putters
<1>0. /\ kind \in [Threads -> ReadKinds \cup WriteKinds]
      /\ Readers \subseteq Threads /\ Writers \subseteq Threads
  BY DEF IInv, TypeOK, Threads
<1>1. ASSUME NEW r \in Readers, NEW k \in ReadKinds, NEW n \in 1 .. MaxChunk,
             StartRead(r, k, n)
      PROVE  Putters'
  BY <1>0, <1>1 DEF StartRead
<1>2. ASSUME NEW w \in Writers \ NoWaitWriters, NEW k \in {"writeFull", "writeTimed"},
             NEW s, StartWrite(w, k, s)
      PROVE  Putters'
  BY <1>0, <1>2 DEF StartWrite
<1>3. ASSUME NEW w \in NoWaitWriters, NEW v \in Values, StartWrite(w, "putNoWait", <<v>>)
      PROVE  Putters'
  BY <1>0, <1>3 DEF StartWrite
<1>4. ASSUME NEW r \in Readers, ReaderStep(r)
      PROVE  Putters'
  BY <1>4 DEF ReaderStep, Read, ReadNothing, DidRead
<1>5. ASSUME NEW w \in Writers, WriterStep(w)
      PROVE  Putters'
  BY <1>5 DEF WriterStep, Write, WriteWaits, WriteGivesUp, PutNoWait, DidWrite
<1>6. CASE CloserStep
  BY <1>6 DEF CloserStep, Close, CloseNotifiesWriters, CloseNotifiesReaders
<1>7. ASSUME NEW t \in Threads, SpuriousWakeup(t)
      PROVE  Putters'
  BY <1>7 DEF SpuriousWakeup
<1>8. CASE UNCHANGED vars
  BY <1>8 DEF vars
<1> QED
  BY <1>1, <1>2, <1>3, <1>4, <1>5, <1>6, <1>7, <1>8 DEF Next

\* A closed buffer is filled by a putNoWait() at most.
LEMMA ClosedStep ==
  ASSUME IInv, Putters, [Next]_vars, closed, ToRead' > ToRead
  PROVE  \E w \in NoWaitWriters : At(w, "locking") /\ pc'[w] # "locking"
<1> DEFINE Goal == \E w \in NoWaitWriters : At(w, "locking") /\ pc'[w] # "locking"
<1>0. /\ RingOK /\ ToRead \in Nat /\ pc \in [Threads -> Locations]
      /\ taken \in Seq(Values) /\ Writers \subseteq Threads
  BY RingBounds DEF IInv, TypeOK, RingOK, Threads
<1>1. UNCHANGED ring => ToRead' = ToRead
  BY DEF ring, ToRead
<1>2. ~UNCHANGED ring
  BY <1>0, <1>1
<1>3. ASSUME NEW r \in Readers, Read(r)
      PROVE  FALSE
  <2>1. PICK n \in Nat : n <= ToRead /\ MoveFrom(n)
    BY <1>3, ReadMoves
  <2>2. ToRead' = ToRead - n
    BY <1>0, <2>1, MoveFromContents
  <2> QED
    BY <1>0, <2>2
<1>4. ASSUME NEW w \in Writers, PutNoWait(w)
      PROVE  Goal
  <2>1. w \in NoWaitWriters /\ At(w, "locking")
    BY <1>4 DEF PutNoWait, Putters
  <2>2. GoTo(w, "notify") \/ GoTo(w, "idle")
    BY <1>4 DEF PutNoWait
  <2>3. pc'[w] # "locking"
    BY <1>0, <2>2 DEF GoTo
  <2> QED
    BY <2>1, <2>3
<1>5. ASSUME NEW w \in Writers, Write(w)
      PROVE  FALSE
  BY <1>5 DEF Write
<1>6. ASSUME NEW t, NEW k, NEW n, StartRead(t, k, n) \/ StartWrite(t, k, n)
      PROVE  UNCHANGED ring
  BY <1>6 DEF StartRead, StartWrite
<1>7. ASSUME NEW t, \/ ReadNothing(t) \/ DidRead(t) \/ WriteWaits(t) \/ WriteGivesUp(t)
                   \/ DidWrite(t) \/ SpuriousWakeup(t)
      PROVE  UNCHANGED ring
  BY <1>7 DEF ReadNothing, DidRead, WriteWaits, WriteGivesUp, DidWrite, SpuriousWakeup
<1>8. CloserStep \/ UNCHANGED vars => UNCHANGED ring
  BY DEF CloserStep, Close, CloseNotifiesWriters, CloseNotifiesReaders, vars
<1> QED
  BY <1>2, <1>3, <1>4, <1>5, <1>6, <1>7, <1>8 DEF Next, ReaderStep, WriterStep

\* Nothing is stored into a closed buffer by a write that waits, in whatever
\* round of its loop it is and however many threads there are: writeFull() and
\* writeTimed() look at closed_ in the same critical section in which they copy.
THEOREM RingBufferClosed == Spec => NothingStoredOnceClosed
<1>1. Init => Putters
  BY ThreadsAssumption DEF Init, Putters, Threads
<1>2. IInv /\ Putters /\ [Next]_vars =>
        [closed /\ ToRead' > ToRead =>
           \E w \in NoWaitWriters : At(w, "locking") /\ pc'[w] # "locking"]_vars
  BY ClosedStep
<1> QED
  BY <1>1, <1>2, PuttersStep, RingBufferInvariant, PTL DEF Spec, NothingStoredOnceClosed

=============================================================================
