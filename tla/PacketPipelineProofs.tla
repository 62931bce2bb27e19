------------------------ MODULE PacketPipelineProofs ------------------------
(***************************************************************************)
(* What holds of an encoder and its brocas whatever the number of brocas,  *)
(* the sizes of the rings and of the packets, and wherever a full ring or  *)
(* a shutdown tears a packet: a broca never takes data for a header, and   *)
(* an orderly shutdown loses no packet.                                    *)
(*                                                                         *)
(* Both follow from one invariant about the line of bytes to each broca:   *)
(* the byte it has read last, the bytes in its ring, and the byte that the *)
(* encoder writes to it next all follow one another.                       *)
(***************************************************************************)
EXTENDS PacketPipeline, TLAPS, SequenceTheorems, WellFoundedInduction

-----------------------------------------------------------------------------
(* The line of bytes.                                                      *)

Bytes == {x \in [packet : Nat, kind : Kinds, size : Nat, at : Nat] :
            1 <= x.at /\ x.at <= HeaderSize + x.size}

\* The last byte of its packet.
IsLast(x) == x.at = HeaderSize + x.size

\* y comes next after x: in the same packet, or as the first of the next one.
Follows(x, y) ==
  IF IsLast(x) THEN y.at = 1 /\ y.packet = x.packet + 1
               ELSE y = [x EXCEPT !.at = @ + 1]

\* Packets are numbered from 1; this is what has been read before the first.
Start(n) == Byte(n, "data", 0, HeaderSize)

\* The byte that the broca has read last; or one that ends a packet like it,
\* once the packet is over.
Mark(b) ==
  IF pc[b] = "data" THEN [header[b][1] EXCEPT !.at = HeaderSize + header[b][1].size - left[b]]
  ELSE IF pc[b] = "header" /\ header[b] # <<>> THEN header[b][Len(header[b])]
  ELSE Start(Len(heard[b]))

\* The bytes of s, which come after m, follow one another.
Chain(m, s) == \A i \in 1 .. Len(s) : Follows(IF i = 1 THEN m ELSE s[i - 1], s[i])

\* The last of them.
Final(m, s) == IF s = <<>> THEN m ELSE s[Len(s)]

\* The byte that the encoder has written to the broca last.
Tip(b) == Final(Mark(b), ring[b])

\* A server did not take a packet: the broca goes on in the middle of it.
Astray(b) == Kind[b] = "shout" /\ b \in failed

\* The broca reads no more, or not what was written.
Finished(b) ==
  \/ pc[b] \in {"done", "aborted"}
  \/ terminating /\ ~Plays(b) /\ pc[b] \in {"open", "top"}
  \/ Astray(b)

-----------------------------------------------------------------------------
(* The invariant.                                                          *)

Types ==
  /\ ring \in [Brocas -> Seq(Bytes)] /\ header \in [Brocas -> Seq(Bytes)]
  /\ \A b \in Brocas : Len(ring[b]) <= Size /\ Len(header[b]) <= HeaderSize
  /\ closed \in [Brocas -> BOOLEAN] /\ terminating \in BOOLEAN
  /\ encoder \in {"idle", "writing", "done"} /\ at \in 1 .. Len(Order)
  /\ pc \in [Brocas -> Steps] /\ want \in [Brocas -> 0 .. CallbackSize]
  /\ left \in [Brocas -> Nat] /\ heard \in [Brocas -> Seq(Nat)]
  /\ packets \in 0 .. MaxPackets
  /\ Kind \in Outputs /\ failed \subseteq Brocas

\* The rest of the packet with this number, to its last byte.
RestOf(n, s) ==
  /\ s \in Seq(Bytes) /\ s # <<>>
  /\ s[1].packet = n
  /\ s[1].at + Len(s) - 1 = HeaderSize + s[1].size
  /\ \A i \in 1 .. Len(s) : s[i] = [s[1] EXCEPT !.at = s[1].at + i - 1]

Writing == encoder = "writing" => packets > 0 /\ RestOf(packets, out)

\* The sinks are closed together, by the encoder when it ends and before that
\* only after a signal.
Closing == \A b \in Brocas : closed[b] =>
             (\A c \in Brocas : closed[c]) /\ (encoder = "done" \/ terminating)

\* What a broca knows of the packet it is reading.
Reads(b) ==
  /\ pc[b] = "header" => Len(header[b]) < HeaderSize
  /\ pc[b] = "data" => IsHeader(header[b]) /\ left[b] <= header[b][1].size
  /\ b \in failed => Kind[b] \in Failing

\* It is the one after those that were heard.
InTurn(b) ==
  ~Finished(b) =>
    /\ pc[b] = "header" =>
         \A i \in 1 .. Len(header[b]) : header[b][i] = [header[b][1] EXCEPT !.at = i]
    /\ (pc[b] = "header" /\ header[b] # <<>>) \/ pc[b] = "data" =>
         header[b][1].packet = Len(heard[b]) + 1
    /\ pc[b] # "lost"

CountsUp(b) == ~Astray(b) => heard[b] = [i \in 1 .. Len(heard[b]) |-> i]

Line(b) == ~Finished(b) => Chain(Mark(b), ring[b])

\* The packet that a sink has got last: the one being written goes to one sink
\* after the other.
GotBy(j) == IF encoder = "writing" /\ j > at THEN packets - 1 ELSE packets

\* Where the encoder goes on: between the packets, or in the middle of the one
\* it is writing.
GoesOn(b) ==
  ~Finished(b) /\ (closed[b] => ~terminating) =>
    \A j \in 1 .. Len(Order) : Order[j] = b =>
      IF encoder = "writing" /\ j = at THEN Follows(Tip(b), out[1])
      ELSE IsLast(Tip(b)) /\ Tip(b).packet = GotBy(j)

\* How a broca comes to its end.
EndsWell(b) ==
  /\ pc[b] = "aborted" => terminating \/ Astray(b)
  /\ pc[b] = "done" /\ ~terminating /\ b \notin failed =>
       encoder = "done" /\ Len(heard[b]) = packets

Good(b) == Reads(b) /\ InTurn(b) /\ CountsUp(b) /\ Line(b) /\ GoesOn(b) /\ EndsWell(b)

IInv == Types /\ Writing /\ Closing /\ \A b \in Brocas : Good(b)

-----------------------------------------------------------------------------
(* Bytes that follow one another.                                          *)

\* A set that has 0 and with every number the next one has them all.
LEMMA SetInduction ==
  ASSUME NEW S, 0 \in S, \A n \in Nat : n \in S => n + 1 \in S
  PROVE  Nat \subseteq S
<1> DEFINE R == {ss \in Nat \X Nat : ss[1] < ss[2]}
           T == Nat \ S
<1>1. IsWellFoundedOn(R, Nat)
  BY NatLessThanWellFounded DEF OpToRel
<1>2. SUFFICES ASSUME T # {} PROVE FALSE
  OBVIOUS
<1> HIDE DEF R
<1>3. PICK x \in T : \A y \in T : ~ (<<y, x>> \in R)
  BY <1>1, <1>2, WFMin
<1>4. x \in Nat /\ x # 0 /\ x - 1 \in Nat /\ x = (x - 1) + 1
  OBVIOUS
<1>5. x - 1 \in T
  BY <1>4
<1>6. <<x - 1, x>> \in R
  BY <1>4 DEF R
<1> QED
  BY <1>3, <1>5, <1>6

LEMMA Sizes == HeaderSize \in Nat \ {0} /\ Size \in Nat \ {0} /\ CallbackSize \in Nat \ {0}
  BY SizesAssumption

\* The byte at another place of the same packet.
AtPlace(x, i) == [x EXCEPT !.at = i]

LEMMA Places ==
  ASSUME NEW x \in Bytes
  PROVE  /\ x.packet \in Nat /\ x.kind \in Kinds /\ x.size \in Nat /\ x.at \in Nat
         /\ 1 <= x.at /\ x.at <= HeaderSize + x.size
         /\ AtPlace(x, x.at) = x
         /\ \A i \in Nat : /\ AtPlace(x, i).at = i /\ AtPlace(x, i).packet = x.packet
                           /\ AtPlace(x, i).size = x.size /\ AtPlace(x, i).kind = x.kind
                           /\ 1 <= i /\ i <= HeaderSize + x.size => AtPlace(x, i) \in Bytes
                           /\ \A k : AtPlace(AtPlace(x, i), k) = AtPlace(x, k)
  BY DEF Bytes, AtPlace

LEMMA OneMore ==
  ASSUME NEW a \in Nat, NEW k \in Nat, NEW c \in Nat, a + (k + 1) <= c
  PROVE  a + k <= c /\ a + k # c /\ a + k \in Nat /\ (a + k) + 1 = a + (k + 1)
  OBVIOUS

\* Bytes that follow one another within a packet are at one place after another.
LEMMA Run ==
  ASSUME NEW s \in Seq(Bytes), NEW m \in 1 .. Len(s),
         \A i \in 1 .. Len(s) - 1 : Follows(s[i], s[i + 1])
  PROVE  \A k \in Nat : m + k <= Len(s) /\ s[m].at + k <= HeaderSize + s[m].size =>
           s[m + k] = AtPlace(s[m], s[m].at + k)
<1> DEFINE x == s[m]
           P(k) == m + k <= Len(s) /\ x.at + k <= HeaderSize + x.size =>
                     s[m + k] = AtPlace(x, x.at + k)
           S == {k \in Nat : P(k)}
<1>1. x \in Bytes /\ Len(s) \in Nat
  OBVIOUS
<1>2. /\ x.size \in Nat /\ x.at \in Nat /\ AtPlace(x, x.at) = x
      /\ \A i \in Nat : AtPlace(x, i).at = i /\ AtPlace(x, i).size = x.size
      /\ \A i \in Nat : \A k : AtPlace(AtPlace(x, i), k) = AtPlace(x, k)
  <2> HIDE DEF x
  <2> QED
    BY <1>1, Places
<1>3. 0 \in S
  <2>1. s[m + 0] = x /\ x.at + 0 = x.at
    BY <1>2
  <2> HIDE DEF x
  <2> QED
    BY <1>2, <2>1
<1>4. ASSUME NEW k \in Nat, k \in S PROVE k + 1 \in S
  <2>1. SUFFICES ASSUME m + (k + 1) <= Len(s), x.at + (k + 1) <= HeaderSize + x.size
                 PROVE  s[m + (k + 1)] = AtPlace(x, x.at + (k + 1))
    OBVIOUS
  <2>2. m + k \in 1 .. Len(s) - 1 /\ (m + k) + 1 = m + (k + 1)
    BY <1>1, <2>1
  <2>3. Follows(s[m + k], s[m + (k + 1)])
    BY <2>2
  <2>4. P(k)
    BY <1>4
  <2> HIDE DEF x
  <2>5. x.at + k <= HeaderSize + x.size /\ x.at + k # HeaderSize + x.size /\ x.at + k \in Nat
        /\ (x.at + k) + 1 = x.at + (k + 1) /\ m + k <= Len(s)
    <3>1. x.size \in Nat /\ x.at \in Nat /\ Len(s) \in Nat /\ HeaderSize \in Nat
      BY <1>1, <1>2, Sizes
    <3> DEFINE last == HeaderSize + x.size
    <3>2. last \in Nat /\ x.at + (k + 1) <= last
      BY <2>1, <3>1
    <3> HIDE DEF last
    <3>3. x.at + k <= last /\ x.at + k # last /\ x.at + k \in Nat
          /\ (x.at + k) + 1 = x.at + (k + 1)
      BY <3>1, <3>2, OneMore
    <3>4. m + k <= Len(s)
      BY <2>1, <3>1, OneMore
    <3> QED
      BY <3>3, <3>4 DEF last
  <2>6. s[m + k] = AtPlace(x, x.at + k)
    BY <2>4, <2>5
  <2>7. ~IsLast(s[m + k]) /\ s[m + k].at = x.at + k
    BY <1>2, <2>5, <2>6 DEF IsLast
  <2>8. s[m + (k + 1)] = AtPlace(s[m + k], s[m + k].at + 1)
    BY <2>3, <2>7 DEF Follows, AtPlace
  <2> QED
    BY <1>2, <2>5, <2>6, <2>7, <2>8
<1> HIDE DEF S, P, x
<1>5. Nat \subseteq S
  BY <1>3, <1>4, SetInduction
<1>6. \A k \in Nat : P(k)
  BY <1>5 DEF S
<1> QED
  BY <1>6 DEF P, x

\* Whatever ends the same packet is followed by the same bytes.
Like(x, y) == x = y \/ (IsLast(x) /\ IsLast(y) /\ x.packet = y.packet)

LEMMA SameEnd ==
  ASSUME NEW x, NEW y, Like(x, y)
  PROVE  /\ \A z : Follows(x, z) <=> Follows(y, z)
         /\ IsLast(x) <=> IsLast(y)
         /\ x.packet = y.packet
         /\ \A s : Chain(x, s) => Chain(y, s)
         /\ \A s : Like(Final(x, s), Final(y, s))
<1>1. /\ \A z : Follows(x, z) <=> Follows(y, z)
      /\ IsLast(x) <=> IsLast(y)
      /\ x.packet = y.packet
  BY DEF Follows, Like
<1>2. \A s : Chain(x, s) => Chain(y, s)
  BY <1>1 DEF Chain
<1>3. \A s : Like(Final(x, s), Final(y, s))
  <2>1. \A z : Like(z, z)
    BY DEF Like
  <2> QED
    BY <2>1 DEF Final
<1> QED
  BY <1>1, <1>2, <1>3

\* What is left of a chain when some of it has been read.
LEMMA Taken ==
  ASSUME NEW m, NEW s \in Seq(Bytes), NEW n \in 1 .. Len(s), Chain(m, s)
  PROVE  LET t == SubSeq(s, n + 1, Len(s))
         IN  /\ t \in Seq(Bytes) /\ Len(t) = Len(s) - n
             /\ Chain(s[n], t) /\ Final(s[n], t) = Final(m, s)
<1> DEFINE t == SubSeq(s, n + 1, Len(s))
<1>1. Len(s) \in Nat /\ n \in Nat /\ n >= 1 /\ n <= Len(s)
  OBVIOUS
<1>2. /\ t \in Seq(Bytes) /\ Len(t) = Len(s) - n
      /\ \A i \in 1 .. Len(s) - n : t[i] = s[n + i]
  BY <1>1, SubSeqProperties
<1> HIDE DEF t
<1>3. ASSUME NEW i \in 1 .. Len(t) PROVE Follows(IF i = 1 THEN s[n] ELSE t[i - 1], t[i])
  <2>1. n + i \in 1 .. Len(s) /\ n + i # 1 /\ (n + i) - 1 = n + (i - 1) /\ t[i] = s[n + i]
    BY <1>1, <1>2
  <2>2. Follows(s[n + (i - 1)], s[n + i])
    BY <2>1 DEF Chain
  <2>3. CASE i = 1
    BY <1>1, <2>1, <2>2, <2>3
  <2>4. CASE i # 1
    <3>1. i - 1 \in 1 .. Len(s) - n
      BY <1>1, <1>2, <2>4
    <3> QED
      BY <1>2, <2>1, <2>2, <2>4, <3>1
  <2> QED
    BY <2>3, <2>4
<1>4. Final(s[n], t) = Final(m, s)
  <2>1. s # <<>> /\ Final(m, s) = s[Len(s)]
    BY <1>1 DEF Final
  <2>2. CASE Len(t) = 0
    BY <1>1, <1>2, <2>1, <2>2 DEF Final
  <2>3. CASE Len(t) # 0
    <3>1. t # <<>> /\ Len(t) \in 1 .. Len(s) - n /\ n + Len(t) = Len(s)
      BY <1>1, <1>2, <2>3
    <3> QED
      BY <1>2, <2>1, <3>1 DEF Final
  <2> QED
    BY <2>2, <2>3
<1> QED
  BY <1>2, <1>3, <1>4 DEF Chain, t

\* What a chain becomes when more is written.
LEMMA Longer ==
  ASSUME NEW m, NEW s \in Seq(Bytes), NEW t \in Seq(Bytes),
         Chain(m, s), Chain(Final(m, s), t)
  PROVE  Chain(m, s \o t) /\ Final(m, s \o t) = Final(Final(m, s), t)
<1> DEFINE u == s \o t
<1>1. /\ u \in Seq(Bytes) /\ Len(u) = Len(s) + Len(t) /\ Len(s) \in Nat /\ Len(t) \in Nat
      /\ \A i \in 1 .. Len(s) + Len(t) : u[i] = IF i <= Len(s) THEN s[i] ELSE t[i - Len(s)]
  BY ConcatProperties
<1> HIDE DEF u
<1>2. ASSUME NEW i \in 1 .. Len(u) PROVE Follows(IF i = 1 THEN m ELSE u[i - 1], u[i])
  <2>1. i \in Nat /\ i >= 1 /\ i <= Len(s) + Len(t)
    BY <1>1
  <2>2. CASE i <= Len(s)
    <3>1. i \in 1 .. Len(s) /\ u[i] = s[i] /\ (i # 1 => u[i - 1] = s[i - 1])
      BY <1>1, <2>1, <2>2
    <3> QED
      BY <3>1 DEF Chain
  <2>3. CASE i > Len(s)
    <3> DEFINE j == i - Len(s)
    <3>1. j \in 1 .. Len(t) /\ u[i] = t[j]
      BY <1>1, <2>1, <2>3
    <3>2. Follows(IF j = 1 THEN Final(m, s) ELSE t[j - 1], t[j])
      BY <3>1 DEF Chain
    <3>3. CASE j # 1
      <4>1. i # 1 /\ i - 1 \in 1 .. Len(s) + Len(t) /\ i - 1 > Len(s)
            /\ (i - 1) - Len(s) = j - 1
        BY <1>1, <2>1, <3>1, <3>3
      <4>2. u[i - 1] = t[j - 1]
        BY <1>1, <4>1
      <4> QED
        BY <3>1, <3>2, <3>3, <4>1, <4>2
    <3>4. CASE j = 1 /\ s = <<>>
      <4>1. i = 1
        BY <1>1, <3>4
      <4> QED
        BY <3>1, <3>2, <3>4, <4>1 DEF Final
    <3>5. CASE j = 1 /\ s # <<>>
      <4>1. i # 1 /\ i - 1 = Len(s) /\ i - 1 \in 1 .. Len(s) + Len(t)
        BY <1>1, <2>1, <3>5
      <4>2. u[i - 1] = s[Len(s)]
        BY <1>1, <4>1
      <4> QED
        BY <3>1, <3>2, <3>5, <4>1, <4>2 DEF Final
    <3> QED
      BY <3>3, <3>4, <3>5
  <2> QED
    BY <2>1, <2>2, <2>3, <1>1
<1>3. Final(m, u) = Final(Final(m, s), t)
  <2>1. CASE t = <<>>
    <3>1. Len(t) = 0
      BY <2>1
    <3>2. CASE s = <<>>
      <4>1. u = <<>>
        BY <1>1, <3>1, <3>2
      <4> QED
        BY <2>1, <3>2, <4>1 DEF Final
    <3>3. CASE s # <<>>
      <4>1. Len(u) \in 1 .. Len(s) + Len(t) /\ Len(u) = Len(s) /\ u # <<>>
        BY <1>1, <3>1, <3>3
      <4> QED
        BY <1>1, <2>1, <3>3, <4>1 DEF Final
    <3> QED
      BY <3>2, <3>3
  <2>2. CASE t # <<>>
    <3>1. Len(u) \in 1 .. Len(s) + Len(t) /\ Len(u) > Len(s) /\ Len(u) - Len(s) = Len(t)
          /\ u # <<>>
      BY <1>1, <2>2
    <3> QED
      BY <1>1, <2>2, <3>1 DEF Final
  <2> QED
    BY <2>1, <2>2
<1> QED
  BY <1>2, <1>3 DEF Chain, u

\* Within a packet, a chain is at one place after the other.
LEMMA ChainPlaces ==
  ASSUME NEW m \in Bytes, NEW s \in Seq(Bytes), Chain(m, s), NEW n \in 1 .. Len(s)
  PROVE  /\ ~IsLast(m) /\ m.at + n <= HeaderSize + m.size => s[n] = AtPlace(m, m.at + n)
         /\ IsLast(m) => /\ s[1].at = 1 /\ s[1].packet = m.packet + 1
                         /\ n <= HeaderSize + s[1].size => s[n] = AtPlace(s[1], n)
<1>1. Len(s) \in Nat /\ 1 \in 1 .. Len(s) /\ n - 1 \in Nat /\ 1 + (n - 1) = n /\ n <= Len(s)
  OBVIOUS
<1>2. \A i \in 1 .. Len(s) - 1 : Follows(s[i], s[i + 1])
  <2> SUFFICES ASSUME NEW i \in 1 .. Len(s) - 1 PROVE Follows(s[i], s[i + 1])
    OBVIOUS
  <2>1. i + 1 \in 1 .. Len(s) /\ i + 1 # 1 /\ (i + 1) - 1 = i
    BY <1>1
  <2> QED
    BY <2>1 DEF Chain
<1>3. s[1].at + (n - 1) <= HeaderSize + s[1].size => s[n] = AtPlace(s[1], s[1].at + (n - 1))
  <2>1. \A k \in Nat : 1 + k <= Len(s) /\ s[1].at + k <= HeaderSize + s[1].size =>
          s[1 + k] = AtPlace(s[1], s[1].at + k)
    BY <1>1, <1>2, Run
  <2> QED
    BY <1>1, <2>1
<1>4. Follows(m, s[1])
  BY <1>1 DEF Chain
<1>5. ASSUME ~IsLast(m), m.at + n <= HeaderSize + m.size PROVE s[n] = AtPlace(m, m.at + n)
  <2>1. s[1] = AtPlace(m, m.at + 1) /\ m.at \in Nat
    BY <1>4, <1>5, Places DEF Follows, AtPlace
  <2>2. /\ s[1].at = m.at + 1 /\ s[1].size = m.size
        /\ \A k : AtPlace(s[1], k) = AtPlace(m, k)
    BY <2>1, Places
  <2>3. s[1].at + (n - 1) = m.at + n
    BY <1>1, <2>1, <2>2
  <2> QED
    BY <1>3, <1>5, <2>2, <2>3
<1>6. ASSUME IsLast(m) PROVE s[1].at = 1 /\ s[1].packet = m.packet + 1
  BY <1>4, <1>6 DEF Follows
<1>7. ASSUME IsLast(m), n <= HeaderSize + s[1].size PROVE s[n] = AtPlace(s[1], n)
  <2>1. s[1].at = 1
    BY <1>6, <1>7
  <2>2. s[1].at + (n - 1) = n
    BY <1>1, <2>1
  <2> QED
    BY <1>3, <1>7, <2>2
<1> QED
  BY <1>5, <1>6, <1>7

LEMMA Starts ==
  ASSUME NEW n \in Nat
  PROVE  Start(n) \in Bytes /\ IsLast(Start(n)) /\ Start(n).packet = n
  BY Sizes DEF Start, Byte, Bytes, IsLast, Kinds
-----------------------------------------------------------------------------
(* Types.                                                                  *)

\* What a packet is made of.
LEMMA PacketIs ==
  ASSUME NEW n \in Nat, NEW k \in Kinds, NEW size \in Nat
  PROVE  RestOf(n, Packet(n, k, size)) /\ Packet(n, k, size)[1].at = 1
<1> DEFINE len == HeaderSize + size
           p == [i \in 1 .. len |-> Byte(n, k, size, i)]
<1>1. len \in Nat /\ len >= 1
  BY Sizes
<1> HIDE DEF len
<1>2. \A i \in 1 .. len : i \in Nat /\ i <= len /\ 1 <= i
  BY <1>1
<1>3. \A i \in 1 .. len : Byte(n, k, size, i) \in Bytes
  BY <1>2 DEF Byte, Bytes, len
<1>4. p \in Seq(Bytes) /\ Len(p) = len
  BY <1>1, <1>3
<1>5. p # <<>> /\ 1 \in 1 .. len
  BY <1>1, <1>4
<1>6. p[1] = Byte(n, k, size, 1)
  BY <1>5
<1>7. p[1].packet = n /\ p[1].at = 1 /\ p[1].size = size /\ p[1].at + Len(p) - 1 = HeaderSize + size
  BY <1>1, <1>4, <1>6 DEF Byte, len
<1>8. ASSUME NEW i \in 1 .. len PROVE p[i] = [p[1] EXCEPT !.at = p[1].at + i - 1]
  <2>1. p[i] = Byte(n, k, size, i) /\ p[1].at + i - 1 = i
    BY <1>1, <1>7
  <2> QED
    BY <1>6, <2>1 DEF Byte
<1> QED
  BY <1>4, <1>5, <1>7, <1>8 DEF RestOf, Packet, len

\* The packet that is being written, from any byte of it.
LEMMA WholeIs ==
  ASSUME NEW n \in Nat, NEW s, RestOf(n, s)
  PROVE  /\ Head(s) = s[1] /\ s[1] \in Bytes
         /\ RestOf(n, Whole(Head(s))) /\ Whole(Head(s))[1].at = 1
<1>1. s \in Seq(Bytes) /\ s # <<>> /\ s[1].packet = n
  BY DEF RestOf
<1>2. Head(s) = s[1] /\ s[1] \in Bytes
  BY <1>1
<1>3. s[1].kind \in Kinds /\ s[1].size \in Nat
  BY <1>2, Places
<1> QED
  BY <1>1, <1>2, <1>3, PacketIs DEF Whole

\* The rest of the rest.
LEMMA RestOfRest ==
  ASSUME NEW n \in Nat, NEW s, RestOf(n, s), NEW k \in 1 .. Len(s) - 1
  PROVE  /\ RestOf(n, SubSeq(s, k + 1, Len(s)))
         /\ Follows(s[k], SubSeq(s, k + 1, Len(s))[1])
<1> DEFINE t == SubSeq(s, k + 1, Len(s))
<1>1. /\ s \in Seq(Bytes) /\ s # <<>> /\ s[1].packet = n /\ s[1] \in Bytes
      /\ s[1].at + Len(s) - 1 = HeaderSize + s[1].size
      /\ \A i \in 1 .. Len(s) : s[i] = AtPlace(s[1], s[1].at + i - 1)
  BY DEF RestOf, AtPlace
<1>2. Len(s) \in Nat /\ k \in Nat /\ k + 1 \in 1 .. Len(s) /\ k \in 1 .. Len(s)
  BY <1>1
<1>3. /\ t \in Seq(Bytes) /\ Len(t) = Len(s) - k
      /\ \A i \in 1 .. Len(s) - k : t[i] = s[k + i]
  BY <1>1, <1>2, SubSeqProperties
<1> HIDE DEF t
<1> DEFINE x == s[1]
<1>4. /\ x \in Bytes /\ x.at \in Nat /\ x.at >= 1 /\ x.size \in Nat
      /\ \A i \in Nat : /\ AtPlace(x, i).at = i /\ AtPlace(x, i).packet = x.packet
                        /\ AtPlace(x, i).size = x.size
                        /\ \A l : AtPlace(AtPlace(x, i), l) = AtPlace(x, l)
  BY <1>1, Places
<1>5. /\ x.packet = n /\ x.at + Len(s) - 1 = HeaderSize + x.size
      /\ \A i \in 1 .. Len(s) : s[i] = AtPlace(x, x.at + i - 1)
  BY <1>1
<1> HIDE DEF x
<1>6. t[1] = AtPlace(x, x.at + k) /\ s[k] = AtPlace(x, x.at + k - 1)
      /\ x.at + k \in Nat /\ x.at + k - 1 \in Nat
  <2>1. 1 \in 1 .. Len(s) - k /\ t[1] = s[k + 1] /\ x.at + (k + 1) - 1 = x.at + k
    BY <1>2, <1>3, <1>4
  <2>2. s[k + 1] = AtPlace(x, x.at + (k + 1) - 1)
    BY <1>2, <1>5
  <2>3. s[k] = AtPlace(x, x.at + k - 1)
    BY <1>2, <1>5
  <2>4. x.at + k \in Nat /\ x.at + k - 1 \in Nat
    BY <1>2, <1>4
  <2> QED
    BY <2>1, <2>2, <2>3, <2>4
<1>7. t[1].packet = n /\ t[1].at = x.at + k /\ t[1].size = x.size
  BY <1>4, <1>5, <1>6
<1>8. t # <<>> /\ t[1].at + Len(t) - 1 = HeaderSize + t[1].size
  <2>1. (x.at + k) + (Len(s) - k) - 1 = x.at + Len(s) - 1
    BY <1>2, <1>4
  <2> QED
    BY <1>2, <1>3, <1>5, <1>7, <2>1
<1>9. ASSUME NEW i \in 1 .. Len(t) PROVE t[i] = [t[1] EXCEPT !.at = t[1].at + i - 1]
  <2>1. k + i \in 1 .. Len(s) /\ t[i] = s[k + i] /\ x.at + (k + i) - 1 = (x.at + k) + i - 1
    BY <1>2, <1>3, <1>4
  <2>2. t[i] = AtPlace(x, (x.at + k) + i - 1)
    BY <1>5, <2>1
  <2>3. AtPlace(t[1], t[1].at + i - 1) = AtPlace(x, t[1].at + i - 1)
    BY <1>4, <1>6
  <2> QED
    BY <1>7, <2>2, <2>3 DEF AtPlace
<1>10. Follows(s[k], t[1])
  <2>1. s[k].at = x.at + k - 1 /\ s[k].size = x.size
    BY <1>4, <1>6
  <2>2. ~IsLast(s[k])
    <3>1. x.at + k - 1 # x.at + Len(s) - 1
      BY <1>2, <1>4
    <3> QED
      BY <1>5, <2>1, <3>1 DEF IsLast
  <2>3. AtPlace(s[k], s[k].at + 1) = AtPlace(x, s[k].at + 1)
    BY <1>4, <1>6
  <2>4. s[k].at + 1 = x.at + k
    <3>1. x.at \in Nat /\ k \in Nat /\ s[k].at = x.at + k - 1
      BY <1>2, <1>4, <2>1
    <3> QED
      BY <3>1
  <2>5. t[1] = AtPlace(s[k], s[k].at + 1)
    BY <1>6, <2>3, <2>4
  <2> QED
    BY <2>2, <2>5 DEF Follows, AtPlace
<1> QED
  BY <1>3, <1>7, <1>8, <1>9, <1>10 DEF RestOf, t

\* What is written of a packet is a chain, and ends it if all of it is.
LEMMA PartOfRest ==
  ASSUME NEW n \in Nat, NEW s, RestOf(n, s), NEW k \in 1 .. Len(s)
  PROVE  LET t == SubSeq(s, 1, k)
         IN  /\ t \in Seq(Bytes) /\ Len(t) = k /\ t # <<>>
             /\ \A m : Follows(m, s[1]) => Chain(m, t) /\ Final(m, t) = s[k]
             /\ s[k].packet = n /\ (k = Len(s) => IsLast(s[k]))
<1> DEFINE t == SubSeq(s, 1, k)
<1>1. s \in Seq(Bytes) /\ Len(s) \in Nat /\ k \in Nat /\ k >= 1 /\ k <= Len(s)
  BY DEF RestOf
<1>2. t \in Seq(Bytes) /\ Len(t) = k /\ (\A i \in 1 .. k : t[i] = s[i])
  BY <1>1, SubSeqProperties
<1> HIDE DEF t
<1>3. t # <<>>
  BY <1>1, <1>2
<1>4. ASSUME NEW i \in 1 .. k, i # 1 PROVE Follows(t[i - 1], t[i])
  <2>1. i - 1 \in 1 .. Len(s) - 1 /\ i - 1 \in 1 .. k /\ (i - 1) + 1 = i /\ i \in 1 .. Len(s)
    BY <1>1, <1>4
  <2> DEFINE r == SubSeq(s, (i - 1) + 1, Len(s))
  <2>2. Follows(s[i - 1], r[1])
    BY <2>1, RestOfRest
  <2>3. r[1] = s[i]
    <3>1. i \in Nat /\ i <= Len(s) /\ i >= 1
      BY <1>1
    <3>2. r = SubSeq(s, i, Len(s))
      BY <2>1
    <3> QED
      BY <1>1, <3>1, <3>2, SubSeqProperties
  <2> QED
    BY <1>2, <2>1, <2>2, <2>3
<1>5. ASSUME NEW m, Follows(m, s[1]) PROVE Chain(m, t) /\ Final(m, t) = s[k]
  <2>1. t[1] = s[1] /\ t[k] = s[k]
    BY <1>1, <1>2
  <2> QED
    BY <1>2, <1>3, <1>4, <1>5, <2>1 DEF Chain, Final
<1>6. s[k].packet = n /\ (k = Len(s) => IsLast(s[k]))
  <2>1. s[1] \in Bytes /\ s[1].at \in Nat /\ s[1].at + k - 1 \in Nat
    <3>1. s[1] \in Bytes
      BY <1>1
    <3>2. s[1].at \in Nat
      BY <3>1, Places
    <3> QED
      BY <1>1, <3>1, <3>2
  <2>2. s[k] = AtPlace(s[1], s[1].at + k - 1) /\ s[1].packet = n
        /\ s[1].at + Len(s) - 1 = HeaderSize + s[1].size
    BY <1>1 DEF RestOf, AtPlace
  <2>3. s[k].packet = n /\ s[k].at = s[1].at + k - 1 /\ s[k].size = s[1].size
    BY <2>1, <2>2, Places
  <2> QED
    BY <2>2, <2>3 DEF IsLast
<1> QED
  BY <1>2, <1>3, <1>5, <1>6 DEF t
-----------------------------------------------------------------------------
(* The brocas: types.                                                      *)

ByBroca(b) == BrocaStep(b) \/ WriteFails(b) \/ OpenFails(b)

\* What a broca that is reading data knows of its header.
LEMMA HeaderIs ==
  ASSUME Types, NEW b \in Brocas, Reads(b), pc[b] = "data"
  PROVE  /\ header[b] # <<>> /\ Len(header[b]) = HeaderSize /\ header[b][1] \in Bytes
         /\ \A i \in 1 .. HeaderSize : header[b][i] = AtPlace(header[b][1], i)
         /\ left[b] \in Nat /\ left[b] <= header[b][1].size
<1>1. IsHeader(header[b]) /\ left[b] <= header[b][1].size
  BY DEF Reads
<1>2. header[b] \in Seq(Bytes) /\ left[b] \in Nat
  BY DEF Types
<1>3. Len(header[b]) = HeaderSize /\ HeaderSize >= 1 /\ HeaderSize \in Nat
  BY <1>1, Sizes DEF IsHeader
<1>4. header[b] # <<>> /\ header[b][1] \in Bytes
  BY <1>2, <1>3
<1> QED
  BY <1>1, <1>2, <1>3, <1>4 DEF IsHeader, AtPlace

\* What is read is what there is, and of data what is to be given.
LEMMA TakenBytes ==
  ASSUME Types, NEW b \in Brocas, TakeData(b)
  PROVE  \E n \in 1 .. Len(ring[b]) :
           /\ n <= left[b] /\ left[b] \in Nat
           /\ ring'[b] = SubSeq(ring[b], n + 1, Len(ring[b]))
           /\ ring' = [ring EXCEPT ![b] = ring'[b]]
           /\ left' = [left EXCEPT ![b] = left[b] - n]
           /\ want' \in [Brocas -> 0 .. CallbackSize]
           /\ pc[b] = "data"
           /\ UNCHANGED <<closed, encoderVars, header, heard, Kind, terminating>>
<1> DEFINE gives == Plays(b) /\ IsData(b)
           n == Least(Least(left[b], Len(ring[b])), IF gives THEN want[b] ELSE left[b])
<1>1. /\ pc[b] = "data" /\ n > 0
      /\ ring' = [ring EXCEPT ![b] = SubSeq(@, n + 1, Len(@))]
      /\ left' = [left EXCEPT ![b] = @ - n]
      /\ want' = [want EXCEPT ![b] = @ - (IF gives THEN n ELSE 0)]
      /\ UNCHANGED <<closed, encoderVars, header, heard, Kind, terminating>>
  BY DEF TakeData
<1>2. /\ left[b] \in Nat /\ ring[b] \in Seq(Bytes) /\ want[b] \in 0 .. CallbackSize
      /\ ring \in [Brocas -> Seq(Bytes)] /\ want \in [Brocas -> 0 .. CallbackSize]
      /\ left \in [Brocas -> Nat] /\ Len(ring[b]) \in Nat
  BY DEF Types
<1>3. n \in Nat /\ n <= left[b] /\ n <= Len(ring[b]) /\ (gives => n <= want[b])
  <2> HIDE DEF gives
  <2> QED
    BY <1>2, Sizes DEF Least
<1> HIDE DEF n, gives
<1>4. n \in 1 .. Len(ring[b])
  BY <1>1, <1>2, <1>3
<1>5. want' \in [Brocas -> 0 .. CallbackSize]
  <2>1. want[b] - (IF gives THEN n ELSE 0) \in 0 .. CallbackSize
    BY <1>2, <1>3, Sizes
  <2> QED
    BY <1>1, <1>2, <2>1
<1>6. ring'[b] = SubSeq(ring[b], n + 1, Len(ring[b])) /\ ring' = [ring EXCEPT ![b] = ring'[b]]
  BY <1>1, <1>2
<1> QED
  BY <1>1, <1>2, <1>3, <1>4, <1>5, <1>6

LEMMA HeaderBytes ==
  ASSUME Types, NEW b \in Brocas, Reads(b), ReadHeader(b)
  PROVE  \E n \in 1 .. Len(ring[b]) :
           LET h == header[b] \o SubSeq(ring[b], 1, n)
           IN  /\ ring'[b] = SubSeq(ring[b], n + 1, Len(ring[b]))
               /\ ring' = [ring EXCEPT ![b] = ring'[b]]
               /\ header' = [header EXCEPT ![b] = h]
               /\ h \in Seq(Bytes) /\ Len(h) = Len(header[b]) + n /\ Len(h) <= HeaderSize
               /\ h # <<>> /\ h[1] \in Bytes
               /\ pc[b] = "header"
               /\ IF Len(h) < HeaderSize THEN UNCHANGED <<pc, left>>
                  ELSE IF IsHeader(h)
                    THEN GoTo(b, "data") /\ left' = [left EXCEPT ![b] = h[1].size]
                    ELSE GoTo(b, "lost") /\ UNCHANGED left
               /\ UNCHANGED <<closed, encoderVars, want, heard, Kind, failed, terminating>>
<1> DEFINE n == Least(HeaderSize - Len(header[b]), Len(ring[b]))
           h == header[b] \o SubSeq(ring[b], 1, n)
<1>1. /\ pc[b] = "header" /\ n > 0
      /\ ring' = [ring EXCEPT ![b] = SubSeq(@, n + 1, Len(@))]
      /\ header' = [header EXCEPT ![b] = h]
      /\ IF Len(h) < HeaderSize THEN UNCHANGED <<pc, left>>
         ELSE IF IsHeader(h)
           THEN GoTo(b, "data") /\ left' = [left EXCEPT ![b] = h[1].size]
           ELSE GoTo(b, "lost") /\ UNCHANGED left
      /\ UNCHANGED <<closed, encoderVars, want, heard, Kind, failed, terminating>>
  BY DEF ReadHeader
<1>2. /\ header[b] \in Seq(Bytes) /\ ring[b] \in Seq(Bytes) /\ ring \in [Brocas -> Seq(Bytes)]
      /\ Len(ring[b]) \in Nat /\ Len(header[b]) \in Nat /\ Len(header[b]) < HeaderSize
      /\ HeaderSize \in Nat
  <2>1. header[b] \in Seq(Bytes) /\ ring[b] \in Seq(Bytes) /\ ring \in [Brocas -> Seq(Bytes)]
    BY DEF Types
  <2>2. Len(header[b]) < HeaderSize
    BY <1>1 DEF Reads
  <2> QED
    BY <2>1, <2>2, Sizes
<1>3. n \in Nat /\ n <= Len(ring[b]) /\ Len(header[b]) + n <= HeaderSize
  <2> DEFINE x == Len(header[b])
             y == Len(ring[b])
  <2>1. x \in Nat /\ y \in Nat /\ x < HeaderSize /\ HeaderSize \in Nat
        /\ n = IF HeaderSize - x <= y THEN HeaderSize - x ELSE y
    BY <1>2 DEF Least
  <2> HIDE DEF x, y, n
  <2>2. n \in Nat /\ n <= y /\ x + n <= HeaderSize
    BY <2>1
  <2> QED
    BY <2>2 DEF x, y
<1> HIDE DEF n
<1>4. n \in 1 .. Len(ring[b])
  BY <1>1, <1>2, <1>3
<1>5. SubSeq(ring[b], 1, n) \in Seq(Bytes) /\ Len(SubSeq(ring[b], 1, n)) = n
  BY <1>2, <1>3, SubSeqProperties
<1>6. h \in Seq(Bytes) /\ Len(h) = Len(header[b]) + n
  <2> HIDE DEF h
  <2>1. h = header[b] \o SubSeq(ring[b], 1, n)
    BY DEF h
  <2> QED
    BY <1>2, <1>5, <2>1, ConcatProperties
<1> HIDE DEF h
<1>7. h # <<>> /\ h[1] \in Bytes
  BY <1>2, <1>4, <1>6
<1>8. ring'[b] = SubSeq(ring[b], n + 1, Len(ring[b])) /\ ring' = [ring EXCEPT ![b] = ring'[b]]
  BY <1>1, <1>2
<1> QED
  BY <1>1, <1>3, <1>4, <1>6, <1>7, <1>8 DEF h

\* A piece of a ring is no longer than the ring.
LEMMA RestOfRing ==
  ASSUME Types, NEW b \in Brocas, NEW n \in 1 .. Len(ring[b])
  PROVE  LET r == SubSeq(ring[b], n + 1, Len(ring[b]))
         IN  r \in Seq(Bytes) /\ Len(r) <= Size
<1>1. ring[b] \in Seq(Bytes) /\ Len(ring[b]) <= Size /\ Len(ring[b]) \in Nat
  BY DEF Types
<1> QED
  BY <1>1, SubSeqProperties, Sizes

LEMMA BrocaTypes ==
  ASSUME Types, NEW b \in Brocas, Reads(b), ByBroca(b)
  PROVE  Types'
<1>1. CASE TakeData(b) /\ failed' \subseteq Brocas /\ pc' \in [Brocas -> Steps]
  <2>1. PICK n \in 1 .. Len(ring[b]) :
           /\ n <= left[b] /\ left[b] \in Nat
           /\ ring'[b] = SubSeq(ring[b], n + 1, Len(ring[b]))
           /\ ring' = [ring EXCEPT ![b] = ring'[b]]
           /\ left' = [left EXCEPT ![b] = left[b] - n]
           /\ want' \in [Brocas -> 0 .. CallbackSize]
           /\ UNCHANGED <<closed, encoderVars, header, heard, Kind, terminating>>
    BY <1>1, TakenBytes
  <2>2. left[b] - n \in Nat
    BY <2>1
  <2>3. ring'[b] \in Seq(Bytes) /\ Len(ring'[b]) <= Size
    BY <2>1, RestOfRing
  <2>4. ring' \in [Brocas -> Seq(Bytes)] /\ (\A c \in Brocas : Len(ring'[c]) <= Size)
        /\ left' \in [Brocas -> Nat]
    BY <2>1, <2>2, <2>3 DEF Types
  <2> QED
    BY <1>1, <2>1, <2>4 DEF Types, encoderVars
<1>2. CASE ReadHeader(b)
  <2> DEFINE h(n) == header[b] \o SubSeq(ring[b], 1, n)
  <2>1. PICK n \in 1 .. Len(ring[b]) :
           /\ ring'[b] = SubSeq(ring[b], n + 1, Len(ring[b]))
           /\ ring' = [ring EXCEPT ![b] = ring'[b]]
           /\ header' = [header EXCEPT ![b] = h(n)]
           /\ h(n) \in Seq(Bytes) /\ Len(h(n)) <= HeaderSize /\ h(n)[1] \in Bytes
           /\ IF Len(h(n)) < HeaderSize THEN UNCHANGED <<pc, left>>
              ELSE IF IsHeader(h(n))
                THEN GoTo(b, "data") /\ left' = [left EXCEPT ![b] = h(n)[1].size]
                ELSE GoTo(b, "lost") /\ UNCHANGED left
           /\ UNCHANGED <<closed, encoderVars, want, heard, Kind, failed, terminating>>
    BY <1>2, HeaderBytes
  <2> DEFINE g == h(n)
  <2>2. /\ g \in Seq(Bytes) /\ Len(g) <= HeaderSize /\ g[1] \in Bytes
        /\ header' = [header EXCEPT ![b] = g]
        /\ UNCHANGED pc \/ GoTo(b, "data") \/ GoTo(b, "lost")
        /\ UNCHANGED left \/ left' = [left EXCEPT ![b] = g[1].size]
    BY <2>1
  <2> HIDE DEF h, g
  <2>3. g[1].size \in Nat
    BY <2>2, Places
  <2>4. left' \in [Brocas -> Nat] /\ header' \in [Brocas -> Seq(Bytes)]
        /\ (\A c \in Brocas : Len(header'[c]) <= HeaderSize)
    BY <2>2, <2>3 DEF Types
  <2>5. pc' \in [Brocas -> Steps]
    BY <2>2 DEF Types, GoTo, Steps
  <2>6. ring'[b] \in Seq(Bytes) /\ Len(ring'[b]) <= Size
    BY <2>1, RestOfRing
  <2>7. ring' \in [Brocas -> Seq(Bytes)] /\ (\A c \in Brocas : Len(ring'[c]) <= Size)
    BY <2>1, <2>6 DEF Types
  <2> QED
    BY <2>1, <2>4, <2>5, <2>7 DEF Types, encoderVars
<1>3. CASE PacketOver(b)
  <2>1. /\ pc[b] = "data"
        /\ heard' = IF left[b] > 0 THEN heard
                    ELSE [heard EXCEPT ![b] = Append(@, header[b][1].packet)]
        /\ UNCHANGED <<ring, closed, encoderVars, header, left, want, Kind, failed, terminating>>
        /\ GoTo(b, "done") \/ GoTo(b, "top")
    BY <1>3 DEF PacketOver
  <2>2. pc' \in [Brocas -> Steps]
    BY <2>1 DEF Types, GoTo, Steps
  <2>3. header[b][1].packet \in Nat
    BY <2>1, HeaderIs, Places
  <2>4. heard[b] \in Seq(Nat) /\ heard \in [Brocas -> Seq(Nat)]
    BY DEF Types
  <2>5. Append(heard[b], header[b][1].packet) \in Seq(Nat)
    BY <2>3, <2>4, AppendProperties
  <2>6. heard' \in [Brocas -> Seq(Nat)]
    BY <2>1, <2>4, <2>5
  <2> QED
    BY <2>1, <2>2, <2>6 DEF Types, encoderVars
<1>4. CASE Open(b) \/ OpenFails(b) \/ Loop(b) \/ LoopEnds(b) \/ CallbackEnds(b) \/ NoPacket(b)
           \/ Aborts(b)
  <2>1. /\ UNCHANGED <<ring, closed, encoderVars, left, heard, Kind, terminating>>
        /\ UNCHANGED header \/ header' = [header EXCEPT ![b] = <<>>]
        /\ UNCHANGED failed \/ failed' = failed \cup {b}
    BY <1>4 DEF Open, OpenFails, Loop, LoopEnds, CallbackEnds, NoPacket, Aborts
  <2>2. pc' \in [Brocas -> Steps]
    BY <1>4 DEF Open, OpenFails, Loop, LoopEnds, CallbackEnds, NoPacket, Aborts, Types, GoTo, Steps
  <2>3. want' \in [Brocas -> 0 .. CallbackSize]
    <3>1. CASE UNCHANGED want
      BY <3>1 DEF Types
    <3>2. CASE want' = [want EXCEPT ![b] = CallbackSize] \/ want' = [want EXCEPT ![b] = 0]
      <4>1. CallbackSize \in 0 .. CallbackSize /\ 0 \in 0 .. CallbackSize
        BY Sizes
      <4> QED
        BY <3>2, <4>1 DEF Types
    <3> QED
      BY <1>4, <3>1, <3>2 DEF Open, OpenFails, Loop, LoopEnds, CallbackEnds, NoPacket, Aborts
  <2>4. /\ header' \in [Brocas -> Seq(Bytes)]
        /\ \A c \in Brocas : Len(header'[c]) <= HeaderSize
    <3>1. <<>> \in Seq(Bytes) /\ Len(<<>>) <= HeaderSize
      BY Sizes
    <3> QED
      BY <2>1, <3>1 DEF Types
  <2> QED
    BY <2>1, <2>2, <2>3, <2>4 DEF Types, encoderVars
<1>5. CASE ReadData(b)
  <2>1. TakeData(b) /\ failed' \subseteq Brocas /\ pc' \in [Brocas -> Steps]
    BY <1>5 DEF ReadData, Types
  <2> QED
    BY <1>1, <2>1
<1>6. CASE WriteFails(b)
  <2>1. TakeData(b) /\ failed' \subseteq Brocas /\ pc' \in [Brocas -> Steps]
    BY <1>6 DEF WriteFails, Types, GoTo, Steps
  <2> QED
    BY <1>1, <2>1
<1> QED
  BY <1>2, <1>3, <1>4, <1>5, <1>6 DEF ByBroca, BrocaStep
-----------------------------------------------------------------------------
(* The brocas: what a step of one keeps.                                   *)

LEMMA SameGood ==
  ASSUME NEW c, Good(c),
         pc'[c] = pc[c], header'[c] = header[c], left'[c] = left[c],
         heard'[c] = heard[c], ring'[c] = ring[c], c \in failed' <=> c \in failed,
         UNCHANGED <<encoderVars, closed, terminating, Kind>>
  PROVE  Good(c)'
<1>1. Mark(c)' = Mark(c) /\ (Astray(c)' <=> Astray(c)) /\ (Finished(c)' <=> Finished(c))
  BY DEF Mark, Astray, Finished, Plays
<1>2. Tip(c)' = Tip(c)
  BY <1>1 DEF Tip
<1>3. Reads(c)' /\ CountsUp(c)' /\ Line(c)' /\ EndsWell(c)'
  BY <1>1 DEF Good, Reads, CountsUp, Line, EndsWell, encoderVars
<1>4. InTurn(c)'
  BY <1>1 DEF Good, InTurn
<1>5. GoesOn(c)'
  BY <1>1, <1>2 DEF Good, GoesOn, GotBy, encoderVars
<1> QED
  BY <1>3, <1>4, <1>5 DEF Good

LEMMA KeepsLine ==
  ASSUME NEW b, Good(b), UNCHANGED <<encoderVars, closed, terminating>>,
         \/ Finished(b)'
         \/ ~Finished(b) /\ Chain(Mark(b)', ring'[b]) /\ Like(Tip(b), Tip(b)')
         \/ closed[b] /\ terminating /\ ring'[b] = <<>>
  PROVE  Line(b)' /\ GoesOn(b)'
<1>1. CASE Finished(b)'
  BY <1>1 DEF Line, GoesOn
<1>2. CASE ~Finished(b) /\ Chain(Mark(b)', ring'[b]) /\ Like(Tip(b), Tip(b)')
  <2>1. Line(b)'
    BY <1>2 DEF Line
  <2>2. /\ \A z : Follows(Tip(b), z) <=> Follows(Tip(b)', z)
        /\ IsLast(Tip(b)) <=> IsLast(Tip(b)')
        /\ Tip(b).packet = Tip(b)'.packet
    BY <1>2, SameEnd
  <2>3. GoesOn(b)'
    <3>1. \A j : GotBy(j)' = GotBy(j)
      BY DEF GotBy, encoderVars
    <3> QED
      BY <1>2, <2>2, <3>1 DEF Good, GoesOn, encoderVars
  <2> QED
    BY <2>1, <2>3
<1>3. CASE closed[b] /\ terminating /\ ring'[b] = <<>>
  <2>1. Len(ring'[b]) = 0
    BY <1>3
  <2> QED
    BY <1>3, <2>1 DEF Line, GoesOn, Chain
<1> QED
  BY <1>1, <1>2, <1>3

\* Without a signal, a sink is drained only between two packets.
LEMMA DrainedBetween ==
  ASSUME IInv, NEW b \in Brocas, Drained(b), ~terminating, ~Finished(b)
  PROVE  encoder = "done" /\ IsLast(Mark(b)) /\ Mark(b).packet = packets
<1>1. encoder = "done"
  BY DEF IInv, Closing, Drained
<1>2. PICK j \in 1 .. Len(Order) : Order[j] = b
  BY OrderAssumption
<1>3. Good(b)
  BY DEF IInv
<1>4. IsLast(Tip(b)) /\ Tip(b).packet = packets
  BY <1>1, <1>2, <1>3 DEF Good, GoesOn, GotBy
<1>5. Tip(b) = Mark(b)
  BY DEF Tip, Final, Drained
<1> QED
  BY <1>1, <1>4, <1>5

\* In the middle of a header, and in the middle of the data.
LEMMA HeaderMark ==
  ASSUME Types, NEW b \in Brocas, Good(b), ~Finished(b), pc[b] = "header", header[b] # <<>>
  PROVE  /\ header[b][1] \in Bytes /\ Mark(b) \in Bytes /\ ~IsLast(Mark(b))
         /\ Mark(b) = AtPlace(header[b][1], Len(header[b]))
<1>1. /\ header[b] \in Seq(Bytes) /\ Len(header[b]) < HeaderSize
      /\ \A i \in 1 .. Len(header[b]) : header[b][i] = AtPlace(header[b][1], i)
      /\ Mark(b) = header[b][Len(header[b])]
  BY DEF Types, Good, Reads, InTurn, AtPlace, Mark
<1>2. Len(header[b]) \in 1 .. Len(header[b]) /\ 1 \in 1 .. Len(header[b]) /\ Len(header[b]) \in Nat
  BY <1>1
<1>3. Mark(b) = AtPlace(header[b][1], Len(header[b])) /\ header[b][1] \in Bytes /\ Mark(b) \in Bytes
  BY <1>1, <1>2
<1>4. Mark(b).at = Len(header[b]) /\ Mark(b).size \in Nat
  BY <1>2, <1>3, Places
<1> QED
  BY <1>1, <1>2, <1>3, <1>4, Sizes DEF IsLast

LEMMA DataMark ==
  ASSUME Types, NEW b \in Brocas, Reads(b), pc[b] = "data"
  PROVE  LET x == header[b][1]
         IN  /\ x \in Bytes /\ Mark(b) \in Bytes /\ Mark(b).packet = x.packet
             /\ Mark(b) = AtPlace(x, HeaderSize + x.size - left[b])
             /\ Mark(b).at = HeaderSize + x.size - left[b] /\ Mark(b).size = x.size
             /\ IsLast(Mark(b)) <=> left[b] = 0
<1> DEFINE x == header[b][1]
           i == HeaderSize + x.size - left[b]
<1>1. x \in Bytes /\ left[b] \in Nat /\ left[b] <= x.size
  BY HeaderIs
<1>2. Mark(b) = AtPlace(x, i)
  BY DEF Mark, AtPlace
<1> HIDE DEF x
<1>3. x.size \in Nat
  BY <1>1, Places
<1>4. i \in Nat /\ 1 <= i /\ i <= HeaderSize + x.size /\ (i = HeaderSize + x.size <=> left[b] = 0)
  <2> DEFINE l == left[b]
             m == x.size
  <2>1. l \in Nat /\ m \in Nat /\ l <= m /\ HeaderSize \in Nat /\ HeaderSize >= 1
    BY <1>1, <1>3, Sizes
  <2> HIDE DEF l, m
  <2>2. LET k == HeaderSize + m - l
        IN  k \in Nat /\ 1 <= k /\ k <= HeaderSize + m /\ (k = HeaderSize + m <=> l = 0)
    BY <2>1
  <2> QED
    BY <2>2 DEF l, m
<1> HIDE DEF i
<1>5. /\ Mark(b).at = i /\ Mark(b).packet = x.packet /\ Mark(b).size = x.size
      /\ Mark(b) \in Bytes
  BY <1>1, <1>2, <1>4, Places
<1>6. IsLast(Mark(b)) <=> left[b] = 0
  BY <1>4, <1>5 DEF IsLast
<1> QED
  BY <1>1, <1>2, <1>5, <1>6 DEF x, i
LEMMA BetweenPackets ==
  ASSUME IInv, NEW b \in Brocas,
         Open(b) \/ OpenFails(b) \/ Loop(b) \/ LoopEnds(b) \/ CallbackEnds(b) \/ NoPacket(b)
  PROVE  Good(b)'
<1>1. /\ Good(b) /\ pc \in [Brocas -> Steps] /\ header \in [Brocas -> Seq(Bytes)]
  BY DEF IInv, Types
<1>2. UNCHANGED <<ring, closed, encoderVars, left, heard, Kind, terminating>>
  BY DEF Open, OpenFails, Loop, LoopEnds, CallbackEnds, NoPacket
<1>3. CASE Open(b) \/ Loop(b)
  <2>1. /\ pc[b] \in {"open", "top"} /\ (Plays(b) \/ ~terminating)
        /\ pc'[b] = "top" \/ (pc'[b] = "header" /\ header'[b] = <<>>)
        /\ failed' = failed
    BY <1>1, <1>3 DEF Open, Loop, GoTo, Plays
  <2>2. Mark(b) = Start(Len(heard[b])) /\ Mark(b)' = Mark(b)
    BY <1>2, <2>1 DEF Mark
  <2>3. Finished(b)' \/ ~Finished(b)
    BY <1>2, <2>1 DEF Finished, Astray, Plays
  <2>4. Line(b)' /\ GoesOn(b)'
    <3>1. ~Finished(b) => Chain(Mark(b)', ring'[b]) /\ Like(Tip(b), Tip(b)')
      BY <1>1, <1>2, <2>2 DEF Good, Line, Tip, Like
    <3> QED
      BY <1>1, <1>2, <2>3, <3>1, KeepsLine
  <2>5. Len(<<>>) = 0 /\ HeaderSize > 0
    BY Sizes
  <2>6. Reads(b)' /\ InTurn(b)' /\ CountsUp(b)' /\ EndsWell(b)'
    BY <1>1, <1>2, <2>1, <2>5 DEF Good, Reads, InTurn, CountsUp, EndsWell, Astray
  <2> QED
    BY <2>4, <2>6 DEF Good
<1>4. CASE CallbackEnds(b) /\ ~terminating
  BY <1>1, <1>2, <1>4, SameGood DEF CallbackEnds
<1>5. CASE OpenFails(b) \/ LoopEnds(b) \/ (CallbackEnds(b) /\ terminating) \/ NoPacket(b)
  <2>1. pc'[b] = "done" /\ Finished(b)'
    BY <1>1, <1>5 DEF OpenFails, LoopEnds, CallbackEnds, NoPacket, GoTo, Finished
  <2>2. Line(b)' /\ GoesOn(b)'
    BY <1>1, <1>2, <2>1, KeepsLine
  <2>3. Reads(b)' /\ InTurn(b)' /\ CountsUp(b)'
    <3>1. failed' = failed \/ (Kind[b] = "portaudio" /\ Kind[b] \in Failing)
      BY <1>5 DEF OpenFails, LoopEnds, CallbackEnds, NoPacket, Plays
    <3>2. Astray(b)' <=> Astray(b)
      BY <1>2, <1>5 DEF OpenFails, LoopEnds, CallbackEnds, NoPacket, Plays, Astray
    <3> QED
      BY <1>1, <1>2, <2>1, <3>1, <3>2 DEF Good, Reads, InTurn, CountsUp
  <2>4. EndsWell(b)'
    <3>1. SUFFICES ASSUME ~terminating, b \notin failed'
                   PROVE  encoder = "done" /\ Len(heard[b]) = packets
      BY <1>2, <2>1 DEF EndsWell, encoderVars
    <3>2. NoPacket(b) /\ pc[b] = "header" /\ Drained(b) /\ b \notin failed
      BY <1>5, <3>1 DEF OpenFails, LoopEnds, CallbackEnds, NoPacket
    <3>3. ~Finished(b)
      BY <3>1, <3>2 DEF Finished, Astray
    <3>4. encoder = "done" /\ IsLast(Mark(b)) /\ Mark(b).packet = packets
      BY <3>1, <3>2, <3>3, DrainedBetween
    <3>5. header[b] = <<>>
      BY <1>1, <3>2, <3>3, <3>4, HeaderMark DEF IInv
    <3>6. Mark(b) = Start(Len(heard[b])) /\ Len(heard[b]) \in Nat
      BY <3>2, <3>5 DEF Mark, IInv, Types
    <3> QED
      BY <3>4, <3>6, Starts
  <2> QED
    BY <2>2, <2>3, <2>4 DEF Good
<1> QED
  BY <1>3, <1>4, <1>5

LEMMA InHeader ==
  ASSUME IInv, NEW b \in Brocas, ReadHeader(b)
  PROVE  Good(b)'
<1> DEFINE h(n) == header[b] \o SubSeq(ring[b], 1, n)
<1>1. /\ Good(b) /\ Types /\ Reads(b) /\ pc \in [Brocas -> Steps]
      /\ header \in [Brocas -> Seq(Bytes)] /\ left \in [Brocas -> Nat]
      /\ ring[b] \in Seq(Bytes) /\ header[b] \in Seq(Bytes) /\ Len(heard[b]) \in Nat
  BY DEF IInv, Types, Good
<1>2. PICK n \in 1 .. Len(ring[b]) :
        /\ ring'[b] = SubSeq(ring[b], n + 1, Len(ring[b]))
        /\ header' = [header EXCEPT ![b] = h(n)]
        /\ h(n) \in Seq(Bytes) /\ Len(h(n)) = Len(header[b]) + n /\ Len(h(n)) <= HeaderSize
        /\ h(n) # <<>> /\ h(n)[1] \in Bytes
        /\ pc[b] = "header"
        /\ IF Len(h(n)) < HeaderSize THEN UNCHANGED <<pc, left>>
           ELSE IF IsHeader(h(n))
             THEN GoTo(b, "data") /\ left' = [left EXCEPT ![b] = h(n)[1].size]
             ELSE GoTo(b, "lost") /\ UNCHANGED left
        /\ UNCHANGED <<closed, encoderVars, heard, Kind, failed, terminating>>
  BY <1>1, HeaderBytes
<1> DEFINE g == h(n)
<1>3. /\ header'[b] = g /\ g \in Seq(Bytes) /\ g # <<>> /\ g[1] \in Bytes
      /\ Len(g) = Len(header[b]) + n /\ Len(g) <= HeaderSize
      /\ Len(header[b]) \in Nat /\ n \in Nat /\ n >= 1 /\ Len(ring[b]) \in Nat /\ n <= Len(ring[b])
  <2>1. g \in Seq(Bytes) /\ g # <<>> /\ g[1] \in Bytes /\ header' = [header EXCEPT ![b] = g]
        /\ Len(g) = Len(header[b]) + n /\ Len(g) <= HeaderSize
    BY <1>2
  <2> HIDE DEF g, h
  <2>2. header'[b] = g
    BY <1>1, <2>1
  <2>3. Len(header[b]) \in Nat /\ Len(ring[b]) \in Nat
    BY <1>1
  <2>4. n \in Nat /\ n >= 1 /\ n <= Len(ring[b])
    BY <2>3
  <2> QED
    BY <2>1, <2>2, <2>3, <2>4
<1>4. \/ Len(g) < HeaderSize /\ pc'[b] = "header"
      \/ Len(g) = HeaderSize /\ IsHeader(g) /\ pc'[b] = "data" /\ left'[b] = g[1].size
      \/ Len(g) = HeaderSize /\ ~IsHeader(g) /\ pc'[b] = "lost"
  <2>1. IF Len(g) < HeaderSize THEN UNCHANGED <<pc, left>>
        ELSE IF IsHeader(g)
          THEN GoTo(b, "data") /\ left' = [left EXCEPT ![b] = g[1].size]
          ELSE GoTo(b, "lost") /\ UNCHANGED left
    BY <1>2
  <2>2. pc[b] = "header" /\ Len(g) \in Nat
    BY <1>2, <1>3
  <2> HIDE DEF g, h
  <2>3. Len(g) < HeaderSize \/ Len(g) = HeaderSize
    BY <1>3, <2>2, Sizes
  <2> QED
    BY <1>1, <2>1, <2>2, <2>3, Sizes DEF GoTo
<1>5. \A i \in 1 .. Len(g) : g[i] = IF i <= Len(header[b]) THEN header[b][i]
                                    ELSE ring[b][i - Len(header[b])]
  <2> DEFINE r == SubSeq(ring[b], 1, n)
  <2>1. r \in Seq(Bytes) /\ Len(r) = n /\ (\A i \in 1 .. n : r[i] = ring[b][i])
    BY <1>1, <1>3, SubSeqProperties
  <2>2. g = header[b] \o r
    OBVIOUS
  <2> HIDE DEF r, g, h
  <2>3. \A i \in 1 .. Len(g) : g[i] = IF i <= Len(header[b]) THEN header[b][i]
                                      ELSE r[i - Len(header[b])]
    BY <1>1, <1>3, <2>1, <2>2, ConcatProperties
  <2>4. \A i \in 1 .. Len(g) : ~(i <= Len(header[b])) => i - Len(header[b]) \in 1 .. n
    BY <1>3
  <2> QED
    BY <2>1, <2>3, <2>4
<1> HIDE DEF h, g
<1>6. /\ Finished(b) <=> Astray(b)
      /\ Finished(b)' <=> Astray(b)
      /\ Astray(b)' <=> Astray(b)
  BY <1>2, <1>4 DEF Finished, Astray
<1>7. Reads(b)' /\ CountsUp(b)' /\ EndsWell(b)'
  <2>1. g[1].size \in Nat
    BY <1>3, Places
  <2>2. Reads(b)' /\ CountsUp(b)' /\ EndsWell(b)'
    <3>1. Reads(b)'
      <4>1. Kind' = Kind /\ failed' = failed
        BY <1>2
      <4>2. b \in failed => Kind[b] \in Failing
        BY <1>1 DEF Reads
      <4>3. pc'[b] = "data" => IsHeader(header'[b]) /\ left'[b] <= header'[b][1].size
        BY <1>3, <1>4, <2>1
      <4> QED
        BY <1>3, <1>4, <4>1, <4>2, <4>3 DEF Reads
    <3>2. CountsUp(b)'
      BY <1>1, <1>2, <1>6 DEF Good, CountsUp
    <3>3. EndsWell(b)'
      BY <1>4 DEF EndsWell
    <3> QED
      BY <3>1, <3>2, <3>3
  <2> QED
    BY <2>2
<1>8. CASE Astray(b)
  <2>1. InTurn(b)'
    BY <1>6, <1>8 DEF InTurn
  <2>2. Line(b)' /\ GoesOn(b)'
    BY <1>1, <1>2, <1>6, <1>8, KeepsLine
  <2> QED
    BY <1>7, <2>1, <2>2 DEF Good
<1>9. CASE ~Astray(b)
  <2>1. Chain(Mark(b), ring[b])
    BY <1>1, <1>6, <1>9 DEF Good, Line
  <2>2. g[1].packet = Len(heard[b]) + 1 /\ \A i \in 1 .. Len(g) : g[i] = AtPlace(g[1], i)
    <3>1. CASE header[b] = <<>>
      <4>1. Mark(b) = Start(Len(heard[b])) /\ Len(header[b]) = 0
        BY <1>2, <3>1 DEF Mark
      <4>2. Mark(b) \in Bytes /\ IsLast(Mark(b)) /\ Mark(b).packet = Len(heard[b])
        BY <1>1, <4>1, Starts
      <4>3. \A i \in 1 .. Len(g) : g[i] = ring[b][i] /\ i \in 1 .. Len(ring[b])
        BY <1>3, <1>5, <4>1
      <4>4. g[1] = ring[b][1] /\ g[1].size \in Nat
        BY <1>3, <4>1, <4>3, Places
      <4>5. ring[b][1].packet = Len(heard[b]) + 1
        BY <1>1, <1>3, <2>1, <4>2, ChainPlaces
      <4>6. ASSUME NEW i \in 1 .. Len(g) PROVE g[i] = AtPlace(g[1], i)
        <5>1. i <= HeaderSize + ring[b][1].size
          <6>1. i \in Nat /\ i <= HeaderSize /\ HeaderSize \in Nat
            BY <1>3, Sizes
          <6>2. ring[b][1].size \in Nat
            BY <4>4
          <6> QED
            BY <6>1, <6>2
        <5> QED
          BY <1>1, <2>1, <4>2, <4>3, <4>4, <5>1, ChainPlaces, ZenonT(40)
      <4> QED
        BY <4>4, <4>5, <4>6
    <3>2. CASE header[b] # <<>>
      <4> DEFINE x == header[b][1]
                 l == Len(header[b])
      <4>1. /\ x \in Bytes /\ Mark(b) \in Bytes /\ ~IsLast(Mark(b)) /\ Mark(b) = AtPlace(x, l)
        BY <1>1, <1>2, <1>6, <1>9, <3>2, HeaderMark
      <4>2. /\ x.packet = Len(heard[b]) + 1
            /\ \A i \in 1 .. l : header[b][i] = AtPlace(x, i)
        BY <1>1, <1>2, <1>6, <1>9, <3>2 DEF Good, InTurn, AtPlace
      <4>3. l \in Nat /\ l >= 1
        BY <1>1, <3>2
      <4>4. g[1] = x
        BY <1>3, <1>5, <4>3
      <4> HIDE DEF x
      <4>5. /\ x.size \in Nat /\ Mark(b).at = l /\ Mark(b).size = x.size
            /\ \A k : AtPlace(Mark(b), k) = AtPlace(x, k)
        BY <4>1, <4>3, Places
      <4>6. ASSUME NEW i \in 1 .. Len(g), i > l PROVE g[i] = AtPlace(x, i)
        <5>1. i - l \in 1 .. Len(ring[b]) /\ g[i] = ring[b][i - l] /\ l + (i - l) = i
              /\ i <= HeaderSize /\ i \in Nat
          <6>1. /\ Len(g) \in Nat /\ Len(g) = l + n /\ Len(g) <= HeaderSize /\ n <= Len(ring[b])
                /\ HeaderSize \in Nat
            BY <1>3, Sizes
          <6>2. ~(i <= l) /\ g[i] = IF i <= l THEN header[b][i] ELSE ring[b][i - l]
            BY <1>5, <4>3, <4>6
          <6> HIDE DEF l
          <6> QED
            BY <1>3, <4>3, <4>6, <6>1, <6>2
        <5>2. Mark(b).at + (i - l) <= HeaderSize + Mark(b).size
          BY <4>5, <5>1, Sizes
        <5>3. ring[b][i - l] = AtPlace(Mark(b), Mark(b).at + (i - l))
          BY <1>1, <2>1, <4>1, <5>1, <5>2, ChainPlaces
        <5> QED
          BY <4>5, <5>1, <5>3
      <4>7. ASSUME NEW i \in 1 .. Len(g), i <= l PROVE g[i] = AtPlace(x, i)
        BY <1>5, <4>2, <4>3, <4>7
      <4>8. \A i \in 1 .. Len(g) : g[i] = AtPlace(x, i)
        BY <1>3, <4>3, <4>6, <4>7
      <4> QED
        BY <4>2, <4>4, <4>8
    <3> QED
      BY <3>1, <3>2
  <2>3. Len(g) = HeaderSize => IsHeader(g)
    BY <2>2 DEF IsHeader, AtPlace
  <2>4. InTurn(b)'
    BY <1>2, <1>3, <1>4, <2>2, <2>3 DEF InTurn, AtPlace
  <2>5. Mark(b)' = ring[b][n]
    <3>1. Len(g) \in 1 .. Len(g) /\ g[Len(g)] = ring[b][n]
      <4>1. Len(g) \in 1 .. Len(g) /\ ~(Len(g) <= Len(header[b])) /\ Len(g) - Len(header[b]) = n
        BY <1>3
      <4> QED
        BY <1>5, <4>1
    <3>2. CASE pc'[b] = "header"
      BY <1>3, <3>1, <3>2 DEF Mark
    <3>3. CASE pc'[b] = "data"
      <4>1. Len(g) = HeaderSize /\ left'[b] = g[1].size /\ g[1].size \in Nat
        BY <1>3, <1>4, <3>3, Places
      <4>2. Mark(b)' = AtPlace(g[1], HeaderSize + g[1].size - left'[b])
        BY <1>3, <3>3 DEF Mark, AtPlace
      <4>3. HeaderSize + g[1].size - left'[b] = HeaderSize
        BY <4>1, Sizes
      <4> QED
        BY <2>2, <3>1, <4>1, <4>2, <4>3
    <3> QED
      BY <1>4, <2>3, <3>2, <3>3
  <2>6. Chain(Mark(b)', ring'[b]) /\ Tip(b)' = Tip(b)
    BY <1>1, <1>2, <2>1, <2>5, Taken DEF Tip
  <2>7. Line(b)' /\ GoesOn(b)'
    <3>1. Like(Tip(b), Tip(b)') /\ ~Finished(b)
      BY <1>6, <1>9, <2>6 DEF Like
    <3> QED
      BY <1>1, <1>2, <2>6, <3>1, KeepsLine
  <2> QED
    BY <1>7, <2>4, <2>7 DEF Good
<1> QED
  BY <1>8, <1>9
LEMMA InData ==
  ASSUME IInv, NEW b \in Brocas, ReadData(b) \/ WriteFails(b)
  PROVE  Good(b)'
<1> DEFINE x == header[b][1]
<1>1. /\ Good(b) /\ Types /\ Reads(b) /\ pc \in [Brocas -> Steps] /\ left \in [Brocas -> Nat]
      /\ ring[b] \in Seq(Bytes)
  BY DEF IInv, Types, Good
<1>2. TakeData(b)
  BY DEF ReadData, WriteFails
<1>3. PICK n \in 1 .. Len(ring[b]) :
        /\ n <= left[b] /\ left[b] \in Nat
        /\ ring'[b] = SubSeq(ring[b], n + 1, Len(ring[b]))
        /\ left' = [left EXCEPT ![b] = left[b] - n]
        /\ pc[b] = "data"
        /\ UNCHANGED <<closed, encoderVars, header, heard, Kind, terminating>>
  BY <1>1, <1>2, TakenBytes
<1>4. /\ x \in Bytes /\ Mark(b) \in Bytes
      /\ Mark(b) = AtPlace(x, HeaderSize + x.size - left[b])
      /\ Mark(b).at = HeaderSize + x.size - left[b] /\ Mark(b).size = x.size
      /\ IsLast(Mark(b)) <=> left[b] = 0
      /\ left[b] <= x.size /\ IsHeader(header[b])
  BY <1>1, <1>3, DataMark, HeaderIs DEF Reads
<1>5. CASE ReadData(b)
  <2>1. UNCHANGED <<pc, failed>> /\ left'[b] = left[b] - n
    BY <1>1, <1>3, <1>5 DEF ReadData
  <2>2. /\ Astray(b)' <=> Astray(b)
        /\ Finished(b)' <=> Finished(b)
    BY <1>3, <2>1 DEF Finished, Astray, Plays
  <2>3. x.size \in Nat /\ left'[b] <= x.size /\ n >= 1 /\ n \in Nat
    <3>1. x.size \in Nat
      BY <1>4, Places
    <3> HIDE DEF x
    <3> QED
      BY <1>1, <1>3, <1>4, <2>1, <3>1
  <2>4. Reads(b)' /\ CountsUp(b)' /\ EndsWell(b)'
    BY <1>1, <1>3, <1>4, <2>1, <2>2, <2>3 DEF Good, Reads, CountsUp, EndsWell
  <2>5. InTurn(b)'
    BY <1>1, <1>3, <2>1, <2>2 DEF Good, InTurn
  <2>6. CASE Finished(b)
    BY <1>1, <1>3, <2>2, <2>4, <2>5, <2>6, KeepsLine DEF Good
  <2>7. CASE ~Finished(b)
    <3>1. Chain(Mark(b), ring[b])
      BY <1>1, <2>7 DEF Good, Line
    <3>2. Mark(b)' = AtPlace(x, HeaderSize + x.size - left'[b])
      BY <1>3, <2>1 DEF Mark, AtPlace
    <3> HIDE DEF x
    <3>3. /\ (HeaderSize + x.size - left[b]) + n = HeaderSize + x.size - left'[b]
          /\ HeaderSize + x.size - left'[b] <= HeaderSize + x.size
          /\ HeaderSize + x.size - left[b] \in Nat
      <4> DEFINE l == left[b]
                 m == x.size
                 k == left'[b]
      <4>1. l \in Nat /\ m \in Nat /\ k = l - n /\ n <= l /\ n \in Nat /\ l <= m
            /\ HeaderSize \in Nat
        BY <1>3, <1>4, <2>1, <2>3, Sizes
      <4> HIDE DEF l, m, k
      <4>2. /\ (HeaderSize + m - l) + n = HeaderSize + m - k
            /\ HeaderSize + m - k <= HeaderSize + m
            /\ HeaderSize + m - l \in Nat
        BY <4>1
      <4> QED
        BY <4>2 DEF l, m, k
    <3>4. ~IsLast(Mark(b)) /\ Mark(b).at + n <= HeaderSize + Mark(b).size
      <4>1. left[b] # 0
        BY <1>3, <2>3
      <4> QED
        BY <1>4, <3>3, <4>1
    <3>5. ring[b][n] = AtPlace(Mark(b), Mark(b).at + n)
      BY <1>1, <1>4, <3>1, <3>4, ChainPlaces
    <3>6. AtPlace(Mark(b), Mark(b).at + n) = AtPlace(x, Mark(b).at + n)
      BY <1>4, <3>3, Places
    <3>7. Mark(b)' = ring[b][n]
      BY <1>4, <3>2, <3>3, <3>5, <3>6
    <3>8. Chain(Mark(b)', ring'[b]) /\ Tip(b)' = Tip(b)
      BY <1>1, <1>3, <3>1, <3>7, Taken DEF Tip
    <3>9. Line(b)' /\ GoesOn(b)'
      <4>1. Like(Tip(b), Tip(b)')
        BY <3>8 DEF Like
      <4> QED
        BY <1>1, <1>3, <2>7, <3>8, <4>1, KeepsLine
    <3> QED
      BY <2>4, <2>5, <3>9 DEF Good
  <2> QED
    BY <2>6, <2>7
<1>6. CASE WriteFails(b)
  <2>1. /\ Kind[b] \in {"file", "shout"} /\ Kind[b] \in Failing
        /\ failed' = failed \cup {b}
        /\ pc'[b] = IF Kind[b] = "file" THEN "done" ELSE "open"
    BY <1>1, <1>6 DEF WriteFails, InPieces, GoTo
  <2>2. Finished(b)' /\ (Astray(b)' \/ Kind[b] = "file")
    BY <1>3, <2>1 DEF Finished, Astray
  <2>3. Line(b)' /\ GoesOn(b)'
    BY <1>1, <1>3, <2>2, KeepsLine
  <2>4. Reads(b)' /\ EndsWell(b)' /\ InTurn(b)'
    BY <1>3, <2>1, <2>2 DEF Reads, EndsWell, InTurn
  <2>5. CountsUp(b)'
    BY <1>1, <1>3, <2>1, <2>2 DEF Good, CountsUp, Astray
  <2> QED
    BY <2>3, <2>4, <2>5 DEF Good
<1> QED
  BY <1>5, <1>6

\* One more packet was heard.
LEMMA OneMoreHeard ==
  ASSUME NEW s \in Seq(Nat), s = [i \in 1 .. Len(s) |-> i]
  PROVE  LET t == Append(s, Len(s) + 1)
         IN  Len(t) = Len(s) + 1 /\ t = [i \in 1 .. Len(t) |-> i]
<1> DEFINE t == Append(s, Len(s) + 1)
<1>1. /\ t \in Seq(Nat) /\ Len(t) = Len(s) + 1 /\ Len(s) \in Nat
      /\ \A i \in 1 .. Len(s) : t[i] = s[i]
      /\ t[Len(s) + 1] = Len(s) + 1
  BY AppendProperties
<1> HIDE DEF t
<1>2. ASSUME NEW i \in 1 .. Len(t) PROVE t[i] = i
  <2>1. i \in 1 .. Len(s) \/ i = Len(s) + 1
    BY <1>1
  <2> QED
    BY <1>1, <2>1
<1>3. t = [i \in 1 .. Len(t) |-> t[i]]
  BY <1>1
<1>4. t = [i \in 1 .. Len(t) |-> i]
  BY <1>2, <1>3
<1> QED
  BY <1>1, <1>4 DEF t

LEMMA AfterPacket ==
  ASSUME IInv, NEW b \in Brocas, PacketOver(b) \/ Aborts(b)
  PROVE  Good(b)'
<1> DEFINE x == header[b][1]
<1>1. /\ Good(b) /\ Types /\ Reads(b) /\ pc \in [Brocas -> Steps] /\ left[b] \in Nat
      /\ heard[b] \in Seq(Nat) /\ Len(heard[b]) \in Nat /\ heard \in [Brocas -> Seq(Nat)]
  BY DEF IInv, Types, Good
<1>2. /\ pc[b] = "data" /\ Over(b)
      /\ UNCHANGED <<ring, closed, encoderVars, header, left, Kind, failed, terminating>>
  BY DEF PacketOver, Aborts
<1>3. /\ x \in Bytes /\ Mark(b).packet = x.packet
      /\ IsLast(Mark(b)) <=> left[b] = 0
  BY <1>1, <1>2, DataMark
<1>4. Astray(b)' <=> Astray(b)
  BY <1>2 DEF Astray
<1>5. ~terminating /\ ~Finished(b) => left[b] = 0
  <2> SUFFICES ASSUME ~terminating, ~Finished(b), left[b] # 0 PROVE FALSE
    OBVIOUS
  <2>1. Drained(b)
    BY <1>2 DEF Over
  <2> QED
    BY <1>3, <2>1, DrainedBetween
<1>6. Finished(b) <=> Astray(b)
  BY <1>2 DEF Finished
<1>7. CASE Aborts(b)
  <2>1. pc'[b] = "aborted" /\ heard' = heard /\ Finished(b)'
    BY <1>1, <1>7 DEF Aborts, GoTo, Finished
  <2>2. Line(b)' /\ GoesOn(b)'
    BY <1>1, <1>2, <2>1, KeepsLine
  <2>3. left[b] # 0
    BY <1>1, <1>7 DEF Aborts, CutOff
  <2>4. EndsWell(b)'
    BY <1>2, <1>4, <1>5, <1>6, <2>1, <2>3 DEF EndsWell
  <2>5. Reads(b)' /\ InTurn(b)' /\ CountsUp(b)'
    BY <1>1, <1>2, <1>4, <2>1 DEF Good, Reads, InTurn, CountsUp
  <2> QED
    BY <2>2, <2>4, <2>5 DEF Good
<1>8. CASE PacketOver(b) /\ left[b] > 0
  <2>1. /\ heard' = heard
        /\ pc'[b] = IF Kind[b] = "discard" /\ x.kind # "command" /\ Drained(b) THEN "done"
                    ELSE "top"
    BY <1>1, <1>8 DEF PacketOver, GoTo
  <2>2. terminating \/ Astray(b)
    BY <1>5, <1>6, <1>8
  <2>3. Reads(b)' /\ InTurn(b)' /\ CountsUp(b)'
    BY <1>1, <1>2, <1>4, <2>1 DEF Good, Reads, InTurn, CountsUp
  <2>4. EndsWell(b)'
    BY <1>2, <2>1, <2>2 DEF EndsWell, Astray
  <2>5. Line(b)' /\ GoesOn(b)'
    <3>1. CASE Astray(b)
      <4>1. Finished(b)'
        BY <1>4, <3>1 DEF Finished
      <4> QED
        BY <1>1, <1>2, <4>1, KeepsLine
    <3>2. CASE terminating /\ Drained(b)
      BY <1>1, <1>2, <3>2, KeepsLine DEF Drained
    <3>3. CASE terminating /\ ~Drained(b)
      <4>1. InPieces(b)
        BY <1>2, <1>8, <3>3 DEF Over
      <4>2. Finished(b)'
        BY <1>2, <2>1, <3>3, <4>1 DEF InPieces, Finished, Plays
      <4> QED
        BY <1>1, <1>2, <4>2, KeepsLine
    <3> QED
      BY <2>2, <3>1, <3>2, <3>3
  <2> QED
    BY <2>3, <2>4, <2>5 DEF Good
<1>9. CASE PacketOver(b) /\ left[b] = 0
  <2>1. /\ heard'[b] = Append(heard[b], x.packet)
        /\ pc'[b] = IF Kind[b] = "discard" /\ x.kind # "command" /\ Drained(b) THEN "done"
                    ELSE "top"
    BY <1>1, <1>9 DEF PacketOver, GoTo
  <2>2. ~Astray(b) => x.packet = Len(heard[b]) + 1 /\ heard[b] = [i \in 1 .. Len(heard[b]) |-> i]
    BY <1>1, <1>2, <1>6 DEF Good, InTurn, CountsUp
  <2>3. ~Astray(b) => heard'[b] = [i \in 1 .. Len(heard'[b]) |-> i] /\ Len(heard'[b]) = x.packet
    BY <1>1, <2>1, <2>2, OneMoreHeard
  <2>4. Reads(b)' /\ InTurn(b)' /\ CountsUp(b)'
    BY <1>1, <1>2, <1>4, <2>1, <2>3 DEF Good, Reads, InTurn, CountsUp
  <2>5. EndsWell(b)'
    <3>1. SUFFICES ASSUME ~terminating, b \notin failed, pc'[b] = "done"
                   PROVE  encoder = "done" /\ Len(heard'[b]) = packets
      BY <1>2, <2>1 DEF EndsWell, encoderVars
    <3>2. ~Astray(b) /\ ~Finished(b) /\ Drained(b)
      BY <1>6, <2>1, <3>1 DEF Astray
    <3>3. encoder = "done" /\ Mark(b).packet = packets
      BY <3>1, <3>2, DrainedBetween
    <3> QED
      BY <1>3, <2>3, <3>2, <3>3
  <2>6. Line(b)' /\ GoesOn(b)'
    <3>1. CASE Finished(b)'
      BY <1>1, <1>2, <3>1, KeepsLine
    <3>2. CASE ~Finished(b)'
      <4>1. ~Astray(b) /\ ~Finished(b) /\ pc'[b] = "top"
        BY <1>4, <1>6, <2>1, <3>2 DEF Finished
      <4>2. Mark(b)' = Start(x.packet)
        BY <2>3, <4>1 DEF Mark
      <4>3. IsLast(Start(x.packet)) /\ Start(x.packet).packet = x.packet
        BY <1>3, Places, Starts
      <4>4. Like(Mark(b), Mark(b)')
        BY <1>3, <1>9, <4>2, <4>3 DEF Like
      <4>5. Chain(Mark(b), ring[b])
        BY <1>1, <4>1 DEF Good, Line
      <4>6. Chain(Mark(b)', ring'[b]) /\ Like(Tip(b), Tip(b)')
        BY <1>2, <4>4, <4>5, SameEnd DEF Tip
      <4> QED
        BY <1>1, <1>2, <4>1, <4>6, KeepsLine
    <3> QED
      BY <3>1, <3>2
  <2> QED
    BY <2>4, <2>5, <2>6 DEF Good
<1> QED
  BY <1>1, <1>7, <1>8, <1>9

\* A broca touches nothing of another one's.
LEMMA BrocaStepGood ==
  ASSUME IInv, NEW b \in Brocas, ByBroca(b)
  PROVE  IInv'
<1>1. Types'
  BY BrocaTypes DEF IInv, Good
<1>2. UNCHANGED <<encoderVars, closed, terminating, Kind>>
  BY DEF ByBroca, BrocaStep, Open, OpenFails, Loop, LoopEnds, CallbackEnds, ReadHeader, NoPacket,
         ReadData, WriteFails, TakeData, PacketOver, Aborts
<1>3. Writing' /\ Closing'
  BY <1>2 DEF IInv, Writing, Closing, encoderVars
<1>4. Good(b)'
  BY BetweenPackets, InHeader, InData, AfterPacket DEF ByBroca, BrocaStep
<1>5. ASSUME NEW c \in Brocas, c # b PROVE Good(c)'
  <2>1. /\ pc'[c] = pc[c] /\ header'[c] = header[c] /\ left'[c] = left[c]
        /\ heard'[c] = heard[c] /\ ring'[c] = ring[c] /\ (c \in failed' <=> c \in failed)
    BY <1>5 DEF IInv, Types, ByBroca, BrocaStep, Open, OpenFails, Loop, LoopEnds, CallbackEnds,
                ReadHeader, NoPacket, ReadData, WriteFails, TakeData, PacketOver, Aborts, GoTo
  <2> QED
    BY <1>2, <2>1, SameGood DEF IInv
<1> QED
  BY <1>1, <1>3, <1>4, <1>5 DEF IInv
-----------------------------------------------------------------------------
(* The encoder and the server.                                             *)

\* A step of the encoder that does not write to the sink.
LEMMA OtherSink ==
  ASSUME NEW c, Good(c), ring'[c] = ring[c],
         UNCHANGED <<brocaVars, terminating>>,
         encoder # "done" \/ UNCHANGED <<encoder, packets>>,
         GoesOn(c)'
  PROVE  Good(c)'
<1>1. Mark(c)' = Mark(c) /\ (Astray(c)' <=> Astray(c)) /\ (Finished(c)' <=> Finished(c))
  BY DEF Mark, Astray, Finished, Plays, brocaVars
<1>2. Reads(c)' /\ CountsUp(c)' /\ Line(c)' /\ InTurn(c)'
  BY <1>1 DEF Good, Reads, CountsUp, Line, InTurn, brocaVars
<1>3. EndsWell(c)'
  BY <1>1 DEF Good, EndsWell, brocaVars
<1> QED
  BY <1>2, <1>3 DEF Good

LEMMA SinkOf ==
  ASSUME Types
  PROVE  /\ at \in Nat /\ at >= 1 /\ at <= Len(Order) /\ Len(Order) \in Nat
         /\ Order[at] \in Brocas
         /\ \A j \in 1 .. Len(Order) : j \in Nat /\ (Order[j] = Order[at] => j = at)
<1>1. at \in 1 .. Len(Order) /\ Order \in Seq(Brocas)
  BY OrderAssumption DEF Types
<1>2. \A j \in 1 .. Len(Order) : j \in Nat /\ (Order[j] = Order[at] => j = at)
  BY <1>1, OrderAssumption
<1> QED
  BY <1>1, <1>2

\* The packet goes on to the next sink, which has got the one before it.
LEMMA NextSinkTypes ==
  ASSUME Types, Writing, encoder = "writing", NextSink(Whole(Head(out)))
  PROVE  /\ packets > 0 /\ packets \in Nat /\ RestOf(packets, out)
         /\ \/ /\ at' = at + 1 /\ encoder' = "writing" /\ at' \in 1 .. Len(Order)
               /\ RestOf(packets, out') /\ out'[1].at = 1
            \/ at' = at /\ encoder' = "idle" /\ at = Len(Order)
<1>1. packets > 0 /\ packets \in Nat /\ RestOf(packets, out)
  BY BoundAssumption DEF Writing, Types
<1>2. RestOf(packets, Whole(Head(out))) /\ Whole(Head(out))[1].at = 1
  BY <1>1, WholeIs
<1>3. CASE at < Len(Order)
  <2>1. at' = at + 1 /\ out' = Whole(Head(out)) /\ encoder' = encoder
    BY <1>3 DEF NextSink
  <2>2. at + 1 \in 1 .. Len(Order)
    BY <1>3, SinkOf
  <2> QED
    BY <1>1, <1>2, <2>1, <2>2
<1>4. CASE ~(at < Len(Order))
  <2>1. at' = at /\ encoder' = "idle"
    BY <1>4 DEF NextSink
  <2>2. at = Len(Order)
    BY <1>4, SinkOf
  <2> QED
    BY <1>1, <2>1, <2>2
<1> QED
  BY <1>3, <1>4

LEMMA PutGood ==
  ASSUME IInv, Put
  PROVE  IInv'
<1>0. PICK b \in Brocas : b = Order[at]
  BY SinkOf DEF IInv
<1> DEFINE n == Least(Len(out), Space(b))
           t == SubSeq(out, 1, n)
<1>1. /\ encoder = "writing" /\ ~closed[b] /\ n > 0
      /\ ring' = [ring EXCEPT ![b] = @ \o t]
      /\ IF n = Len(out) THEN NextSink(Whole(Head(out)))
         ELSE out' = SubSeq(out, n + 1, Len(out)) /\ UNCHANGED <<encoder, at>>
      /\ UNCHANGED <<closed, packets, brocaVars, terminating>>
  BY <1>0 DEF Put
<1>2. /\ Types /\ Writing /\ Closing /\ \A c \in Brocas : Good(c)
  BY DEF IInv
<1>3. /\ packets > 0 /\ packets \in Nat /\ RestOf(packets, out)
      /\ out \in Seq(Bytes) /\ Len(out) \in Nat
  BY <1>1, <1>2, BoundAssumption, SMTT(30) DEF Writing, Types, RestOf
<1>4. /\ b \in Brocas /\ ring[b] \in Seq(Bytes) /\ ring \in [Brocas -> Seq(Bytes)]
      /\ Len(ring[b]) \in Nat /\ Len(ring[b]) <= Size
  BY <1>2 DEF Types
<1>5. n \in 1 .. Len(out) /\ n <= Size - Len(ring[b])
  <2> DEFINE l == Len(out)
             r == Len(ring[b])
  <2>1. l \in Nat /\ r \in Nat /\ r <= Size /\ Size \in Nat
        /\ n = (IF l <= Size - r THEN l ELSE Size - r) /\ n > 0
    BY <1>1, <1>3, <1>4, Sizes DEF Least, Space
  <2> HIDE DEF l, r, n
  <2>2. n \in 1 .. l /\ n <= Size - r
    BY <2>1
  <2> QED
    BY <2>2 DEF l, r
<1> HIDE DEF n
<1>6. /\ t \in Seq(Bytes) /\ Len(t) = n
      /\ \A m : Follows(m, out[1]) => Chain(m, t) /\ Final(m, t) = out[n]
      /\ out[n].packet = packets /\ (n = Len(out) => IsLast(out[n]))
  BY <1>3, <1>5, PartOfRest
<1>7. /\ ring'[b] = ring[b] \o t /\ ring'[b] \in Seq(Bytes) /\ Len(ring'[b]) <= Size
      /\ \A c \in Brocas : c # b => ring'[c] = ring[c]
  <2> HIDE DEF t
  <2>1. ring'[b] = ring[b] \o t /\ \A c \in Brocas : c # b => ring'[c] = ring[c]
    BY <1>1, <1>4
  <2>2. ring[b] \o t \in Seq(Bytes) /\ Len(ring[b] \o t) = Len(ring[b]) + n
    BY <1>4, <1>6, ConcatProperties
  <2>3. Len(ring[b]) + n <= Size
    BY <1>4, <1>5, Sizes
  <2> QED
    BY <2>1, <2>2, <2>3
<1> HIDE DEF t
<1>8. /\ Mark(b)' = Mark(b)
      /\ \A c \in Brocas : Finished(c)' <=> Finished(c)
      /\ \A c \in Brocas : c # b => Tip(c)' = Tip(c)
  BY <1>1, <1>7 DEF Mark, Finished, Astray, Plays, Tip, brocaVars
<1>9. ~Finished(b) => /\ Follows(Tip(b), out[1])
                      /\ Chain(Mark(b), ring'[b]) /\ Tip(b)' = out[n]
  <2> SUFFICES ASSUME ~Finished(b)
               PROVE  /\ Follows(Tip(b), out[1])
                      /\ Chain(Mark(b), ring'[b]) /\ Tip(b)' = out[n]
    OBVIOUS
  <2>1. Follows(Tip(b), out[1])
    BY <1>0, <1>1, <1>2, SinkOf DEF Good, GoesOn, Types
  <2>2. Chain(Mark(b), ring[b])
    BY <1>2, <1>4 DEF Good, Line
  <2>3. Chain(Final(Mark(b), ring[b]), t) /\ Final(Final(Mark(b), ring[b]), t) = out[n]
    BY <1>6, <2>1 DEF Tip
  <2>4. Chain(Mark(b), ring[b] \o t) /\ Final(Mark(b), ring[b] \o t) = out[n]
    BY <1>4, <1>6, <2>2, <2>3, Longer
  <2> QED
    BY <1>7, <1>8, <2>1, <2>4 DEF Tip
<1>10. \/ /\ n = Len(out) /\ at' = at + 1 /\ encoder' = "writing" /\ at' \in 1 .. Len(Order)
          /\ RestOf(packets, out') /\ out'[1].at = 1
       \/ n = Len(out) /\ at' = at /\ encoder' = "idle" /\ at = Len(Order)
       \/ /\ at' = at /\ encoder' = "writing"
          /\ RestOf(packets, out') /\ Follows(out[n], out'[1])
  <2>1. CASE n = Len(out)
    BY <1>1, <1>2, <2>1, NextSinkTypes
  <2>2. CASE n # Len(out)
    <3>1. n \in 1 .. Len(out) - 1
      BY <1>3, <1>5, <2>2
    <3> QED
      BY <1>1, <1>3, <2>2, <3>1, RestOfRest
  <2> QED
    BY <2>1, <2>2
<1>11. ASSUME NEW j \in 1 .. Len(Order), Order[j] # b PROVE GoesOn(Order[j])'
  <2> DEFINE c == Order[j]
  <2>1. c \in Brocas /\ j \in Nat /\ j # at /\ at \in Nat /\ at <= Len(Order) /\ j <= Len(Order)
    BY <1>0, <1>2, <1>11, SinkOf, OrderAssumption, SMTT(30)
  <2>2. \A i \in 1 .. Len(Order) : Order[i] = c => i = j
    BY OrderAssumption
  <2> HIDE DEF c
  <2>3. SUFFICES ASSUME ~Finished(c), closed[c] => ~terminating
                 PROVE  IF encoder' = "writing" /\ j = at' THEN Follows(Tip(c), out'[1])
                        ELSE IsLast(Tip(c)) /\ Tip(c).packet = GotBy(j)'
    BY <1>1, <1>8, <1>11, <2>1, <2>2 DEF GoesOn, c
  <2>4. IsLast(Tip(c)) /\ Tip(c).packet = GotBy(j)
    BY <1>2, <2>1, <2>3 DEF Good, GoesOn, c
  <2>5. CASE at' = at + 1 /\ encoder' = "writing" /\ RestOf(packets, out') /\ out'[1].at = 1
    <3>1. CASE j = at + 1
      <4>1. Tip(c).packet = packets - 1 /\ out'[1].packet = packets
        BY <1>1, <2>1, <2>4, <2>5, <3>1 DEF GotBy, RestOf
      <4> QED
        BY <1>3, <2>4, <2>5, <3>1, <4>1 DEF Follows
    <3>2. CASE j # at + 1
      <4>1. GotBy(j)' = GotBy(j)
        <5>1. j > at <=> j > at + 1
          BY <2>1, <3>2
        <5> QED
          BY <1>1, <2>5, <5>1 DEF GotBy
      <4> QED
        BY <2>4, <2>5, <3>2, <4>1
    <3> QED
      BY <3>1, <3>2
  <2>6. CASE at' = at /\ encoder' = "idle" /\ at = Len(Order)
    <3>1. ~(j > at)
      BY <2>1, <2>6
    <3> QED
      BY <1>1, <2>4, <2>6, <3>1 DEF GotBy
  <2>7. CASE at' = at /\ encoder' = "writing"
    <3>1. GotBy(j)' = GotBy(j)
      BY <1>1, <2>7 DEF GotBy
    <3> QED
      BY <2>1, <2>4, <2>7, <3>1
  <2> QED
    BY <1>10, <2>5, <2>6, <2>7
<1>12. GoesOn(b)'
  <2>1. at \in Nat /\ at <= Len(Order) /\ \A j \in 1 .. Len(Order) : Order[j] = b => j = at
    BY <1>0, <1>2, SinkOf
  <2>2. SUFFICES ASSUME ~Finished(b)
                 PROVE  IF encoder' = "writing" /\ at = at' THEN Follows(out[n], out'[1])
                        ELSE IsLast(out[n]) /\ out[n].packet = packets
    <3>1. ASSUME NEW j \in 1 .. Len(Order), Order[j] = b, ~Finished(b)
          PROVE  IF encoder' = "writing" /\ j = at' THEN Follows(Tip(b)', out'[1])
                 ELSE IsLast(Tip(b)') /\ Tip(b)'.packet = GotBy(j)'
      <4>1. j = at
        BY <2>1, <3>1
      <4>2. Tip(b)' = out[n]
        BY <1>9, <3>1
      <4>3. IF encoder' = "writing" /\ at = at' THEN Follows(out[n], out'[1])
            ELSE IsLast(out[n]) /\ out[n].packet = packets
        BY <2>2, <3>1
      <4>4. GotBy(j)' = packets
        <5>1. ~(j > at')
          BY <1>10, <2>1, <4>1
        <5> QED
          BY <1>1, <5>1 DEF GotBy
      <4> QED
        BY <4>1, <4>2, <4>3, <4>4
    <3>2. Finished(b)' <=> Finished(b)
      BY <1>8
    <3> QED
      BY <3>1, <3>2 DEF GoesOn
  <2>3. CASE at' = at + 1 /\ encoder' = "writing" /\ n = Len(out)
    <3>1. at # at' /\ ~(at > at')
      BY <2>1, <2>3
    <3> QED
      BY <1>1, <1>6, <2>3, <3>1 DEF GotBy
  <2>4. CASE encoder' = "idle" /\ n = Len(out)
    BY <1>1, <1>6, <2>4 DEF GotBy
  <2> QED
    BY <1>10, <2>3, <2>4
<1>13. Good(b)' /\ \A c \in Brocas : c # b => Good(c)'
  <2>1. \A c \in Brocas : GoesOn(c)'
    <3>1. \A c \in Brocas : \E j \in 1 .. Len(Order) : Order[j] = c
      BY OrderAssumption
    <3> QED
      BY <1>11, <1>12, <3>1
  <2>2. \A c \in Brocas : c # b => Good(c)'
    BY <1>1, <1>2, <1>7, <2>1, OtherSink
  <2>3. Line(b)'
    BY <1>8, <1>9 DEF Line
  <2>4. (Astray(b)' <=> Astray(b)) /\ (Finished(b)' <=> Finished(b))
    BY <1>1, <1>8 DEF Astray, brocaVars
  <2>5. Reads(b)' /\ CountsUp(b)' /\ InTurn(b)'
    BY <1>1, <1>2, <2>4 DEF Good, Reads, CountsUp, InTurn, brocaVars
  <2>6. EndsWell(b)'
    BY <1>1, <1>2, <2>4 DEF Good, EndsWell, brocaVars
  <2> QED
    BY <2>1, <2>2, <2>3, <2>5, <2>6 DEF Good
<1>14. Types'
  <2>1. ring' \in [Brocas -> Seq(Bytes)] /\ \A c \in Brocas : Len(ring'[c]) <= Size
    BY <1>1, <1>2, <1>4, <1>7 DEF Types
  <2>2. encoder' \in {"idle", "writing", "done"} /\ at' \in 1 .. Len(Order)
    BY <1>2, <1>10 DEF Types
  <2> QED
    BY <1>1, <1>2, <2>1, <2>2 DEF Types, brocaVars
<1>15. Writing' /\ Closing'
  BY <1>1, <1>2, <1>3, <1>10 DEF Writing, Closing
<1> QED
  BY <1>13, <1>14, <1>15 DEF IInv
LEMMA MakeGood ==
  ASSUME IInv, NEW k \in Kinds, NEW size \in DataSizes, MakePacket(k, size)
  PROVE  IInv'
<1>1. /\ encoder = "idle" /\ packets < MaxPackets /\ packets' = packets + 1
      /\ out' = Packet(packets + 1, k, size) /\ at' = 1 /\ encoder' = "writing"
      /\ UNCHANGED <<ring, closed, brocaVars, terminating>>
  BY DEF MakePacket
<1>2. Types /\ Closing /\ \A c \in Brocas : Good(c)
  BY DEF IInv
<1>3. packets \in Nat /\ packets' \in Nat /\ packets' > 0 /\ packets' - 1 = packets
      /\ packets' \in 0 .. MaxPackets /\ size \in Nat
  <2>1. packets \in 0 .. MaxPackets /\ MaxPackets \in Nat /\ DataSizes \subseteq Nat
    BY <1>2, BoundAssumption DEF Types
  <2> QED
    BY <1>1, <2>1
<1>4. RestOf(packets', out') /\ out'[1].at = 1 /\ out'[1].packet = packets + 1
  <2>1. packets + 1 \in Nat
    BY <1>3
  <2>2. RestOf(packets + 1, out') /\ out'[1].at = 1
    BY <1>1, <1>3, <2>1, PacketIs
  <2> QED
    BY <1>1, <2>2 DEF RestOf
<1>5. 1 \in 1 .. Len(Order)
  BY <1>2, SinkOf
<1>6. Types' /\ Writing' /\ Closing'
  BY <1>1, <1>2, <1>3, <1>4, <1>5 DEF Types, Writing, Closing, brocaVars
<1>7. ASSUME NEW c \in Brocas PROVE Good(c)'
  <2>1. Tip(c)' = Tip(c) /\ (Finished(c)' <=> Finished(c))
    BY <1>1 DEF Tip, Mark, Finished, Astray, Plays, brocaVars
  <2>2. ASSUME NEW j \in 1 .. Len(Order), Order[j] = c, ~Finished(c), closed[c] => ~terminating
        PROVE  IF encoder' = "writing" /\ j = at' THEN Follows(Tip(c), out'[1])
               ELSE IsLast(Tip(c)) /\ Tip(c).packet = GotBy(j)'
    <3>1. IsLast(Tip(c)) /\ Tip(c).packet = packets
      BY <1>1, <1>2, <2>2 DEF Good, GoesOn, GotBy
    <3>2. j = 1 => Follows(Tip(c), out'[1])
      BY <1>4, <3>1 DEF Follows
    <3>3. j # 1 => GotBy(j)' = packets
      <4>1. j # 1 => j > 1
        BY <1>2, SinkOf
      <4> QED
        BY <1>1, <1>3, <4>1 DEF GotBy
    <3> QED
      BY <1>1, <3>1, <3>2, <3>3
  <2>3. GoesOn(c)'
    BY <1>1, <2>1, <2>2 DEF GoesOn
  <2> QED
    BY <1>1, <1>2, <2>3, OtherSink
<1> QED
  BY <1>6, <1>7 DEF IInv

\* Nothing is written to a closed sink: only a signal closes it so early.
LEMMA PutNothingGood ==
  ASSUME IInv, PutNothing
  PROVE  IInv'
<1>1. /\ encoder = "writing" /\ closed[Order[at]] /\ NextSink(Whole(Head(out)))
      /\ UNCHANGED <<ring, closed, packets, brocaVars, terminating>>
  BY DEF PutNothing
<1>2. Types /\ Writing /\ Closing /\ \A c \in Brocas : Good(c)
  BY DEF IInv
<1>3. terminating /\ \A c \in Brocas : closed[c]
  BY <1>1, <1>2, SinkOf DEF Closing
<1>4. /\ packets > 0
      /\ \/ encoder' = "writing" /\ at' \in 1 .. Len(Order) /\ RestOf(packets, out')
         \/ at' = at /\ encoder' = "idle"
  BY <1>1, <1>2, NextSinkTypes
<1>5. Types'
  <2>1. encoder' \in {"idle", "writing", "done"} /\ at' \in 1 .. Len(Order)
    BY <1>2, <1>4 DEF Types
  <2> QED
    BY <1>1, <1>2, <2>1 DEF Types, brocaVars
<1>6. Writing' /\ Closing'
  BY <1>1, <1>2, <1>3, <1>4 DEF Writing, Closing
<1>7. ASSUME NEW c \in Brocas PROVE Good(c)'
  <2>1. GoesOn(c)'
    BY <1>1, <1>3 DEF GoesOn
  <2> QED
    BY <1>1, <1>2, <2>1, OtherSink
<1> QED
  BY <1>5, <1>6, <1>7 DEF IInv

LEMMA EncoderEndsGood ==
  ASSUME IInv, EncoderEnds
  PROVE  IInv'
<1>1. /\ encoder = "idle" /\ encoder' = "done" /\ closed' = [b \in Brocas |-> TRUE]
      /\ UNCHANGED <<ring, at, out, packets, brocaVars, terminating>>
  BY DEF EncoderEnds
<1>2. Types /\ Closing /\ \A c \in Brocas : Good(c)
  BY DEF IInv
<1>3. Types' /\ Writing' /\ Closing'
  BY <1>1, <1>2 DEF Types, Writing, Closing, brocaVars
<1>4. ASSUME NEW c \in Brocas PROVE Good(c)'
  <2>1. Tip(c)' = Tip(c) /\ (Finished(c)' <=> Finished(c))
    BY <1>1 DEF Tip, Mark, Finished, Astray, Plays, brocaVars
  <2>2. closed'[c] /\ \A j : GotBy(j)' = GotBy(j)
    BY <1>1 DEF GotBy
  <2>3. GoesOn(c)'
    BY <1>1, <1>2, <2>1, <2>2 DEF Good, GoesOn
  <2> QED
    BY <1>1, <1>2, <2>3, OtherSink
<1> QED
  BY <1>3, <1>4 DEF IInv

LEMMA ServerGood ==
  ASSUME IInv, Terminate \/ Quit
  PROVE  IInv'
<1>1. /\ terminating' /\ UNCHANGED <<ring, encoderVars, brocaVars>>
      /\ closed' = closed \/ (terminating /\ closed' = [b \in Brocas |-> TRUE])
  BY DEF Terminate, Quit
<1>2. Types /\ Writing /\ Closing /\ \A c \in Brocas : Good(c)
  BY DEF IInv
<1>3. Types' /\ Writing' /\ Closing'
  <2>1. terminating' \in BOOLEAN
    BY <1>2 DEF Types, Terminate, Quit
  <2> QED
    BY <1>1, <1>2, <2>1 DEF Types, Writing, Closing, brocaVars, encoderVars
<1>4. ASSUME NEW c \in Brocas PROVE Good(c)'
  <2>1. /\ Mark(c)' = Mark(c) /\ Tip(c)' = Tip(c) /\ (Astray(c)' <=> Astray(c))
        /\ Finished(c) => Finished(c)'
    BY <1>1 DEF Tip, Mark, Finished, Astray, Plays, brocaVars
  <2>2. Reads(c)' /\ CountsUp(c)' /\ InTurn(c)'
    BY <1>1, <1>2, <2>1 DEF Good, Reads, CountsUp, InTurn, brocaVars
  <2>3. Line(c)' /\ EndsWell(c)'
    BY <1>1, <1>2, <2>1 DEF Good, Line, EndsWell
  <2>4. GoesOn(c)'
    <3>1. closed'[c] => terminating'
      BY <1>1
    <3>2. \A j : GotBy(j)' = GotBy(j)
      BY <1>1 DEF GotBy, encoderVars
    <3>3. ~closed'[c] => ~closed[c]
      BY <1>1
    <3> QED
      BY <1>1, <1>2, <2>1, <3>1, <3>2, <3>3 DEF Good, GoesOn, encoderVars
  <2> QED
    BY <2>2, <2>3, <2>4 DEF Good
<1> QED
  BY <1>3, <1>4 DEF IInv

-----------------------------------------------------------------------------
(* Theorems.                                                               *)

LEMMA IInvInit == Init => IInv
<1> SUFFICES ASSUME Init PROVE IInv
  OBVIOUS
<1>1. /\ Kind \in Outputs
      /\ ring = [b \in Brocas |-> <<>>] /\ closed = [b \in Brocas |-> FALSE]
      /\ encoder = "idle" /\ at = 1 /\ packets = 0
      /\ pc = [b \in Brocas |-> IF Kind[b] \in {"shout", "portaudio"} THEN "open" ELSE "top"]
      /\ header = [b \in Brocas |-> <<>>]
      /\ left = [b \in Brocas |-> 0] /\ want = [b \in Brocas |-> 0]
      /\ heard = [b \in Brocas |-> <<>>] /\ failed = {}
      /\ terminating = FALSE
  BY DEF Init
<1>2. Types
  <2>1. <<>> \in Seq(Bytes) /\ <<>> \in Seq(Nat) /\ Len(<<>>) = 0
    OBVIOUS
  <2>2. 1 \in 1 .. Len(Order) /\ 0 \in 0 .. MaxPackets /\ 0 \in 0 .. CallbackSize
    BY OrderAssumption, BoundAssumption, Sizes
  <2>3. pc \in [Brocas -> Steps]
    BY <1>1 DEF Steps
  <2>4. ring \in [Brocas -> Seq(Bytes)] /\ header \in [Brocas -> Seq(Bytes)]
        /\ heard \in [Brocas -> Seq(Nat)]
        /\ \A b \in Brocas : Len(ring[b]) <= Size /\ Len(header[b]) <= HeaderSize
    BY <1>1, <2>1, Sizes
  <2> QED
    BY <1>1, <2>2, <2>3, <2>4 DEF Types
<1>3. Writing /\ Closing
  BY <1>1 DEF Writing, Closing
<1>4. ASSUME NEW b \in Brocas PROVE Good(b)
  <2>1. pc[b] \in {"open", "top"} /\ ring[b] = <<>> /\ heard[b] = <<>> /\ Len(<<>>) = 0
    BY <1>1
  <2>2. Mark(b) = Start(0) /\ Tip(b) = Start(0)
    BY <2>1 DEF Mark, Tip, Final
  <2>3. Reads(b) /\ InTurn(b) /\ Line(b) /\ EndsWell(b)
    BY <1>1, <2>1 DEF Reads, InTurn, Line, EndsWell, Chain
  <2>4. CountsUp(b)
    BY <2>1 DEF CountsUp
  <2>5. GoesOn(b)
    BY <1>1, <2>2, Starts DEF GoesOn, GotBy
  <2> QED
    BY <2>3, <2>4, <2>5 DEF Good
<1> QED
  BY <1>2, <1>3, <1>4 DEF IInv

LEMMA IInvStep == IInv /\ [Next]_vars => IInv'
<1> SUFFICES ASSUME IInv, [Next]_vars PROVE IInv'
  OBVIOUS
<1>1. CASE \E k \in Kinds, size \in DataSizes : MakePacket(k, size)
  BY <1>1, MakeGood
<1>2. CASE EncoderStep \/ EncoderEnds
  BY <1>2, PutGood, PutNothingGood, EncoderEndsGood DEF EncoderStep
<1>3. CASE \E b \in Brocas : BrocaStep(b) \/ WriteFails(b) \/ OpenFails(b)
  BY <1>3, BrocaStepGood DEF ByBroca
<1>4. CASE Terminate \/ Quit
  BY <1>4, ServerGood
<1>5. CASE UNCHANGED vars
  <2>1. UNCHANGED <<ring, closed, encoderVars, brocaVars, terminating>>
    BY <1>5 DEF vars
  <2>2. Types' /\ Writing' /\ Closing'
    BY <2>1 DEF IInv, Types, Writing, Closing, encoderVars, brocaVars
  <2>3. \A c \in Brocas : Good(c)'
    BY <2>1, SameGood DEF IInv, brocaVars
  <2> QED
    BY <2>2, <2>3 DEF IInv
<1> QED
  BY <1>1, <1>2, <1>3, <1>4, <1>5 DEF Next

LEMMA Invariance == Spec => []IInv
<1> QED
  BY IInvInit, IInvStep, PTL DEF Spec

\* readPacket() finds a header wherever it looks for one, and a command is cut
\* off only by a signal (PacketRingBuffer, BaseEncoder::packet and the loops of
\* the brocas).  The hypothesis says that libshout is able to send: the Shout
\* broca does go on in the middle of a packet after it was not.
THEOREM PacketsFramed ==
  ASSUME "shout" \notin Failing
  PROVE  Spec => []Framed
<1>1. IInv => Framed
  <2> SUFFICES ASSUME IInv PROVE Framed
    OBVIOUS
  <2>1. ASSUME NEW b \in Brocas PROVE ~Astray(b) /\ Good(b)
    BY <2>1 DEF IInv, Good, Reads, Astray
  <2>2. \A b \in Brocas : pc[b] # "lost" /\ (pc[b] = "aborted" => terminating)
    <3> SUFFICES ASSUME NEW b \in Brocas
                 PROVE  pc[b] # "lost" /\ (pc[b] = "aborted" => terminating)
      OBVIOUS
    <3>1. pc[b] = "lost" => ~Finished(b)
      BY <2>1 DEF Finished
    <3> QED
      BY <2>1, <3>1 DEF Good, InTurn, EndsWell
  <2>3. TypeOK
    <3>1. encoder = "writing" => out # <<>>
      BY DEF IInv, Writing, RestOf
    <3>2. \A b \in Brocas : pc[b] = "data" => left[b] <= header[b][1].size
      BY <2>1 DEF Good, Reads
    <3> QED
      BY <3>1, <3>2 DEF IInv, Types, TypeOK
  <2> QED
    BY <2>2, <2>3 DEF Framed
<1> QED
  BY <1>1, Invariance, PTL

\* However a full ring tears the packets, and whichever writes fail: a broca
\* that could write what it got and ends although no signal came has read every
\* packet that the encoder made, in order (EncoderEnds closes the sinks only
\* after the last packet, and a closed sink is drained before its broca ends).
THEOREM PacketsHeard == Spec => []EveryPacketHeard
<1>1. IInv => EveryPacketHeard
  <2> SUFFICES ASSUME IInv, NEW b \in Brocas \ failed, pc[b] = "done", ~terminating
               PROVE  encoder = "done" /\ heard[b] = [i \in 1 .. packets |-> i]
    BY DEF EveryPacketHeard
  <2>1. ~Astray(b) /\ Good(b)
    BY DEF IInv, Astray
  <2> QED
    BY <2>1 DEF Good, EndsWell, CountsUp
<1> QED
  BY <1>1, Invariance, PTL
=============================================================================
