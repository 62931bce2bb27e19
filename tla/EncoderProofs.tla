---------------------------- MODULE EncoderProofs ----------------------------
(***************************************************************************)
(* Proofs about what an encoder does on its own and with the others: what  *)
(* becomes of the sound of its tracks in every format (TrackFormats), and  *)
(* where it waits for the others at a track change (Barrier).              *)
(*                                                                         *)
(* Over a track the frames are in one of four places, the block that was   *)
(* read, the codec or resampler, pcm_ and the stream; of the stream, the   *)
(* pages and the packets that wait for one reach up to the granule         *)
(* position; and the last packet is the one that ends the stream.          *)
(***************************************************************************)
EXTENDS TrackFormats, Barrier, TLAPS, FiniteSetTheorems, SequenceTheorems

\* Where the thread is: between the headers' making and init_, behind the last
\* packet of a track, in run() or at the head of endTrack, where the track is encoded.
Header  == pc = "begin" \/ (pc = "flushing" /\ next = "begin")
Closing == pc = "ended" \/ (pc = "flushing" /\ next = "ended")
Between == {"top", "change", "block", "leave", "ending"}
Within  == {"feeding", "paging", "draining", "padding", "final", "blocks"}

\* The track has a stream.
Opened == stream # "none" \/ pending # <<>>

\* Where the packets of the stream end, and do they end the stream?
LastPosition == IF pending = <<>> THEN lastGranule ELSE pending[Len(pending)].granule
Ends         == IF pending = <<>> THEN stream = "ended" ELSE pending[Len(pending)].eos

\* No signal and no failure so far.
Whole == running /\ ~failed

\* The position that the stream has reached with all that its codec was given.
Given == granuleIndex + (IF format = "vorbis" THEN held ELSE 0)

\* No packet that waits ends the stream; none is behind a position or too large.
Quiet     == \A i \in DOMAIN pending : ~pending[i].eos
Behind(g) == lastGranule <= g /\ \A i \in DOMAIN pending : pending[i].granule <= g /\ ~pending[i].wide

-----------------------------------------------------------------------------
\* Nothing is counted that was not read.
Bounds ==
  /\ held + input <= frames
  /\ fed <= Lookahead + frames
  /\ granuleIndex + input <= Lookahead + 2 * frames
  /\ format \in Ogg => granuleIndex + pcmIndex + held + input <= Lookahead + frames

Ranges == TypeOK /\ Bounds

\* Where the thread of each format can be.
Places ==
  /\ pc \in {"draining", "padding", "final"} => format = "opus"
  /\ pc = "blocks" => format = "vorbis"
  /\ pc = "paging" => \/ format = "opus" /\ next \in {"feeding", "draining", "final"}
                      \/ format = "vorbis" /\ next = "blocks"
  /\ pc = "flushing" => format \in Ogg /\ next \in {"begin", "ended"}
  /\ pc = "begin" => format \in Ogg
  /\ pc \in {"feeding", "ended"} => format # "pcm"
  /\ input > 0 => pc = "feeding" \/ (pc = "paging" /\ next = "feeding")
  /\ format = "opus" /\ passThrough => held = 0
  /\ format # "opus" => pcmIndex = 0

\* A track is encoded only once it was started, unless encoding failed.
Started ==
  /\ pc \in {"start", "done"} \/ Header => ~init
  /\ pc \in Within => init \/ failed
  /\ format \in Ogg /\ Closing => init \/ failed
  /\ ~track => ~init /\ pc \in {"top", "change", "block", "leave", "done"}
  /\ format = "pcm" => ~init
  /\ format \in {"vorbis", "pcm"} => ~failed

\* There are packets only in the stream of a track that was started, and none
\* wait once they were flushed.
Streams ==
  /\ format \notin Ogg => pending = <<>>
  /\ format \in {"mp3", "pcm"} => stream = "none"
  /\ pc \in {"begin", "ended"} => pending = <<>>
  /\ format \in Ogg /\ (init \/ Header \/ pc \in Within) => Opened
  /\ format \in Ogg /\ ~failed /\ ~init /\ pc \in Between => ~Opened

\* The pages reach up to lastGranule, and with the packets up to granuleIndex.
Covered ==
  /\ announced = lastGranule
  /\ granulesInPage = Wrap(Given - lastGranule)
  /\ LastPosition = granuleIndex
  /\ Header \/ Behind(granuleIndex)

Granules == format \in Ogg /\ Opened => Covered

\* The frames of the track are in the stream, in pcm_, held back or still to be read.
Sums ==
  /\ format \in Ogg /\ Header => granuleIndex = 0 /\ fed = 0
  /\ format \in Ogg /\ ~Opened => announced = 0 /\ fed = 0
  /\ format = "opus" /\ Opened /\ ~Header /\ Whole =>
       fed = granuleIndex + pcmIndex + held + input
  /\ format = "vorbis" /\ Opened /\ Whole => fed = granuleIndex + held + input
  /\ format = "pcm" => announced = Wrap(fed)

\* At the end of a track nothing is left but in the stream.
Drains == ~init \/ Closing \/ pc \in {"padding", "final"} \/ (pc = "paging" /\ next = "final")

Drained ==
  /\ format = "opus" /\ Whole /\ Drains => held = 0 /\ (pc # "padding" => pcmIndex = 0)
  /\ format = "vorbis" /\ (codec = "ended" \/ (running /\ ~init)) => held = 0
  /\ format \in {"mp3", "flac"} /\ ~failed /\ (~init \/ pc = "ended") => held = 0
  /\ format = "flac" /\ ~failed /\ (~init \/ pc = "ended") => stream # "begun"
  /\ format = "pcm" => held = 0

\* The codec of Vorbis is open for a track and ended at its end.
Codec ==
  format = "vorbis" =>
    /\ init /\ pc \in Between \cup {"feeding"} => codec = "open"
    /\ Header => codec = "open"
    /\ running /\ Closing => codec = "ended"
    /\ codec # "failed"

\* The last packet ends the stream, and no other does.
StreamEnds ==
  /\ format = "opus" /\ Closing => Ends
  /\ format = "vorbis" /\ init /\ codec = "ended" => Ends
  /\ format \in Ogg /\ ~failed /\ track /\ pc \in {"start", "done"} =>
       pending = <<>> /\ (stream = "begun" => format = "vorbis" /\ ~running)
  /\ init /\ ((format = "opus" /\ ~Closing) \/ (format = "vorbis" /\ codec # "ended")) =>
       ~endOfStream /\ Quiet

\* Less than a page waits whenever pcmBlock may return.
Near ==
  format \in Ogg /\ init /\ running /\ (format = "vorbis" => codec = "open")
  /\ pc \in {"top", "change", "block", "feeding", "blocks"}
    => granuleIndex - lastGranule < Threshold

FormatInv == Ranges /\ Places /\ Started /\ Streams /\ Granules /\ Sums /\ Drained /\ Codec
             /\ StreamEnds /\ Near

-----------------------------------------------------------------------------
(* Arithmetic modulo Width.                                                *)

LEMMA Sizes ==
  /\ Block \in Nat \ {0} /\ Lookahead \in 0 .. Block - 1 /\ Threshold \in Nat \ {0}
  /\ MaxFrames \in Nat /\ MaxTracks \in Nat /\ MaxHeld \in Nat
  /\ Width \in Nat /\ Width > MaxFrames + Block
  /\ BlockSizes \subseteq Nat \ {0}
  BY SizeAssumption, WidthAssumption

\* Numbers that differ by a multiple of Width are the same after Wrap.
LEMMA WrapMultiple ==
  ASSUME NEW a \in Int, NEW b \in Int, NEW k \in Int, a = b + Width * k
  PROVE  Wrap(a) = Wrap(b)
<1> DEFINE p == a \div Width
           q == b \div Width
           r == a % Width
           s == b % Width
<1>1. Width \in Nat \ {0}
  BY Sizes
<1>2. /\ p \in Int /\ q \in Int /\ r \in 0 .. Width - 1 /\ s \in 0 .. Width - 1
      /\ a = Width * p + r /\ b = Width * q + s
  BY <1>1
<1> HIDE DEF p, q, r, s
<1> DEFINE m == q + k - p
<1>3. m \in Int
  BY <1>2
<1>4. Width * m = Width * q + Width * k - Width * p
  BY <1>1, <1>2
<1>5. Width * m = r - s
  BY <1>1, <1>2, <1>4
<1> HIDE DEF m
<1>6. ~(m >= 1)
  <2> SUFFICES ASSUME m >= 1 PROVE FALSE
    OBVIOUS
  <2>1. Width * m >= Width
    BY <1>1, <1>3
  <2> QED
    BY <1>1, <1>2, <1>5, <2>1
<1>7. ~(m <= -1)
  <2> SUFFICES ASSUME m <= -1 PROVE FALSE
    OBVIOUS
  <2>1. Width * m <= -Width
    BY <1>1, <1>3
  <2> QED
    BY <1>1, <1>2, <1>5, <2>1
<1>8. m = 0
  BY <1>3, <1>6, <1>7
<1>9. r = s
  BY <1>1, <1>2, <1>5, <1>8
<1> QED
  BY <1>9 DEF Wrap, r, s

\* Wrap is a remainder, and leaves alone what is in range.
LEMMA WrapRange ==
  ASSUME NEW a \in Int
  PROVE  /\ Wrap(a) \in 0 .. Width - 1
         /\ \E k \in Int : a = Wrap(a) + Width * k
<1>1. Width \in Nat \ {0}
  BY Sizes
<1>2. /\ a % Width \in 0 .. Width - 1 /\ a \div Width \in Int
      /\ a = (a % Width) + Width * (a \div Width)
  BY <1>1
<1> QED
  BY <1>2 DEF Wrap

LEMMA WrapSmall ==
  ASSUME NEW a \in 0 .. Width - 1
  PROVE  Wrap(a) = a
  BY Sizes DEF Wrap

\* So it need only be applied at the end.
LEMMA WrapSum ==
  ASSUME NEW a \in Int, NEW b \in Int
  PROVE  Wrap(Wrap(a) + Wrap(b)) = Wrap(a + b) /\ Wrap(Wrap(a) - Wrap(b)) = Wrap(a - b)
<1>1. PICK k \in Int : a = Wrap(a) + Width * k
  BY WrapRange
<1>2. PICK l \in Int : b = Wrap(b) + Width * l
  BY WrapRange
<1> DEFINE x == Wrap(a)
           y == Wrap(b)
<1>3. x \in Int /\ y \in Int /\ Width \in Int
  BY WrapRange, Sizes
<1>4. a = x + Width * k /\ b = y + Width * l
  BY <1>1, <1>2
<1> HIDE DEF x, y
<1>5. a + b = (x + y) + Width * (k + l) /\ a - b = (x - y) + Width * (k - l)
  BY <1>3, <1>4
<1>6. x + y \in Int /\ x - y \in Int /\ k + l \in Int /\ k - l \in Int /\ a + b \in Int /\ a - b \in Int
  BY <1>3
<1>7. Wrap(a + b) = Wrap(x + y)
  BY <1>5, <1>6, WrapMultiple
<1>8. Wrap(a - b) = Wrap(x - y)
  BY <1>5, <1>6, WrapMultiple
<1> QED
  BY <1>7, <1>8 DEF x, y

-----------------------------------------------------------------------------
(* The stream: a packet is added behind, and a page takes some in front.   *)

Packets == [granule : 0 .. Lookahead + MaxFrames, eos : BOOLEAN, wide : BOOLEAN]

\* Types of what a page changes.
StreamTypes ==
  /\ pending \in Seq(Packets)
  /\ granulesInPage \in 0 .. Width - 1 /\ lastGranule \in 0 .. Width - 1
  /\ announced \in 0 .. Width - 1
  /\ endOfStream \in BOOLEAN /\ stream \in {"none", "begun", "ended"}

\* The rest of a page has the last packet with its position, and no packet that was
\* not there; the page has the position of one of them, or none.
PageOf(p) ==
  /\ p.rest \in Seq(Packets) /\ p.eos \in BOOLEAN /\ p.granule \in 0 .. Width - 1
  /\ p.rest = <<>> => p.granule = pending[Len(pending)].granule /\ p.eos = pending[Len(pending)].eos
  /\ p.rest # <<>> => /\ p.rest[Len(p.rest)].granule = pending[Len(pending)].granule
                      /\ p.rest[Len(p.rest)].eos = pending[Len(pending)].eos
  /\ \A i \in DOMAIN p.rest : \E j \in DOMAIN pending :
       /\ p.rest[i].granule = pending[j].granule /\ p.rest[i].eos = pending[j].eos
       /\ p.rest[i].wide => pending[j].wide
  /\ \/ \E j \in DOMAIN pending : p.granule = pending[j].granule /\ p.eos = pending[j].eos
     \/ ~p.eos /\ \E j \in DOMAIN pending : pending[j].wide

LEMMA RestOfPage ==
  ASSUME pending \in Seq(Packets), NEW k \in DOMAIN pending
  PROVE  PageOf(Page(k))
<1> DEFINE n == Len(pending)
           p == Page(k)
<1>1. /\ n \in Nat \ {0} /\ k \in 1 .. n /\ DOMAIN pending = 1 .. n /\ pending # <<>>
      /\ \A i \in 1 .. n : pending[i] \in Packets
  BY LenProperties
<1>2. \A x \in Packets : x.granule \in 0 .. Width - 1 /\ x.eos \in BOOLEAN /\ x.wide \in BOOLEAN
  BY Sizes DEF Packets
<1>3. Wrap(-1) \in 0 .. Width - 1
  <2>1. -1 \in Int
    OBVIOUS
  <2> QED
    BY <2>1, WrapRange
<1>4. CASE ~Head(pending).wide
  <2> DEFINE rest == SubSeq(pending, k + 1, n)
  <2>1. /\ rest \in Seq(Packets) /\ Len(rest) = n - k
        /\ \A i \in 1 .. n - k : rest[i] = pending[k + i]
    <3>1. \A i \in k + 1 .. n : pending[i] \in Packets
      BY <1>1
    <3>2. k + 1 \in Int /\ n \in Int
      BY <1>1
    <3>3. /\ rest \in Seq(Packets)
          /\ Len(rest) = IF k + 1 <= n THEN n - (k + 1) + 1 ELSE 0
          /\ \A i \in 1 .. n - (k + 1) + 1 : rest[i] = pending[(k + 1) + i - 1]
      BY <3>1, <3>2, SubSeqProperties
    <3> HIDE DEF rest
    <3>4. Len(rest) = n - k
      BY <1>1, <3>3
    <3>5. ASSUME NEW i \in 1 .. n - k PROVE rest[i] = pending[k + i]
      <4>1. i \in 1 .. n - (k + 1) + 1 /\ (k + 1) + i - 1 = k + i
        BY <1>1
      <4> QED
        BY <3>3, <4>1
    <3> QED
      BY <3>3, <3>4, <3>5
  <2> HIDE DEF rest
  <2>2. p = [granule |-> pending[k].granule, eos |-> pending[k].eos, rest |-> rest]
    BY <1>4 DEF Page, rest
  <2> HIDE DEF p
  <2>3. p.granule = pending[k].granule /\ p.eos = pending[k].eos /\ p.rest = rest
    BY <2>2
  <2>4. DOMAIN rest = 1 .. n - k /\ (rest = <<>> <=> k = n)
    BY <1>1, <2>1, LenProperties, EmptySeq
  <2>5. \A i \in 1 .. n - k : k + i \in 1 .. n
    BY <1>1
  <2>6. p.rest = <<>> => p.granule = pending[n].granule /\ p.eos = pending[n].eos
    BY <2>3, <2>4
  <2>7. p.rest # <<>> => p.rest[Len(p.rest)] = pending[n]
    BY <1>1, <2>1, <2>3, <2>4
  <2>8. \A i \in DOMAIN p.rest : k + i \in DOMAIN pending /\ p.rest[i] = pending[k + i]
    BY <1>1, <2>1, <2>3, <2>4, <2>5
  <2>9. p.granule \in 0 .. Width - 1 /\ p.eos \in BOOLEAN
    BY <1>1, <1>2, <2>3
  <2> HIDE DEF n
  <2>10. PageOf(p)
    BY <1>1, <2>1, <2>3, <2>6, <2>7, <2>8, <2>9 DEF PageOf, n
  <2> QED
    BY <2>10 DEF p
<1>5. CASE Head(pending).wide
  <2> DEFINE first == [Head(pending) EXCEPT !.wide = FALSE]
             rest  == <<first>> \o Tail(pending)
  <2>1. Head(pending) = pending[1] /\ pending[1] \in Packets
    BY <1>1
  <2>2. /\ first \in Packets /\ first.granule = pending[1].granule /\ first.eos = pending[1].eos
        /\ first.wide = FALSE
    BY <2>1 DEF Packets
  <2>3. /\ Tail(pending) \in Seq(Packets) /\ Len(Tail(pending)) = n - 1
        /\ \A i \in 1 .. n - 1 : Tail(pending)[i] = pending[i + 1]
    BY <1>1, HeadTailProperties
  <2> HIDE DEF first
  <2>4. /\ rest \in Seq(Packets) /\ Len(rest) = n /\ rest[1] = first
        /\ \A i \in 2 .. n : rest[i] = pending[i]
    BY <1>1, <2>2, <2>3
  <2> HIDE DEF rest
  <2>5. p = [granule |-> Wrap(-1), eos |-> FALSE, rest |-> rest]
    BY <1>5 DEF Page, rest, first
  <2> HIDE DEF p
  <2>6. p.granule = Wrap(-1) /\ p.eos = FALSE /\ p.rest = rest
    BY <2>5
  <2>7. DOMAIN rest = 1 .. n /\ rest # <<>>
    BY <1>1, <2>4, LenProperties
  <2>8. \A i \in 1 .. n : /\ rest[i].granule = pending[i].granule /\ rest[i].eos = pending[i].eos
                          /\ rest[i].wide => pending[i].wide
    BY <1>1, <2>2, <2>4
  <2>9. pending[1].wide /\ 1 \in 1 .. n /\ n \in 1 .. n
    BY <1>1, <1>5, <2>1
  <2>10. PageOf(p)
    BY <1>1, <1>3, <2>4, <2>6, <2>7, <2>8, <2>9 DEF PageOf
  <2> QED
    BY <2>10 DEF p
<1> QED
  BY <1>4, <1>5

\* A page leaves where the packets end, and whether the last ends the stream; with
\* it the announced frames reach where the pages do, and fewer frames wait.
PageSent ==
  /\ StreamTypes' /\ Opened /\ Opened'
  /\ LastPosition' = LastPosition /\ (Ends' <=> Ends)
  /\ announced = lastGranule => announced' = lastGranule'
  /\ \A x \in Int : granulesInPage = Wrap(x - lastGranule) => granulesInPage' = Wrap(x - lastGranule')
  /\ Quiet => ~endOfStream' /\ Quiet'
  /\ \A g \in Nat : Behind(g) => Behind(g)'

LEMMA PushPageSends ==
  ASSUME StreamTypes, NEW k \in DOMAIN pending, PushPage(Page(k))
  PROVE  PageSent
<1> DEFINE p == Page(k)
           last == pending[Len(pending)]
<1>1. /\ lastGranule' = p.granule /\ endOfStream' = p.eos /\ pending' = p.rest
      /\ stream' = IF p.eos THEN "ended" ELSE "begun"
      /\ granulesInPage' = Wrap(granulesInPage - Wrap(p.granule - lastGranule))
      /\ announced' = Wrap(announced + Wrap(p.granule - lastGranule))
  BY DEF PushPage, Announce
<1>2. PageOf(p)
  BY RestOfPage DEF StreamTypes
<1> USE DEF PageOf
<1> HIDE DEF p
<1>3. pending # <<>> /\ lastGranule \in Int /\ announced \in Int /\ granulesInPage \in Int /\ Width \in Int
  BY Sizes, LenProperties DEF StreamTypes
<1>4. StreamTypes'
  <2> DEFINE d == Wrap(p.granule - lastGranule)
  <2>1. p.granule - lastGranule \in Int
    BY <1>2, <1>3
  <2>2. d \in Int
    BY <2>1, WrapRange
  <2> HIDE DEF d
  <2>3. granulesInPage - d \in Int /\ announced + d \in Int
    BY <1>3, <2>2
  <2>4. Wrap(granulesInPage - d) \in 0 .. Width - 1 /\ Wrap(announced + d) \in 0 .. Width - 1
    BY <2>3, WrapRange
  <2>5. granulesInPage' \in 0 .. Width - 1 /\ announced' \in 0 .. Width - 1
    BY <1>1, <2>4 DEF d
  <2> QED
    BY <1>1, <1>2, <2>5 DEF StreamTypes
<1>5. LastPosition' = LastPosition /\ (Ends' <=> Ends) /\ Opened /\ Opened'
  BY <1>1, <1>2, <1>3 DEF LastPosition, Ends, Opened
<1>6. ASSUME announced = lastGranule PROVE announced' = lastGranule'
  <2>1. announced' = Wrap(Wrap(lastGranule) + Wrap(p.granule - lastGranule))
    BY <1>1, <1>6, WrapSmall DEF StreamTypes
  <2>2. announced' = Wrap(lastGranule + (p.granule - lastGranule))
    <3>1. p.granule - lastGranule \in Int
      BY <1>2, <1>3
    <3> QED
      BY <1>3, <2>1, <3>1, WrapSum
  <2>3. lastGranule + (p.granule - lastGranule) = p.granule
    BY <1>2, <1>3
  <2> QED
    BY <1>1, <1>2, <2>2, <2>3, WrapSmall
<1>7. ASSUME NEW x \in Int, granulesInPage = Wrap(x - lastGranule)
      PROVE  granulesInPage' = Wrap(x - lastGranule')
  <2>1. granulesInPage' = Wrap((x - lastGranule) - (p.granule - lastGranule))
    <3>1. x - lastGranule \in Int /\ p.granule - lastGranule \in Int
      BY <1>2, <1>3
    <3> QED
      BY <1>1, <1>7, <3>1, WrapSum
  <2>2. (x - lastGranule) - (p.granule - lastGranule) = x - p.granule
    BY <1>2, <1>3
  <2> QED
    BY <1>1, <2>1, <2>2
<1>8. Quiet => ~endOfStream' /\ Quiet'
  BY <1>1, <1>2 DEF Quiet
<1>9. ASSUME NEW g \in Nat, Behind(g) PROVE Behind(g)'
  BY <1>1, <1>2, <1>9 DEF Behind
<1> QED
  BY <1>4, <1>5, <1>6, <1>7, <1>8, <1>9 DEF PageSent

\* What a new packet changes.
LEMMA PacketAdded ==
  ASSUME pending \in Seq(Packets), lastGranule \in Int, NEW g \in 0 .. Lookahead + MaxFrames, NEW e \in BOOLEAN,
         pending' = Append(pending, OggPacket(g, e, FALSE))
  PROVE  /\ pending' \in Seq(Packets) /\ pending' # <<>> /\ Opened'
         /\ LastPosition' = g /\ (Ends' <=> e)
         /\ Quiet /\ ~e => Quiet'
         /\ \A x \in Nat, y \in Nat :
              Behind(x) /\ x <= y /\ g <= y /\ lastGranule' = lastGranule => Behind(y)'
<1> DEFINE n == Len(pending)
           new == OggPacket(g, e, FALSE)
<1>1. new \in Packets /\ new.granule = g /\ new.eos = e /\ new.wide = FALSE
  BY DEF OggPacket, Packets
<1> HIDE DEF new
<1>2. /\ pending' \in Seq(Packets) /\ pending' # <<>> /\ Len(pending') = n + 1
      /\ \A i \in 1 .. n : pending'[i] = pending[i]
      /\ pending'[n + 1] = new
  <2>1. pending' = Append(pending, new)
    BY DEF new
  <2>2. n \in Nat
    OBVIOUS
  <2> DEFINE longer == Append(pending, new)
  <2>3. /\ longer \in Seq(Packets) /\ longer # <<>> /\ Len(longer) = Len(pending) + 1
        /\ \A i \in 1 .. Len(pending) : longer[i] = pending[i]
        /\ longer[Len(pending) + 1] = new
    BY <1>1, AppendProperties
  <2> QED
    BY <2>1, <2>3
<1>3. n \in Nat /\ DOMAIN pending = 1 .. n /\ DOMAIN pending' = 1 .. n + 1
  BY <1>2, LenProperties
<1>4. LastPosition' = g /\ (Ends' <=> e) /\ Opened'
  BY <1>1, <1>2 DEF LastPosition, Ends, Opened
<1>5. ASSUME Quiet, ~e PROVE Quiet'
  <2>1. ASSUME NEW i \in 1 .. n + 1 PROVE ~pending'[i].eos
    <3>1. CASE i = n + 1
      BY <1>1, <1>2, <1>5, <3>1
    <3>2. CASE i # n + 1
      <4>1. i \in 1 .. n
        BY <1>3, <2>1, <3>2
      <4> QED
        BY <1>2, <1>3, <1>5, <4>1 DEF Quiet
    <3> QED
      BY <3>1, <3>2
  <2> QED
    BY <1>3, <2>1 DEF Quiet
<1>6. ASSUME NEW x \in Nat, NEW y \in Nat, Behind(x), x <= y, g <= y, lastGranule' = lastGranule
      PROVE  Behind(y)'
  <2>1. lastGranule' <= y
    BY <1>6 DEF Behind
  <2>2. ASSUME NEW i \in 1 .. n + 1
        PROVE  pending'[i].granule <= y /\ ~pending'[i].wide
    <3>1. CASE i = n + 1
      BY <1>1, <1>2, <1>6, <3>1
    <3>2. CASE i # n + 1
      <4>1. i \in 1 .. n /\ pending'[i] = pending[i] /\ pending[i] \in Packets
        BY <1>2, <1>3, <2>2, <3>2
      <4>2. pending[i].granule <= x /\ ~pending[i].wide
        BY <1>3, <1>6, <4>1 DEF Behind
      <4>3. pending[i].granule \in Nat
        BY <4>1, Sizes DEF Packets
      <4> QED
        BY <1>6, <4>1, <4>2, <4>3
    <3> QED
      BY <3>1, <3>2
  <2> QED
    BY <1>3, <2>1, <2>2 DEF Behind
<1> QED
  BY <1>2, <1>4, <1>5, <1>6

-----------------------------------------------------------------------------
(* What the other lemmas use of a step.                                    *)

\* The types of all but the stream.
Steps == {"top", "change", "block", "feeding", "paging", "flushing", "start", "begin",
             "draining", "padding", "final", "blocks", "ending", "ended", "leave", "done"}

NameTypes ==
  /\ format \in Formats
  /\ passThrough \in BOOLEAN /\ large \in BOOLEAN /\ running \in BOOLEAN
  /\ track \in BOOLEAN /\ init \in BOOLEAN /\ failed \in BOOLEAN
  /\ pc \in Steps
  /\ next \in {"top", "feeding", "begin", "draining", "final", "blocks", "ended"}
  /\ goal \in {"start", "done"} /\ codec \in {"open", "ending", "ended", "failed"}

NumberTypes ==
  /\ input \in Nat /\ pcmIndex \in 0 .. Block - 1 /\ held \in Nat
  /\ format = "opus" => held <= MaxHeld
  /\ granuleIndex \in Nat /\ fed \in Nat
  /\ tracks \in 0 .. MaxTracks /\ frames \in 0 .. MaxFrames

PlainTypes == NameTypes /\ NumberTypes

LEMMA TypesApart == TypeOK => PlainTypes /\ StreamTypes
  BY FormatAssumption, Sizes
     DEF TypeOK, PlainTypes, NameTypes, NumberTypes, StreamTypes, Ogg, Packets, Steps

\* A page loop sends a page or goes on.
LEMMA PageOutDoes ==
  ASSUME StreamTypes, PageOut
  PROVE  /\ pc = "paging"
         /\ UNCHANGED <<config, running, next, goal, init, codec, sound, fed, failed, run>>
         /\ \/ PageSent /\ pc' = pc /\ running /\ ~endOfStream
            \/ /\ pc' = next /\ UNCHANGED pages
               /\ ~Enough \/ ~running \/ endOfStream \/ pending = <<>>
  BY PushPageSends DEF PageOut

LEMMA FlushPagesDoes ==
  ASSUME StreamTypes, FlushPages
  PROVE  /\ pc = "flushing"
         /\ UNCHANGED <<config, running, next, goal, init, codec, sound, fed, failed, run>>
         /\ \/ PageSent /\ pc' = pc
            \/ pc' = next /\ UNCHANGED pages /\ pending = <<>>
  BY PushPageSends DEF FlushPages

\* Without a change of the stream nothing changes that is said of it.
LEMMA StreamSame ==
  ASSUME UNCHANGED <<pending, lastGranule, stream>>
  PROVE  /\ LastPosition' = LastPosition /\ (Ends' <=> Ends) /\ (Opened' <=> Opened)
         /\ Quiet' <=> Quiet
         /\ granuleIndex' = granuleIndex => (Behind(granuleIndex)' <=> Behind(granuleIndex))
  BY DEF LastPosition, Ends, Opened, Quiet, Behind

LEMMA TypesSame == StreamTypes /\ UNCHANGED pages => StreamTypes'
  BY DEF StreamTypes, pages

\* flushBuffer_ encodes d frames, or fails to.
Encoded(d, then) ==
  /\ granuleIndex' = granuleIndex + d /\ granulesInPage' = Wrap(granulesInPage + d)
  /\ pending' = Append(pending, OggPacket(granuleIndex', FALSE, FALSE))
  /\ pc' = "paging" /\ next' = then /\ UNCHANGED <<goal, init, failed>>

NotEncoded(then) ==
  /\ failed' = TRUE /\ init' \in {init, FALSE} /\ pc' = then
  /\ UNCHANGED <<next, goal, granuleIndex, granulesInPage, pending>>

NotFull(then) ==
  pc' = then /\ UNCHANGED <<next, goal, granuleIndex, granulesInPage, pending, init, failed>>

\* w frames are moved to pcm_, which is encoded when it is full.
Stores(w, then) ==
  \/ pcmIndex + w < Block /\ pcmIndex' = pcmIndex + w /\ NotFull(then)
  \/ pcmIndex + w = Block /\ pcmIndex' = 0 /\ (Encoded(Block, then) \/ NotEncoded(then))

\* What the steps of Opus leave alone.
OpusKeeps ==
  format = "opus"
  /\ UNCHANGED <<config, running, codec, lastGranule, endOfStream, announced, stream, fed, run>>

LEMMA StoreDoes ==
  ASSUME PlainTypes, NEW w \in 0 .. Space, NEW then, Store(w, then)
  PROVE  Stores(w, then)
<1>1. w \in Nat /\ pcmIndex \in Nat /\ Block \in Nat /\ pcmIndex + w <= Block
  BY Sizes DEF PlainTypes, NumberTypes, Space
<1>2. CASE pcmIndex + w = Block
  BY <1>2 DEF Store, Stores, FlushBuffer, Encoded, NotEncoded, Goto
<1>3. CASE pcmIndex + w # Block
  BY <1>1, <1>3 DEF Store, Stores, NotFull, Goto
<1> QED
  BY <1>2, <1>3

LEMMA OpusFeedDoes ==
  ASSUME PlainTypes, OpusFeed
  PROVE  /\ OpusKeeps /\ pc = "feeding" /\ running
         /\ \E r \in 0 .. input, w \in 0 .. Space :
              /\ input' = input - r /\ held' = held + r - w
              /\ held' \in Nat /\ (held' <= MaxHeld \/ passThrough)
              /\ passThrough => r = w
              /\ Stores(w, "feeding")
<1>1. PICK r \in Resampled : input' = input - r.read /\ held' = held + r.read - r.wrote
                             /\ Store(r.wrote, "feeding")
  BY DEF OpusFeed
<1>2. input \in Nat /\ Space \in Nat /\ held \in Nat /\ MaxHeld \in Nat
  BY Sizes DEF PlainTypes, NumberTypes, Space
<1>3. CASE passThrough
  <2>1. r.read = Least(input, Space) /\ r.wrote = Least(input, Space)
    BY <1>3 DEF Resampled, Passed
  <2>2. r.read \in 0 .. input /\ r.wrote \in 0 .. Space /\ r.read = r.wrote
    BY <1>2, <2>1 DEF Least
  <2>3. Stores(r.wrote, "feeding")
    BY <1>1, <2>2, StoreDoes
  <2>4. held' \in Nat
    BY <1>1, <1>2, <2>2
  <2> QED
    BY <1>1, <1>3, <2>2, <2>3, <2>4 DEF OpusFeed, OpusKeeps
<1>4. CASE ~passThrough
  <2>1. r.read \in 0 .. input /\ r.wrote \in 0 .. Space /\ held + r.read - r.wrote \in 0 .. MaxHeld
    BY <1>4 DEF Resampled
  <2>2. Stores(r.wrote, "feeding")
    BY <1>1, <2>1, StoreDoes
  <2>3. held' \in Nat /\ held' <= MaxHeld
    BY <1>1, <1>2, <2>1
  <2> QED
    BY <1>1, <1>4, <2>1, <2>2, <2>3 DEF OpusFeed, OpusKeeps
<1> QED
  BY <1>3, <1>4 DEF PlainTypes, NameTypes

LEMMA OpusDrainDoes ==
  ASSUME PlainTypes, OpusDrain
  PROVE  /\ OpusKeeps /\ pc = "draining" /\ input' = input
         /\ \/ /\ held' = held /\ pcmIndex' = pcmIndex /\ NotFull("padding")
               /\ running => held = 0
            \/ \E n \in 1 .. held :
                 held' = held - n /\ n \in 0 .. Space /\ Stores(n, "draining")
<1>1. PICK n \in IF running THEN Flushed ELSE {0} :
        IF n = 0 THEN /\ Goto("padding")
                      /\ UNCHANGED <<held, pcmIndex, granuleIndex, granulesInPage, pending,
                                     init, failed>>
        ELSE held' = held - n /\ Store(n, "draining")
  BY DEF OpusDrain
<1>2. OpusKeeps /\ pc = "draining" /\ input' = input
  BY DEF OpusDrain, OpusKeeps
<1>3. held \in Nat /\ Space \in Nat
  BY Sizes DEF PlainTypes, NumberTypes, Space
<1>4. CASE n = 0
  <2>1. running => held = 0
    BY <1>1, <1>3, <1>4 DEF Flushed
  <2> QED
    BY <1>1, <1>2, <1>4, <2>1 DEF Goto, NotFull
<1>5. CASE n # 0
  <2>1. n \in 1 .. held /\ n \in 0 .. Space
    BY <1>1, <1>3, <1>5 DEF Flushed, Least
  <2>2. held' = held - n /\ Stores(n, "draining")
    BY <1>1, <1>5, <2>1, StoreDoes
  <2> QED
    BY <1>2, <2>1, <2>2
<1> QED
  BY <1>4, <1>5

LEMMA OpusPadDoes ==
  ASSUME OpusPad, format = "opus"
  PROVE  /\ OpusKeeps /\ pc = "padding" /\ UNCHANGED <<input, held>>
         /\ pcmIndex' = 0 /\ (Encoded(pcmIndex, "final") \/ NotEncoded("final"))
  BY DEF OpusPad, OpusKeeps, FlushBuffer, Encoded, NotEncoded, Goto

\* What a new packet changes, and what it does not.
PacketMade(eos) ==
  /\ StreamTypes' /\ Opened' /\ pending' # <<>>
  /\ LastPosition' = granuleIndex' /\ (Ends' <=> eos)
  /\ Quiet /\ ~eos => Quiet'
  /\ Behind(granuleIndex) => Behind(granuleIndex)'

LEMMA PacketMakes ==
  ASSUME PlainTypes, StreamTypes, NEW eos \in BOOLEAN, granuleIndex' \in Nat,
         granuleIndex <= granuleIndex', granuleIndex' <= Lookahead + MaxFrames,
         pending' = Append(pending, OggPacket(granuleIndex', eos, FALSE)),
         granulesInPage' \in 0 .. Width - 1,
         UNCHANGED <<lastGranule, endOfStream, announced, stream>>
  PROVE  PacketMade(eos)
<1>1. /\ granuleIndex \in Nat /\ granuleIndex' \in 0 .. Lookahead + MaxFrames
      /\ pending \in Seq(Packets) /\ lastGranule \in Int
  BY Sizes DEF PlainTypes, NumberTypes, StreamTypes
<1> DEFINE g == granuleIndex'
<1>2. /\ pending' \in Seq(Packets) /\ pending' # <<>> /\ Opened'
      /\ LastPosition' = g /\ (Ends' <=> eos)
      /\ Quiet /\ ~eos => Quiet'
      /\ \A x \in Nat, y \in Nat :
           Behind(x) /\ x <= y /\ g <= y /\ lastGranule' = lastGranule => Behind(y)'
  BY <1>1, PacketAdded
<1>3. StreamTypes'
  BY <1>2 DEF StreamTypes
<1>4. ASSUME Behind(granuleIndex) PROVE Behind(granuleIndex)'
  <2>1. PICK y \in Nat : y = granuleIndex'
    OBVIOUS
  <2>2. Behind(y)'
    BY <1>1, <1>2, <1>4, <2>1
  <2> QED
    BY <2>1, <2>2 DEF Behind
<1> QED
  BY <1>2, <1>3, <1>4 DEF PacketMade

\* The number of frames without a page grows with the position.
LEMMA WrapAdd ==
  ASSUME NEW a \in Int, NEW d \in Int
  PROVE  Wrap(Wrap(a) + d) = Wrap(a + d)
<1>1. PICK k \in Int : a = Wrap(a) + Width * k
  BY WrapRange
<1> DEFINE x == Wrap(a)
<1>2. x \in Int /\ Width \in Int
  BY WrapRange, Sizes
<1>3. a = x + Width * k
  BY <1>1
<1> HIDE DEF x
<1>4. a + d = (x + d) + Width * k /\ x + d \in Int /\ a + d \in Int
  BY <1>2, <1>3
<1>5. Wrap(a + d) = Wrap(x + d)
  BY <1>4, WrapMultiple
<1> QED
  BY <1>5 DEF x

-----------------------------------------------------------------------------
\* What Store does to them.
LEMMA StoreNames ==
  ASSUME NameTypes, NEW w, NEW then \in {"feeding", "draining"}, Store(w, then)
  PROVE  /\ init' \in BOOLEAN /\ failed' \in BOOLEAN /\ pc' \in {then, "paging"}
         /\ next' \in {next, then} /\ goal' = goal
<1>1. CASE pcmIndex + w = Block
  BY <1>1 DEF Store, FlushBuffer, Goto, NameTypes
<1>2. CASE pcmIndex + w # Block
  BY <1>2 DEF Store, Goto, NameTypes
<1> QED
  BY <1>1, <1>2

\* The names and flags keep their ranges.
LEMMA NamesStep == NameTypes /\ [Next]_vars => NameTypes'
<1> SUFFICES ASSUME NameTypes, [Next]_vars PROVE NameTypes'
  OBVIOUS
<1> USE DEF NameTypes, Steps, Goto, config, place, sound, pages, run
<1>1. CASE Top
  BY <1>1 DEF Top
<1>2. CASE NoChange
  BY <1>2 DEF NoChange
<1>3. CASE Change
  BY <1>3 DEF Change
<1>4. CASE FeedNothing
  BY <1>4 DEF FeedNothing
<1>5. CASE FeedDone
  BY <1>5 DEF FeedDone
<1>6. CASE Leave
  BY <1>6 DEF Leave
<1>7. CASE StartFails
  BY <1>7 DEF StartFails
<1>8. CASE StartOpus
  BY <1>8 DEF StartOpus, StartStream
<1>9. CASE StartVorbis
  BY <1>9 DEF StartVorbis, StartStream
<1>10. CASE Begin
  BY <1>10 DEF Begin
<1>11. CASE StartFlac
  BY <1>11 DEF StartFlac, StartPlain
<1>12. CASE StartMp3
  BY <1>12 DEF StartMp3, StartPlain
<1>13. CASE StartPcm
  BY <1>13 DEF StartPcm, StartPlain
<1>14. CASE PageOut
  BY <1>14 DEF PageOut
<1>15. CASE FlushPages
  BY <1>15 DEF FlushPages
<1>16. CASE OpusFeed
  <2>1. PICK r \in Resampled : Store(r.wrote, "feeding")
    BY <1>16 DEF OpusFeed
  <2>2. UNCHANGED <<config, running, codec, run>>
    BY <1>16 DEF OpusFeed
  <2> QED
    BY <2>1, <2>2, StoreNames
<1>17. CASE ResampleFails
  BY <1>17 DEF ResampleFails
<1>18. CASE OpusDrain
  <2>1. \/ Goto("padding") /\ UNCHANGED <<init, failed>>
        \/ \E n : Store(n, "draining")
    BY <1>18 DEF OpusDrain
  <2>2. UNCHANGED <<config, running, codec, run>>
    BY <1>18 DEF OpusDrain
  <2> QED
    BY <2>1, <2>2, StoreNames
<1>19. CASE FlushFails
  BY <1>19 DEF FlushFails
<1>20. CASE OpusPad
  <2>1. FlushBuffer(pcmIndex, "final") /\ UNCHANGED <<config, running, codec, run>>
    BY <1>20 DEF OpusPad
  <2>2. pc' \in {"final", "paging"} /\ next' \in {next, "final"} /\ goal' = goal
    BY <2>1 DEF FlushBuffer
  <2>3. init' \in BOOLEAN /\ failed' \in BOOLEAN
    BY <2>1 DEF FlushBuffer
  <2> QED
    BY <2>1, <2>2, <2>3
<1>21. CASE OpusFinal
  BY <1>21 DEF OpusFinal
<1>22. CASE VorbisFeed
  BY <1>22 DEF VorbisFeed
<1>23. CASE VorbisBlocksDone
  BY <1>23 DEF VorbisBlocksDone
<1>24. CASE EndNothing
  BY <1>24 DEF EndNothing
<1>25. CASE EndOgg
  BY <1>25 DEF EndOgg
<1>26. CASE EndFlac
  BY <1>26 DEF EndFlac
<1>27. CASE EndMp3
  <2>1. failed' \in BOOLEAN
    BY <1>27 DEF EndMp3
  <2> QED
    BY <1>27, <2>1 DEF EndMp3
<1>28. CASE Ended
  <2>1. init' \in BOOLEAN /\ pc' = goal /\ UNCHANGED <<config, running, next, goal, codec, failed, run>>
    BY <1>28 DEF Ended
  <2> QED
    BY <2>1
<1>29. CASE Signal
  <2>1. running' \in BOOLEAN /\ UNCHANGED <<config, place, init, codec, failed, run>>
    BY <1>29 DEF Signal
  <2> QED
    BY <2>1
<1>30. CASE \E n \in BlockSizes : Feed(n)
  BY <1>30 DEF Feed
<1>31. CASE \E k \in 0 .. held : VorbisPacket(k)
  BY <1>31 DEF VorbisPacket
<1>32. CASE \E k \in 1 .. input : FlacFeed(k)
  BY <1>32 DEF FlacFeed
<1>33. CASE \E k \in 1 .. input : Mp3Feed(k)
  <2>1. /\ init' \in BOOLEAN /\ failed' \in BOOLEAN /\ pc' \in {"feeding", "top"}
        /\ UNCHANGED <<config, running, next, goal, codec, run>>
    BY <1>33 DEF Mp3Feed
  <2> QED
    BY <2>1
<1>34. CASE UNCHANGED vars
  BY <1>34 DEF vars
<1> QED
  BY <1>1, <1>2, <1>3, <1>4, <1>5, <1>6, <1>7, <1>8, <1>9, <1>10, <1>11, <1>12, <1>13, <1>14, <1>15,
     <1>16, <1>17, <1>18, <1>19, <1>20, <1>21, <1>22, <1>23, <1>24, <1>25, <1>26, <1>27, <1>28,
     <1>29, <1>30, <1>31, <1>32, <1>33, <1>34
     DEF Next, Encoder, Loop, Start, Paging, Opus, Vorbis, Other, End

\* Most steps only move frames on, or drop some.
FramesMove ==
  /\ UNCHANGED <<format, tracks, frames>>
  /\ input' \in Nat /\ held' \in Nat /\ pcmIndex' \in 0 .. Block - 1
  /\ granuleIndex' \in Nat /\ fed' \in Nat
  /\ fed' <= fed /\ held' + input' <= held + input
  /\ format \in Ogg \/ granuleIndex' + input' <= granuleIndex + input
  /\ format \in Ogg =>
       granuleIndex' + pcmIndex' + held' + input' <= granuleIndex + pcmIndex + held + input
  /\ format = "opus" => held' <= MaxHeld

LEMMA FramesMoveBounds ==
  ASSUME NumberTypes, Bounds, FramesMove
  PROVE  NumberTypes' /\ Bounds'
<1> DEFINE i == input'
           h == held'
           p == pcmIndex'
           g == granuleIndex'
           f == fed'
<1>1. /\ i \in Nat /\ h \in Nat /\ p \in Nat /\ g \in Nat /\ f \in Nat
      /\ input \in Nat /\ held \in Nat /\ pcmIndex \in Nat /\ granuleIndex \in Nat /\ fed \in Nat
      /\ frames \in Nat /\ Lookahead \in Nat
  BY Sizes DEF NumberTypes, FramesMove
<1>2. /\ f <= fed /\ h + i <= held + input
      /\ format \in Ogg \/ g + i <= granuleIndex + input
      /\ format \in Ogg => g + p + h + i <= granuleIndex + pcmIndex + held + input
  BY DEF FramesMove
<1>3. /\ held + input <= frames /\ fed <= Lookahead + frames
      /\ granuleIndex + input <= Lookahead + 2 * frames
      /\ format \in Ogg => granuleIndex + pcmIndex + held + input <= Lookahead + frames
  BY DEF Bounds
<1> HIDE DEF i, h, p, g, f
<1>4. h + i <= frames /\ f <= Lookahead + frames
  BY <1>1, <1>2, <1>3
<1>5. ASSUME format \in Ogg
      PROVE  g + p + h + i <= Lookahead + frames /\ g + i <= Lookahead + 2 * frames
  <2>1. g + p + h + i <= Lookahead + frames
    BY <1>1, <1>2, <1>3, <1>5
  <2> QED
    BY <1>1, <2>1
<1>6. ASSUME format \notin Ogg PROVE g + i <= Lookahead + 2 * frames
  BY <1>1, <1>2, <1>3, <1>6
<1>7. NumberTypes'
  BY DEF NumberTypes, FramesMove
<1>8. frames' = frames /\ format' = format
  BY DEF FramesMove
<1> QED
  BY <1>4, <1>5, <1>6, <1>7, <1>8 DEF Bounds, i, h, p, g, f

LEMMA FramesFewer ==
  ASSUME NumberTypes, UNCHANGED <<format, tracks, frames, pcmIndex>>,
         input' \in 0 .. input, held' \in 0 .. held,
         granuleIndex' \in {0, granuleIndex}, fed' \in {0, fed}
  PROVE  FramesMove
<1> DEFINE i == input'
           h == held'
           g == granuleIndex'
           f == fed'
<1>1. i \in 0 .. input /\ h \in 0 .. held /\ g \in {0, granuleIndex} /\ f \in {0, fed}
  OBVIOUS
<1>2. /\ input \in Nat /\ held \in Nat /\ pcmIndex \in Nat /\ granuleIndex \in Nat /\ fed \in Nat
      /\ format = "opus" => held <= MaxHeld
      /\ MaxHeld \in Nat
  BY Sizes DEF NumberTypes
<1> HIDE DEF i, h, g, f
<1>3. /\ i \in Nat /\ h \in Nat /\ g \in Nat /\ f \in Nat
      /\ f <= fed /\ h + i <= held + input /\ g + i <= granuleIndex + input
      /\ g + pcmIndex + h + i <= granuleIndex + pcmIndex + held + input
  BY <1>1, <1>2
<1>4. format = "opus" => h <= MaxHeld
  BY <1>1, <1>2
<1> QED
  BY <1>3, <1>4 DEF FramesMove, NumberTypes, i, h, g, f

\* A block that is encoded is what was in pcm_.
LEMMA OpusMoves ==
  ASSUME NumberTypes, NEW r \in 0 .. input, NEW w \in 0 .. Space, NEW then,
         input' = input - r, held' = held + r - w, held' \in Nat, Stores(w, then),
         held' <= MaxHeld \/ held' <= held, format = "opus", OpusKeeps
  PROVE  FramesMove
<1>1. /\ r \in Nat /\ w \in Nat /\ r <= input /\ pcmIndex + w <= Block
      /\ input \in Nat /\ held \in Nat /\ pcmIndex \in Nat /\ granuleIndex \in Nat /\ fed \in Nat
      /\ Block \in Nat /\ Block > 0 /\ MaxHeld \in Nat /\ held <= MaxHeld
  BY Sizes DEF NumberTypes, Space
<1>2. UNCHANGED <<format, tracks, frames, fed>>
  BY DEF OpusKeeps, config, run
<1> DEFINE i == input'
           h == held'
           p == pcmIndex'
           g == granuleIndex'
<1>3. i = input - r /\ h = held + r - w /\ h \in Nat /\ (h <= MaxHeld \/ h <= held)
  OBVIOUS
<1>4. \/ pcmIndex + w < Block /\ p = pcmIndex + w /\ g = granuleIndex
      \/ pcmIndex + w = Block /\ p = 0 /\ (g = granuleIndex + Block \/ g = granuleIndex)
  BY DEF Stores, Encoded, NotEncoded, NotFull
<1> HIDE DEF i, h, p, g
<1>5. i \in Nat /\ h <= MaxHeld /\ h + i = held + input - w
  BY <1>1, <1>3
<1>6. p \in 0 .. Block - 1 /\ g \in Nat /\ g + p <= granuleIndex + pcmIndex + w
  BY <1>1, <1>4
<1>7. g + p + h + i <= granuleIndex + pcmIndex + held + input /\ h + i <= held + input
  BY <1>1, <1>3, <1>5, <1>6
<1>8. fed' \in Nat /\ fed' <= fed
  BY <1>1, <1>2
<1> QED
  BY <1>2, <1>3, <1>5, <1>6, <1>7, <1>8 DEF FramesMove, Ogg, i, h, p, g

\* The numbers keep their ranges and bounds.
LEMMA NumbersStep ==
  NameTypes /\ NumberTypes /\ Bounds /\ Places /\ Sums /\ [Next]_vars => NumberTypes' /\ Bounds'
<1> SUFFICES ASSUME NameTypes, NumberTypes, Bounds, Places, Sums, [Next]_vars
             PROVE  NumberTypes' /\ Bounds'
  OBVIOUS
<1> USE DEF config, place, sound, pages, run
<1>1. CASE \/ Top \/ NoChange \/ FeedNothing \/ Leave \/ VorbisBlocksDone \/ EndNothing \/ EndOgg
           \/ Ended \/ Signal \/ PageOut \/ FlushPages \/ OpusFinal \/ UNCHANGED vars
  <2>1. UNCHANGED <<config, sound, fed, run>>
    BY <1>1 DEF Top, NoChange, FeedNothing, Leave, VorbisBlocksDone, EndNothing, EndOgg,
                Ended, Signal, PageOut, FlushPages, OpusFinal, vars
  <2> QED
    BY <2>1 DEF NumberTypes, Bounds
<1>2. CASE Change
  <2>1. tracks' = tracks + 1 /\ tracks < MaxTracks /\ UNCHANGED <<config, sound, fed, frames>>
    BY <1>2 DEF Change
  <2>2. tracks' \in 0 .. MaxTracks
    BY <2>1, Sizes DEF NumberTypes
  <2> QED
    BY <2>1, <2>2 DEF NumberTypes, Bounds
<1>3. ASSUME NEW n \in BlockSizes, Feed(n)
      PROVE  NumberTypes' /\ Bounds'
  <2> DEFINE i == input'
             g == granuleIndex'
             f == fed'
             t == frames'
  <2>1. /\ n \in Nat /\ input = 0 /\ t = frames + n /\ frames + n <= MaxFrames
        /\ i \in {0, n} /\ f \in {fed, fed + n}
        /\ \/ g = granuleIndex
           \/ g = granuleIndex + n /\ format \notin Ogg
    BY <1>3, Sizes DEF Feed, NumberTypes, Places, Ogg
  <2>2. UNCHANGED <<format, held, pcmIndex, tracks>>
    BY <1>3 DEF Feed
  <2>3. /\ granuleIndex \in Nat /\ held \in Nat /\ pcmIndex \in Nat /\ fed \in Nat /\ frames \in Nat
        /\ Lookahead \in Nat /\ MaxFrames \in Nat
        /\ held + input <= frames /\ fed <= Lookahead + frames
        /\ granuleIndex + input <= Lookahead + 2 * frames
        /\ format \in Ogg => granuleIndex + pcmIndex + held + input <= Lookahead + frames
    BY Sizes DEF NumberTypes, Bounds
  <2> HIDE DEF i, g, f, t
  <2>4. i \in Nat /\ g \in Nat /\ f \in Nat /\ t \in 0 .. MaxFrames
    BY <2>1, <2>3
  <2>5. held + i <= t /\ f <= Lookahead + t
    BY <2>1, <2>3
  <2>6. g + i <= Lookahead + 2 * t
    <3>1. g <= granuleIndex + n /\ i <= n
      BY <2>1, <2>3
    <3> QED
      BY <2>1, <2>3, <2>4, <3>1
  <2>7. format \in Ogg => g + pcmIndex + held + i <= Lookahead + t
    BY <2>1, <2>3
  <2>8. NumberTypes'
    BY <2>2, <2>4 DEF NumberTypes, i, g, f, t
  <2> QED
    BY <2>2, <2>5, <2>6, <2>7, <2>8 DEF Bounds, i, g, f, t
<1>4. CASE Begin
  <2>1. /\ UNCHANGED <<format, input, held, granuleIndex, tracks, frames>>
        /\ format = "opus" => pcmIndex' = Lookahead /\ fed' = Lookahead
        /\ format # "opus" => pcmIndex' = pcmIndex /\ fed' = fed
    BY <1>4 DEF Begin
  <2>2. NumberTypes'
    BY <2>1, Sizes DEF NumberTypes
  <2>3. granuleIndex = 0 /\ fed = 0 /\ input = 0 /\ (format # "opus" => pcmIndex = 0)
    BY <1>4 DEF Begin, Sums, Header, Places, NumberTypes
  <2>4. /\ Lookahead \in Nat /\ frames \in Nat /\ held \in Nat /\ held + input <= frames
        /\ granuleIndex + input <= Lookahead + 2 * frames
    BY Sizes DEF NumberTypes, Bounds
  <2> DEFINE p == pcmIndex'
             f == fed'
  <2>5. p \in {0, Lookahead} /\ f \in {0, Lookahead}
    BY <2>1, <2>3
  <2> HIDE DEF p, f
  <2>6. /\ granuleIndex + p + held + input <= Lookahead + frames
        /\ held + input <= frames /\ f <= Lookahead + frames
        /\ granuleIndex + input <= Lookahead + 2 * frames
    BY <2>3, <2>4, <2>5
  <2> QED
    BY <2>1, <2>2, <2>6 DEF Bounds, p, f
<1>5. CASE FeedDone \/ StartFails \/ StartOpus \/ StartVorbis \/ StartFlac \/ StartMp3 \/ StartPcm
  <2>1. /\ UNCHANGED <<format, tracks, frames, pcmIndex>>
        /\ input' \in 0 .. input /\ held' \in 0 .. held /\ granuleIndex' \in {0, granuleIndex}
        /\ fed' \in {0, fed}
    BY <1>5 DEF NumberTypes, FeedDone, StartFails, StartOpus, StartVorbis, StartStream, StartFlac, StartMp3,
                StartPcm, StartPlain
  <2> QED
    BY <2>1, FramesFewer, FramesMoveBounds
<1>6. CASE EndFlac \/ EndMp3 \/ ResampleFails \/ FlushFails
  <2>1. /\ UNCHANGED <<format, tracks, frames, pcmIndex, granuleIndex, fed>>
        /\ input' \in 0 .. input /\ held' \in {0, held}
    BY <1>6 DEF EndFlac, EndMp3, ResampleFails, FlushFails, NumberTypes
  <2>2. input' \in 0 .. input /\ held' \in 0 .. held
    BY <2>1 DEF NumberTypes
  <2> QED
    BY <2>1, <2>2, FramesFewer, FramesMoveBounds
<1>7. CASE OpusFeed
  <2>1. PICK r \in 0 .. input, w \in 0 .. Space :
          /\ input' = input - r /\ held' = held + r - w
          /\ held' \in Nat /\ (held' <= MaxHeld \/ passThrough)
          /\ passThrough => r = w
          /\ Stores(w, "feeding")
    BY <1>7, OpusFeedDoes DEF PlainTypes
  <2>2. OpusKeeps /\ format = "opus"
    BY <1>7, OpusFeedDoes DEF PlainTypes, OpusKeeps
  <2>3. passThrough => held' <= held
    BY <2>1 DEF NumberTypes
  <2>4. FramesMove
    BY <2>1, <2>2, <2>3, OpusMoves
  <2> QED
    BY <2>4, FramesMoveBounds
<1>8. CASE OpusDrain
  <2>1. /\ OpusKeeps /\ format = "opus" /\ input' = input
        /\ \/ held' = held /\ pcmIndex' = pcmIndex /\ NotFull("padding")
           \/ \E n \in 1 .. held : held' = held - n /\ n \in 0 .. Space /\ Stores(n, "draining")
    BY <1>8, OpusDrainDoes DEF PlainTypes, OpusKeeps
  <2>2. CASE held' = held /\ pcmIndex' = pcmIndex /\ NotFull("padding")
    <3>1. UNCHANGED <<config, sound, fed, run>>
      BY <2>1, <2>2 DEF OpusKeeps, NotFull
    <3> QED
      BY <3>1 DEF NumberTypes, Bounds
  <2>3. CASE \E n \in 1 .. held : held' = held - n /\ n \in 0 .. Space /\ Stores(n, "draining")
    <3> PICK n \in 1 .. held : held' = held - n /\ n \in 0 .. Space /\ Stores(n, "draining")
      BY <2>3
    <3>1. /\ 0 \in 0 .. input /\ input' = input - 0 /\ held' = held + 0 - n /\ held' \in Nat
          /\ held' <= held
      BY <2>1 DEF NumberTypes
    <3>2. FramesMove
      BY <2>1, <3>1, OpusMoves
    <3> QED
      BY <3>2, FramesMoveBounds
  <2> QED
    BY <2>1, <2>2, <2>3
<1>9. CASE OpusPad
  <2>1. /\ UNCHANGED <<format, tracks, frames, input, held, fed>> /\ pcmIndex' = 0
        /\ granuleIndex' \in {granuleIndex, granuleIndex + pcmIndex} /\ format = "opus"
    BY <1>9, OpusPadDoes DEF OpusKeeps, Encoded, NotEncoded, OpusPad, Places
  <2> DEFINE g == granuleIndex'
             p == pcmIndex'
             i == input'
             h == held'
  <2>2. /\ g \in {granuleIndex, granuleIndex + pcmIndex} /\ p = 0 /\ p \in 0 .. Block - 1
        /\ granuleIndex \in Nat /\ pcmIndex \in Nat /\ input \in Nat /\ held \in Nat
        /\ i = input /\ h = held
    BY <2>1, Sizes DEF NumberTypes
  <2>3. fed' \in Nat /\ fed' <= fed /\ (format = "opus" => h <= MaxHeld)
    BY <2>1 DEF NumberTypes
  <2> HIDE DEF g, p, i, h
  <2>4. /\ g \in Nat /\ i \in Nat /\ h \in Nat /\ h + i <= held + input
        /\ g + p + h + i <= granuleIndex + pcmIndex + held + input
    BY <2>2
  <2>5. FramesMove
    BY <2>1, <2>2, <2>3, <2>4 DEF FramesMove, Ogg, g, p, i, h
  <2> QED
    BY <2>5, FramesMoveBounds
<1>10. CASE VorbisFeed
  <2>1. FramesMove
    BY <1>10 DEF VorbisFeed, FramesMove, NumberTypes, Ogg
  <2> QED
    BY <2>1, FramesMoveBounds
<1>11. ASSUME NEW k \in 0 .. held, VorbisPacket(k)
       PROVE  NumberTypes' /\ Bounds'
  <2>1. FramesMove
    BY <1>11 DEF VorbisPacket, FramesMove, NumberTypes, Ogg, Places
  <2> QED
    BY <2>1, FramesMoveBounds
<1>12. ASSUME NEW k \in 1 .. input, FlacFeed(k) \/ Mp3Feed(k)
       PROVE  NumberTypes' /\ Bounds'
  <2>1. /\ UNCHANGED <<format, tracks, frames, pcmIndex, fed>>
        /\ input' \in {0, input - k} /\ format \notin Ogg /\ format # "opus"
        /\ \/ granuleIndex' = granuleIndex
           \/ granuleIndex' = granuleIndex + k /\ input' = input - k
        /\ held' \in 0 .. held + k \/ held' = held
    BY <1>12 DEF FlacFeed, Mp3Feed, Ogg
  <2>2. FramesMove
    BY <2>1 DEF FramesMove, NumberTypes
  <2> QED
    BY <2>2, FramesMoveBounds
<1> QED
  BY <1>1, <1>2, <1>3, <1>4, <1>5, <1>6, <1>7, <1>8, <1>9, <1>10, <1>11, <1>12
     DEF Next, Encoder, Loop, Start, Paging, Opus, Vorbis, Other, End

\* A step of Opus leaves the stream alone or adds a packet with d frames.
OpusStream ==
  /\ OpusKeeps
  /\ \/ UNCHANGED <<pages, granuleIndex>>
     \/ PacketMade(FALSE) /\ \E d \in Nat : /\ granuleIndex' = granuleIndex + d
                                            /\ granulesInPage' = Wrap(granulesInPage + d)

LEMMA OpusStreams ==
  ASSUME PlainTypes, StreamTypes, Bounds, Places, OpusFeed \/ OpusDrain \/ OpusPad
  PROVE  OpusStream
<1> USE DEF config, place, sound, pages, run
<1> DEFINE g == granuleIndex'
<1>1. ASSUME NEW d \in Nat, NEW then, Encoded(d, then) \/ NotEncoded(then) \/ NotFull(then), OpusKeeps,
             granuleIndex + d <= Lookahead + MaxFrames
      PROVE  OpusStream
  <2>1. CASE Encoded(d, then)
    <3>1. granuleIndex' \in Nat /\ granuleIndex <= granuleIndex' /\ granuleIndex' <= Lookahead + MaxFrames
      <4>1. g = granuleIndex + d /\ granuleIndex \in Nat
        BY <2>1 DEF Encoded, PlainTypes, NumberTypes
      <4> QED
        BY <1>1, <4>1
    <3>2. granulesInPage' \in 0 .. Width - 1
      <4>1. granulesInPage + d \in Int
        BY Sizes DEF StreamTypes
      <4> QED
        BY <2>1, <4>1, WrapRange DEF Encoded
    <3>3. PacketMade(FALSE)
      BY <1>1, <2>1, <3>1, <3>2, PacketMakes DEF Encoded, OpusKeeps
    <3> QED
      BY <1>1, <2>1, <3>3 DEF OpusStream, Encoded
  <2>2. CASE NotEncoded(then) \/ NotFull(then)
    BY <1>1, <2>2 DEF NotEncoded, NotFull, OpusKeeps, OpusStream
  <2> QED
    BY <1>1, <2>1, <2>2
<1>2. ASSUME NEW w \in 0 .. Space, NEW then, Stores(w, then), OpusKeeps,
              w <= held + input
       PROVE  OpusStream
  <2>1. /\ pcmIndex \in Nat /\ granuleIndex \in Nat /\ held \in Nat /\ input \in Nat /\ w \in Nat
        /\ Block \in Nat /\ frames \in 0 .. MaxFrames /\ MaxFrames \in Nat /\ Lookahead \in Nat
        /\ granuleIndex + pcmIndex + held + input <= Lookahead + frames
    BY <1>2, Sizes DEF PlainTypes, NumberTypes, Bounds, OpusKeeps, Ogg, Space
  <2>2. CASE pcmIndex + w = Block
    <3>1. granuleIndex + Block <= Lookahead + MaxFrames
      BY <1>2, <2>1, <2>2
    <3> QED
      BY <1>1, <1>2, <2>1, <2>2, <3>1 DEF Stores
  <2>3. CASE pcmIndex + w # Block
    <3>1. NotFull(then) /\ 0 \in Nat /\ granuleIndex + 0 <= Lookahead + MaxFrames
      BY <1>2, <2>1, <2>3 DEF Stores
    <3> QED
      BY <1>1, <1>2, <3>1
  <2> QED
    BY <2>2, <2>3
<1>3. CASE OpusFeed
  <2>1. PICK r \in 0 .. input, w \in 0 .. Space :
          held' = held + r - w /\ held' \in Nat /\ Stores(w, "feeding") /\ OpusKeeps
    BY <1>3, OpusFeedDoes
  <2>2. w <= held + input
    <3>1. PICK h \in Nat : h = held'
      BY <2>1
    <3>2. h = held + r - w /\ held \in Nat /\ input \in Nat /\ Space \in Nat
      BY <2>1, <3>1, Sizes DEF PlainTypes, NumberTypes, Space
    <3> QED
      BY <3>2
  <2> QED
    BY <1>2, <2>1, <2>2
<1>4. CASE OpusDrain
  <2>1. /\ OpusKeeps
        /\ \/ NotFull("padding")
           \/ \E n \in 1 .. held : n \in 0 .. Space /\ Stores(n, "draining")
    BY <1>4, OpusDrainDoes
  <2>2. CASE NotFull("padding")
    BY <2>1, <2>2 DEF NotFull, OpusKeeps, OpusStream
  <2>3. ASSUME NEW n \in 1 .. held, n \in 0 .. Space, Stores(n, "draining") PROVE OpusStream
    <3>1. n <= held + input
      BY <2>3 DEF PlainTypes, NumberTypes
    <3> QED
      BY <1>2, <2>1, <2>3, <3>1
  <2> QED
    BY <2>1, <2>2, <2>3
<1>5. CASE OpusPad
  <2>1. OpusKeeps /\ (Encoded(pcmIndex, "final") \/ NotEncoded("final")) /\ format = "opus"
    BY <1>5, OpusPadDoes DEF OpusPad, Places
  <2>2. /\ pcmIndex \in Nat /\ granuleIndex + pcmIndex <= Lookahead + MaxFrames
    BY <2>1, Sizes DEF PlainTypes, NumberTypes, Bounds, Ogg
  <2> QED
    BY <1>1, <2>1, <2>2
<1> QED
  BY <1>3, <1>4, <1>5

LEMMA OpusFinalMakes ==
  ASSUME PlainTypes, StreamTypes, Bounds, Places, OpusFinal
  PROVE  PacketMade(TRUE)
<1>1. format = "opus" /\ granuleIndex \in Nat /\ granuleIndex <= Lookahead + MaxFrames
  BY Sizes DEF OpusFinal, Places, PlainTypes, NumberTypes, Bounds, Ogg
<1>2. /\ pending' = Append(pending, OggPacket(granuleIndex', TRUE, FALSE))
      /\ granuleIndex' = granuleIndex
      /\ UNCHANGED <<granulesInPage, lastGranule, endOfStream, announced, stream>>
  BY DEF OpusFinal, sound
<1>3. granuleIndex <= granuleIndex /\ granulesInPage \in 0 .. Width - 1
  BY <1>1 DEF StreamTypes
<1> QED
  BY <1>1, <1>2, <1>3, PacketMakes

LEMMA VorbisPacketMakes ==
  ASSUME PlainTypes, StreamTypes, Bounds, Places, NEW k \in 0 .. held, VorbisPacket(k)
  PROVE  PacketMade(codec' = "ended")
<1> USE DEF config, place, sound, pages, run
<1> DEFINE g == granuleIndex'
<1>1. format = "vorbis" /\ granuleIndex \in Nat /\ k \in Nat /\ g = granuleIndex + k
  BY DEF VorbisPacket, Places, PlainTypes, NumberTypes
<1>2. granuleIndex + k <= Lookahead + MaxFrames
  BY <1>1, Sizes DEF PlainTypes, NumberTypes, Bounds, Ogg
<1>3. /\ pending' = Append(pending, OggPacket(granuleIndex', codec' = "ended", FALSE))
      /\ granuleIndex' \in Nat /\ granuleIndex <= granuleIndex' /\ granuleIndex' <= Lookahead + MaxFrames
      /\ granulesInPage' \in 0 .. Width - 1
      /\ UNCHANGED <<lastGranule, endOfStream, announced, stream>>
  BY <1>1, <1>2 DEF VorbisPacket, StreamTypes
<1>4. PICK eos \in BOOLEAN : eos = (codec' = "ended")
  OBVIOUS
<1>5. PacketMade(eos)
  BY <1>3, <1>4, PacketMakes
<1> QED
  BY <1>4, <1>5

\* The stream keeps its types.
LEMMA StreamTypesStep ==
  ASSUME PlainTypes, StreamTypes, Bounds, Places, [Next]_vars
  PROVE  StreamTypes'
<1> USE DEF config, place, sound, pages, run
<1> DEFINE g == granuleIndex'
<1>1. CASE \/ Top \/ NoChange \/ Change \/ FeedNothing \/ FeedDone \/ Leave \/ VorbisBlocksDone
           \/ EndNothing \/ EndOgg \/ Ended \/ Signal \/ ResampleFails \/ FlushFails \/ UNCHANGED vars
  <2>1. UNCHANGED pages
    BY <1>1 DEF Top, NoChange, Change, FeedNothing, FeedDone, Leave, VorbisBlocksDone, EndNothing,
                EndOgg, Ended, Signal, ResampleFails, FlushFails, vars
  <2> QED
    BY <2>1, TypesSame
<1>2. ASSUME \E n \in Int : announced' = Wrap(n) \/ announced' = announced,
             UNCHANGED <<granulesInPage, lastGranule, endOfStream, pending>>,
             stream' \in {"none", "begun", "ended"}
      PROVE  StreamTypes'
  BY <1>2, WrapRange DEF StreamTypes
<1>3. CASE \E n \in BlockSizes : Feed(n)
  <2> PICK n \in BlockSizes : Feed(n)
    BY <1>3
  <2>1. announced + n \in Int
    BY Sizes DEF StreamTypes
  <2>2. announced' = Wrap(announced + n) \/ announced' = announced
    BY DEF Feed, Announce
  <2> QED
    BY <1>2, <2>1, <2>2 DEF Feed, StreamTypes
<1>4. CASE StartFails
  <2>1. <<>> \in Seq(Packets) /\ 0 \in 0 .. Width - 1
    BY Sizes
  <2> QED
    BY <1>4, <2>1 DEF StartFails, StreamTypes
<1>5. CASE StartOpus \/ StartVorbis
  <2>1. OggPacket(0, FALSE, FALSE) \in Packets /\ OggPacket(0, FALSE, large) \in Packets
    BY Sizes DEF OggPacket, Packets, PlainTypes, NameTypes
  <2>2. 0 \in 0 .. Width - 1
    BY Sizes
  <2>3. Headers \in Seq(Packets)
    <3> DEFINE a == OggPacket(0, FALSE, FALSE)
               b == OggPacket(0, FALSE, large)
    <3>1. a \in Packets /\ b \in Packets
      BY <2>1
    <3> HIDE DEF a, b
    <3>2. <<a, b>> \in Seq(Packets)
      BY <3>1
    <3> QED
      BY <3>2 DEF Headers, a, b
  <2> QED
    BY <1>5, <2>2, <2>3 DEF StartOpus, StartVorbis, StartStream, StreamTypes
<1>6. CASE Begin
  BY <1>6 DEF Begin, StreamTypes
<1>7. CASE StartFlac \/ StartMp3 \/ StartPcm
  <2>1. 0 \in 0 .. Width - 1
    BY Sizes
  <2>2. /\ announced' = 0 /\ stream' \in {stream, "begun"}
        /\ UNCHANGED <<granulesInPage, lastGranule, endOfStream, pending>>
    BY <1>7 DEF StartFlac, StartMp3, StartPcm, StartPlain
  <2> QED
    BY <2>1, <2>2 DEF StreamTypes
<1>8. CASE PageOut \/ FlushPages
  BY <1>8, PageOutDoes, FlushPagesDoes, TypesSame DEF PageSent
<1>9. CASE OpusFeed \/ OpusDrain \/ OpusPad
  BY <1>9, OpusStreams, TypesSame DEF OpusStream, PacketMade
<1>10. CASE OpusFinal
  BY <1>10, OpusFinalMakes DEF PacketMade
<1>11. ASSUME NEW k \in 0 .. held, VorbisPacket(k)
       PROVE  StreamTypes'
  BY <1>11, VorbisPacketMakes DEF PacketMade
<1>12. CASE VorbisFeed
  <2>1. granulesInPage + input \in Int
    BY Sizes DEF StreamTypes, PlainTypes, NumberTypes
  <2>2. granulesInPage' \in 0 .. Width - 1
    BY <1>12, <2>1, WrapRange DEF VorbisFeed
  <2> QED
    BY <1>12, <2>2 DEF VorbisFeed, StreamTypes
<1>13. ASSUME NEW k \in 1 .. input, FlacFeed(k) \/ Mp3Feed(k)
       PROVE  StreamTypes'
  <2>1. UNCHANGED <<granulesInPage, lastGranule, endOfStream, pending, stream>>
    BY <1>13 DEF FlacFeed, Mp3Feed
  <2>2. announced + 0 \in Int /\ announced \in Int
    BY Sizes DEF StreamTypes
  <2>3. CASE FlacFeed(k)
    BY <1>2, <2>1, <2>2, <2>3 DEF FlacFeed, WriteCallback, Announce, StreamTypes
  <2>4. CASE Mp3Feed(k) /\ announced' = announced
    BY <1>2, <2>1, <2>2, <2>4 DEF StreamTypes
  <2>5. CASE Mp3Feed(k) /\ announced' # announced
    <3>1. /\ g = granuleIndex + k /\ held' \in 0 .. held + k
          /\ announced' = Wrap(announced + (g - held'))
      BY <2>5 DEF Mp3Feed, Announce
    <3> DEFINE h == held'
    <3>2. g \in Int /\ h \in Int
      BY <3>1 DEF PlainTypes, NumberTypes
    <3> HIDE DEF g, h
    <3>3. announced + (g - h) \in Int
      BY <2>2, <3>2
    <3>4. announced' = Wrap(announced + (g - h))
      BY <3>1 DEF h
    <3> QED
      BY <1>2, <2>1, <3>3, <3>4 DEF StreamTypes
  <2> QED
    BY <1>13, <2>3, <2>4, <2>5
<1>14. CASE EndFlac
  <2>1. announced + 0 \in Int
    BY Sizes DEF StreamTypes
  <2> QED
    BY <1>2, <1>14, <2>1 DEF EndFlac, WriteCallback, Announce, StreamTypes
<1>15. CASE EndMp3
  <2>1. announced + granuleIndex \in Int
    BY Sizes DEF StreamTypes, PlainTypes, NumberTypes
  <2>2. announced' = Wrap(announced + granuleIndex) \/ announced' = announced
    BY <1>15 DEF EndMp3, Announce
  <2> QED
    BY <1>2, <1>15, <2>1, <2>2 DEF EndMp3, StreamTypes
<1> QED
  BY <1>1, <1>3, <1>4, <1>5, <1>6, <1>7, <1>8, <1>9, <1>10, <1>11, <1>12, <1>13, <1>14, <1>15
     DEF Next, Encoder, Loop, Start, Paging, Opus, Vorbis, Other, End

\* The types, with the bounds that they need, stay.
LEMMA RangesStep == Ranges /\ Places /\ Sums /\ [Next]_vars => Ranges'
<1> SUFFICES ASSUME Ranges, Places, Sums, [Next]_vars PROVE Ranges'
  OBVIOUS
<1>1. Bounds /\ NameTypes /\ NumberTypes /\ PlainTypes /\ StreamTypes
  BY TypesApart DEF Ranges, PlainTypes
<1>2. NameTypes' /\ NumberTypes' /\ StreamTypes' /\ Bounds'
  BY <1>1, NamesStep, NumbersStep, StreamTypesStep
<1>3. TypeOK'
  <2> DEFINE i == input'
             h == held'
             g == granuleIndex'
             f == fed'
             t == frames'
  <2>1. /\ i \in Nat /\ h \in Nat /\ g \in Nat /\ f \in Nat /\ t \in 0 .. MaxFrames
    BY <1>2 DEF NumberTypes
  <2>2. h + i <= t /\ f <= Lookahead + t /\ g + i <= Lookahead + 2 * t
    BY <1>2 DEF Bounds
  <2> HIDE DEF i, h, g, f, t
  <2>3. MaxFrames \in Nat /\ Lookahead \in Nat
    BY Sizes
  <2>4. /\ i \in 0 .. MaxFrames /\ h \in 0 .. MaxFrames /\ f \in 0 .. Lookahead + MaxFrames
        /\ g \in 0 .. Lookahead + 2 * MaxFrames
    BY <2>1, <2>2, <2>3
  <2>5. held' \in 0 .. IF format' = "opus" THEN MaxHeld ELSE MaxFrames
    BY <1>2, <2>4, Sizes DEF NumberTypes, h
  <2> QED
    BY <1>2, <2>4, <2>5 DEF TypeOK, NameTypes, NumberTypes, StreamTypes, Packets, Steps, i, h, g, f
<1> QED
  BY <1>2, <1>3 DEF Ranges


-----------------------------------------------------------------------------
(* The parts of the inductive invariant, one by one.                       *)

\* An encoder keeps its format, and sees no end of a signal or of a failure.
LEMMA ConfigSame ==
  ASSUME NameTypes, [Next]_vars
  PROVE  UNCHANGED config /\ (Whole' => Whole) /\ (running' => running)
<1> USE DEF Whole, NameTypes
<1>1. CASE \/ Top \/ NoChange \/ Change \/ (\E n \in BlockSizes : Feed(n)) \/ FeedNothing
           \/ FeedDone \/ Leave
  BY <1>1 DEF Top, NoChange, Change, Feed, FeedNothing, FeedDone, Leave
<1>2. CASE Start
  BY <1>2 DEF Start, StartFails, StartOpus, StartVorbis, StartStream, Begin, StartFlac, StartMp3,
              StartPcm, StartPlain
<1>3. CASE Paging
  BY <1>3 DEF Paging, PageOut, FlushPages
<1>4. CASE OpusFeed \/ OpusDrain \/ OpusPad
  <2>1. UNCHANGED <<config, running>>
    BY <1>4 DEF OpusFeed, OpusDrain, OpusPad
  <2>2. failed' = failed \/ failed' = TRUE
    BY <1>4 DEF OpusFeed, OpusDrain, OpusPad, Store, FlushBuffer
  <2> QED
    BY <2>1, <2>2
<1>5. CASE ResampleFails \/ FlushFails \/ OpusFinal \/ Vorbis
  <2>1. CASE ResampleFails \/ FlushFails \/ OpusFinal
    <3>1. UNCHANGED <<config, running>> /\ (failed' = failed \/ failed' = TRUE)
      BY <2>1 DEF ResampleFails, FlushFails, OpusFinal
    <3> QED
      BY <3>1
  <2>2. CASE Vorbis
    <3>1. UNCHANGED <<config, running, failed>>
      BY <2>2 DEF Vorbis, VorbisFeed, VorbisPacket, VorbisBlocksDone
    <3> QED
      BY <3>1
  <2> QED
    BY <1>5, <2>1, <2>2
<1>6. CASE Other
  BY <1>6 DEF Other, FlacFeed, Mp3Feed
<1>7. CASE End
  BY <1>7 DEF End, EndNothing, EndOgg, EndFlac, EndMp3, Ended
<1>8. CASE Signal \/ UNCHANGED vars
  BY <1>8 DEF Signal, vars
<1> QED
  BY <1>1, <1>2, <1>3, <1>4, <1>5, <1>6, <1>7, <1>8 DEF Next, Encoder, Loop, Opus

\* The steps of Opus that store frames go where they say, and change little else.
LEMMA StoresGoes ==
  ASSUME NEW w, NEW then, Stores(w, then), NameTypes
  PROVE  /\ (pc' = then /\ next' = next) \/ (pc' = "paging" /\ next' = then)
         /\ goal' = goal /\ (init' => init) /\ (init => init' \/ failed') /\ (failed => failed')
<1>1. CASE NotFull(then)
  <2>1. pc' = then /\ next' = next /\ goal' = goal /\ init' = init /\ failed' = failed
    BY <1>1 DEF NotFull
  <2> QED
    BY <2>1, Zenon
<1>2. CASE NotEncoded(then)
  <2>1. failed' = TRUE /\ pc' = then /\ next' = next /\ goal' = goal /\ init' \in {init, FALSE}
    BY <1>2, Zenon DEF NotEncoded
  <2>2. init' => init
    BY <2>1 DEF NameTypes
  <2>3. failed'
    BY <2>1
  <2> QED
    BY <2>1, <2>2, <2>3, Zenon
<1>3. CASE Encoded(Block, then)
  BY <1>3, Zenon DEF Encoded
<1> QED
  BY <1>1, <1>2, <1>3 DEF Stores

LEMMA PlacesStep ==
  ASSUME PlainTypes, Places, [Next]_vars
  PROVE  Places'
<1> USE DEF config, place, sound, pages, run
<1>0. NameTypes /\ input \in Nat /\ held \in Nat /\ (input = 0 <=> ~(input > 0))
  BY DEF PlainTypes, NumberTypes
<1>1. CASE \/ Top \/ NoChange \/ Change \/ FeedNothing \/ Leave \/ Signal \/ UNCHANGED vars
  BY <1>1 DEF Top, NoChange, Change, FeedNothing, Leave, Signal, Goto, Places, vars
<1>2. ASSUME NEW n \in BlockSizes, Feed(n) PROVE Places'
  BY <1>2 DEF Feed, Goto, Places
<1>3. CASE FeedDone
  BY <1>3 DEF FeedDone, Goto, Places
<1>4. CASE StartFails \/ StartOpus \/ StartVorbis \/ Begin
  BY <1>4 DEF StartFails, StartOpus, StartVorbis, StartStream, Begin, Goto, Places, Ogg
<1>5. CASE StartFlac \/ StartMp3 \/ StartPcm
  BY <1>5 DEF StartFlac, StartMp3, StartPcm, StartPlain, Goto, Places, Ogg
<1>6. CASE PageOut \/ FlushPages
  BY <1>6 DEF PageOut, FlushPages, Places, NameTypes, Ogg
<1>7. CASE OpusFeed
  <2>1. PICK r \in 0 .. input, w \in 0 .. Space :
          /\ input' = input - r /\ held' = held + r - w
          /\ passThrough => r = w
          /\ Stores(w, "feeding")
    BY <1>7, OpusFeedDoes
  <2>2. OpusKeeps /\ pc = "feeding" /\ format = "opus"
    BY <1>7, OpusFeedDoes DEF OpusKeeps
  <2>3. passThrough => held' = 0
    BY <1>0, <2>1, <2>2 DEF Places
  <2>4. (pc' = "feeding" /\ next' = next) \/ (pc' = "paging" /\ next' = "feeding")
    BY <1>0, <2>1, StoresGoes
  <2> QED
    BY <2>2, <2>3, <2>4 DEF Places, OpusKeeps
<1>8. CASE OpusDrain
  <2>1. /\ OpusKeeps /\ pc = "draining" /\ input' = input /\ format = "opus"
        /\ \/ held' = held /\ NotFull("padding")
           \/ \E n \in 1 .. held : Stores(n, "draining")
    BY <1>8, OpusDrainDoes DEF OpusKeeps
  <2>2. CASE held' = held /\ NotFull("padding")
    BY <2>1, <2>2 DEF NotFull, Places, OpusKeeps
  <2>3. ASSUME NEW n \in 1 .. held, Stores(n, "draining") PROVE Places'
    <3>1. (pc' = "draining" /\ next' = next) \/ (pc' = "paging" /\ next' = "draining")
      BY <1>0, <2>3, StoresGoes
    <3>2. ~passThrough
      BY <1>0, <2>1, <2>3 DEF Places
    <3> QED
      BY <2>1, <3>1, <3>2 DEF Places, OpusKeeps
  <2> QED
    BY <2>1, <2>2, <2>3
<1>9. CASE OpusPad
  <2>1. /\ OpusKeeps /\ pc = "padding" /\ UNCHANGED <<input, held>> /\ format = "opus"
        /\ Encoded(pcmIndex, "final") \/ NotEncoded("final")
    BY <1>9, OpusPadDoes DEF OpusPad, Places
  <2>2. (pc' = "paging" /\ next' = "final") \/ (pc' = "final" /\ next' = next)
    BY <2>1 DEF Encoded, NotEncoded
  <2> QED
    BY <2>1, <2>2 DEF Places, OpusKeeps
<1>10. CASE ResampleFails
  BY <1>10 DEF ResampleFails, Places
<1>15. CASE FlushFails
  BY <1>15 DEF FlushFails, Goto, Places
<1>16. CASE OpusFinal
  BY <1>16 DEF OpusFinal, Places, Ogg
<1>11. CASE VorbisFeed \/ VorbisBlocksDone
  BY <1>11 DEF VorbisFeed, VorbisBlocksDone, Goto, Places, Ogg
<1>12. ASSUME NEW k \in 0 .. held, VorbisPacket(k) PROVE Places'
  BY <1>12 DEF VorbisPacket, Places
<1>13. ASSUME NEW k \in 1 .. input, FlacFeed(k) \/ Mp3Feed(k) PROVE Places'
  BY <1>13 DEF FlacFeed, Mp3Feed, Goto, Places
<1>14. CASE EndNothing \/ EndOgg \/ Ended
  <2>1. UNCHANGED <<config, sound>> /\ pc \in {"ending", "ended"} /\ goal \in {"start", "done"}
    BY <1>0, <1>14 DEF EndNothing, EndOgg, Ended, NameTypes
  <2>2. pc' \in {goal, "draining", "blocks"} /\ (pc' = "draining" => format = "opus")
        /\ (pc' = "blocks" => format = "vorbis")
    BY <1>14, <2>1 DEF EndNothing, EndOgg, Ended, Goto, Ogg
  <2> QED
    BY <2>1, <2>2 DEF Places
<1>17. CASE EndFlac \/ EndMp3
  BY <1>17 DEF EndFlac, EndMp3, Goto, Places
<1> QED
  BY <1>1, <1>2, <1>3, <1>4, <1>5, <1>6, <1>7, <1>8, <1>9, <1>10, <1>11, <1>12, <1>13, <1>14, <1>15,
     <1>16, <1>17 DEF Next, Encoder, Loop, Start, Paging, Opus, Vorbis, Other, End

LEMMA StartedStep ==
  ASSUME PlainTypes, Places, Started, [Next]_vars
  PROVE  Started'
<1> USE DEF config, place, sound, pages, run, Header, Closing, Between, Within
<1>0. NameTypes
  BY DEF PlainTypes
<1>1. CASE \/ Top \/ NoChange \/ FeedNothing \/ Signal \/ UNCHANGED vars
  BY <1>1 DEF Top, NoChange, FeedNothing, Signal, Goto, Started, vars
<1>2. CASE Change \/ Leave
  BY <1>2 DEF Change, Leave, Goto, Started
<1>3. ASSUME NEW n \in BlockSizes, Feed(n) PROVE Started'
  BY <1>3 DEF Feed, Goto, Started, Ogg
<1>4. CASE FeedDone
  BY <1>4 DEF FeedDone, Goto, Started
<1>5. CASE StartFails \/ StartOpus \/ StartVorbis
  BY <1>5 DEF StartFails, StartOpus, StartVorbis, StartStream, Goto, Started, Ogg
<1>6. CASE Begin
  BY <1>6 DEF Begin, Goto, Started, Places, Ogg
<1>7. CASE StartFlac \/ StartMp3 \/ StartPcm
  BY <1>7 DEF StartFlac, StartMp3, StartPcm, StartPlain, Goto, Started, Ogg
<1>8. CASE PageOut
  BY <1>8 DEF PageOut, Started, Places, Ogg
<1>9. CASE FlushPages
  BY <1>9 DEF FlushPages, Started, Places, Ogg
<1>10. ASSUME NEW w, NEW then, Stores(w, then), OpusKeeps, pc \in Within,
              then \in Within
       PROVE  Started'
  <2>1. /\ (pc' = then /\ next' = next) \/ (pc' = "paging" /\ next' = then)
        /\ (init' => init) /\ (init => init' \/ failed') /\ (failed => failed')
    BY <1>0, <1>10, StoresGoes
  <2>2. format = "opus" /\ UNCHANGED <<format, track>>
    BY <1>10 DEF OpusKeeps
  <2> QED
    BY <1>10, <2>1, <2>2 DEF Started
<1>11. CASE OpusFeed
  BY <1>10, <1>11, OpusFeedDoes
<1>12. CASE OpusDrain
  <2>1. CASE \E n \in 1 .. held : Stores(n, "draining")
    BY <1>10, <1>12, <2>1, OpusDrainDoes
  <2>2. CASE NotFull("padding")
    BY <1>12, <2>2, OpusDrainDoes DEF NotFull, OpusKeeps, Started
  <2> QED
    BY <1>12, <2>1, <2>2, OpusDrainDoes
<1>13. CASE OpusPad
  <2>1. OpusKeeps /\ pc = "padding" /\ (Encoded(pcmIndex, "final") \/ NotEncoded("final"))
    BY <1>13, OpusPadDoes DEF OpusPad, Places
  <2>2. CASE Encoded(pcmIndex, "final")
    BY <2>1, <2>2 DEF Encoded, OpusKeeps, Started, Ogg
  <2>3. CASE NotEncoded("final")
    BY <1>0, <2>1, <2>3 DEF NotEncoded, OpusKeeps, Started, NameTypes
  <2> QED
    BY <2>1, <2>2, <2>3
<1>14. CASE ResampleFails \/ FlushFails \/ OpusFinal
  BY <1>14 DEF ResampleFails, FlushFails, OpusFinal, Goto, Started, Places, Ogg
<1>15. CASE VorbisFeed \/ VorbisBlocksDone
  BY <1>15 DEF VorbisFeed, VorbisBlocksDone, Goto, Started, Places, Ogg
<1>16. ASSUME NEW k \in 0 .. held, VorbisPacket(k) PROVE Started'
  BY <1>16 DEF VorbisPacket, Started
<1>17. ASSUME NEW k \in 1 .. input, FlacFeed(k) \/ Mp3Feed(k) PROVE Started'
  BY <1>17 DEF FlacFeed, Mp3Feed, Goto, Started, Ogg
<1>18. CASE End
  BY <1>0, <1>18 DEF End, EndNothing, EndOgg, EndFlac, EndMp3, Ended, Goto, Started, NameTypes, Ogg
<1> QED
  BY <1>1, <1>2, <1>3, <1>4, <1>5, <1>6, <1>7, <1>8, <1>9, <1>11, <1>12, <1>13, <1>14, <1>15,
     <1>16, <1>17, <1>18 DEF Next, Encoder, Loop, Start, Paging, Opus, Vorbis, Other

LEMMA StreamsStep ==
  ASSUME PlainTypes, StreamTypes, Bounds, Places, Started, Streams, [Next]_vars
  PROVE  Streams'
<1> USE DEF config, place, sound, pages, run, Header, Between, Within
<1>0. NameTypes
  BY DEF PlainTypes
<1>1. CASE \/ Top \/ NoChange \/ FeedNothing \/ Leave \/ Signal \/ Change \/ UNCHANGED vars
  BY <1>1 DEF Top, NoChange, FeedNothing, Leave, Signal, Change, Goto, Streams, Opened, vars
<1>2. ASSUME NEW n \in BlockSizes, Feed(n) PROVE Streams'
  BY <1>2 DEF Feed, Goto, Streams, Opened, Ogg
<1>3. CASE FeedDone
  BY <1>3 DEF FeedDone, Goto, Streams, Started, Opened
<1>4. CASE StartFails
  BY <1>4 DEF StartFails, Goto, Streams, Started, Opened
<1>5. CASE StartOpus \/ StartVorbis
  <2>1. Headers # <<>>
    BY DEF Headers
  <2> QED
    BY <1>5, <2>1 DEF StartOpus, StartVorbis, StartStream, Streams, Opened, Ogg
<1>6. CASE Begin
  BY <1>6 DEF Begin, Goto, Streams, Places, Opened
<1>7. CASE StartFlac \/ StartMp3 \/ StartPcm
  BY <1>7 DEF StartFlac, StartMp3, StartPcm, StartPlain, Goto, Streams, Opened, Ogg
<1>8. CASE PageOut
  <2>1. /\ pc = "paging" /\ UNCHANGED <<config, next, init, failed>>
        /\ (PageSent /\ pc' = pc) \/ (pc' = next /\ UNCHANGED pages)
    BY <1>8, PageOutDoes
  <2>2. Opened' /\ format \in Ogg /\ next \in Within
    BY <2>1 DEF PageSent, Streams, Places, Opened, Ogg
  <2> QED
    BY <2>1, <2>2 DEF Streams, Ogg
<1>9. CASE FlushPages
  <2>1. /\ pc = "flushing" /\ UNCHANGED <<config, next, init, failed>>
        /\ (PageSent /\ pc' = pc) \/ (pc' = next /\ UNCHANGED pages /\ pending = <<>>)
    BY <1>9, FlushPagesDoes
  <2>2. format \in Ogg /\ next \in {"begin", "ended"}
    BY <2>1 DEF Places
  <2>3. CASE PageSent /\ pc' = pc
    BY <2>1, <2>2, <2>3 DEF PageSent, Streams, Ogg
  <2>4. CASE pc' = next /\ UNCHANGED pages /\ pending = <<>>
    BY <2>1, <2>2, <2>4 DEF Streams, Opened, Ogg
  <2> QED
    BY <2>1, <2>3, <2>4
<1>10. CASE OpusFeed \/ OpusDrain \/ OpusPad
  <2>1. pc \in Within /\ pc' \in Within
    <3>1. ASSUME NEW w, NEW then, Stores(w, then), then \in Within PROVE pc' \in Within
      BY <3>1 DEF Stores, Encoded, NotEncoded, NotFull
    <3>2. CASE OpusFeed
      BY <3>1, <3>2, OpusFeedDoes
    <3>3. CASE OpusDrain
      BY <3>1, <3>3, OpusDrainDoes DEF NotFull
    <3>4. CASE OpusPad
      BY <3>4, OpusPadDoes DEF OpusPad, Places, Encoded, NotEncoded
    <3> QED
      BY <1>10, <3>2, <3>3, <3>4
  <2>2. OpusStream
    BY <1>10, OpusStreams
  <2>3. format = "opus" /\ format' = format
    BY <2>2 DEF OpusStream, OpusKeeps
  <2>4. Opened'
    BY <2>1, <2>2, <2>3 DEF OpusStream, PacketMade, Streams, Opened, Ogg
  <2> QED
    BY <2>1, <2>3, <2>4 DEF Streams, Ogg
<1>11. CASE OpusFinal
  <2>1. Opened'
    BY <1>11, OpusFinalMakes DEF PacketMade
  <2> QED
    BY <1>11, <2>1 DEF OpusFinal, Streams, Places, Ogg
<1>12. CASE ResampleFails \/ FlushFails
  BY <1>12 DEF ResampleFails, FlushFails, Goto, Streams, Opened, Ogg
<1>13. CASE VorbisFeed \/ VorbisBlocksDone
  BY <1>13 DEF VorbisFeed, VorbisBlocksDone, Goto, Streams, Places, Opened, Ogg
<1>14. ASSUME NEW k \in 0 .. held, VorbisPacket(k) PROVE Streams'
  <2>1. Opened'
    BY <1>14, VorbisPacketMakes DEF PacketMade
  <2> QED
    BY <1>14, <2>1 DEF VorbisPacket, Streams, Places, Ogg
<1>15. ASSUME NEW k \in 1 .. input, FlacFeed(k) \/ Mp3Feed(k) PROVE Streams'
  BY <1>15 DEF FlacFeed, Mp3Feed, Goto, Streams, Ogg
<1>16. CASE EndNothing
  BY <1>0, <1>16 DEF EndNothing, Goto, Streams, Opened, NameTypes
<1>17. CASE EndOgg
  BY <1>17 DEF EndOgg, Goto, Streams, Opened
<1>18. CASE EndFlac \/ EndMp3
  BY <1>18 DEF EndFlac, EndMp3, Goto, Streams, Ogg
<1>19. CASE Ended
  BY <1>0, <1>19 DEF Ended, Goto, Streams, NameTypes
<1> QED
  BY <1>1, <1>2, <1>3, <1>4, <1>5, <1>6, <1>7, <1>8, <1>9, <1>10, <1>11, <1>12, <1>13, <1>14, <1>15,
     <1>16, <1>17, <1>18, <1>19 DEF Next, Encoder, Loop, Start, Paging, Opus, Vorbis, Other, End

\* Where the stream stays what it is, so does what is known of it.
LEMMA GranulesSame ==
  ASSUME Granules, UNCHANGED <<pending, stream, lastGranule, granulesInPage, announced>>,
         UNCHANGED <<granuleIndex, format>>, held' = held \/ format = "opus", Header => Header'
  PROVE  Granules'
<1>1. (Opened' <=> Opened) /\ LastPosition' = LastPosition
  BY StreamSame
<1>2. Behind(granuleIndex)' <=> Behind(granuleIndex)
  BY StreamSame
<1>3. Given' = Given
  BY DEF Given
<1>4. Covered => Covered'
  BY <1>1, <1>2, <1>3 DEF Covered
<1> QED
  BY <1>1, <1>4 DEF Granules

LEMMA GranulesStep ==
  ASSUME PlainTypes, StreamTypes, Bounds, Places, Started, Streams, Granules, [Next]_vars
  PROVE  Granules'
<1> USE DEF config, place, sound, pages, run, Within
<1>0. /\ NameTypes /\ granuleIndex \in Nat /\ held \in Nat /\ input \in Nat /\ lastGranule \in Nat
      /\ Given \in Nat /\ Given - lastGranule \in Int /\ pcmIndex \in Nat
  BY Sizes DEF PlainTypes, NumberTypes, StreamTypes, Given
<1>1. CASE \/ Top \/ NoChange \/ Change \/ FeedNothing \/ FeedDone \/ Leave \/ Signal \/ UNCHANGED vars
  <2>1. UNCHANGED <<pages, granuleIndex, format, held>> /\ (Header => Header')
    BY <1>1 DEF Top, NoChange, Change, FeedNothing, FeedDone, Leave, Signal, Header, vars
  <2> QED
    BY <2>1, GranulesSame
<1>2. ASSUME NEW n \in BlockSizes, Feed(n) PROVE Granules'
  <2>1. CASE format \in Ogg
    <3>1. UNCHANGED <<pages, granuleIndex, format, held>> /\ (Header => Header')
      BY <1>2, <2>1 DEF Feed, Header, Ogg
    <3> QED
      BY <3>1, GranulesSame
  <2>2. CASE format \notin Ogg
    BY <1>2, <2>2 DEF Feed, Granules
  <2> QED
    BY <2>1, <2>2
<1>3. CASE StartFails
  BY <1>3 DEF StartFails, Granules, Opened
<1>4. CASE StartOpus \/ StartVorbis
  <2>1. /\ pending' = Headers /\ granuleIndex' = 0 /\ announced' = 0 /\ granulesInPage' = 0
        /\ lastGranule' = 0 /\ pc' = "flushing" /\ next' = "begin" /\ format' = format
        /\ format = "vorbis" => held' = 0
    BY <1>4 DEF StartOpus, StartVorbis, StartStream
  <2>2. Given' = 0
    BY <2>1 DEF Given
  <2>3. LastPosition' = 0
    BY <2>1 DEF LastPosition, Headers, OggPacket
  <2>4. 0 \in 0 .. Width - 1 /\ Wrap(0) = 0 /\ 0 - 0 = 0
    BY Sizes, WrapSmall
  <2>5. granulesInPage' = Wrap(Given' - lastGranule')
    BY <2>1, <2>2, <2>4
  <2> QED
    BY <2>1, <2>3, <2>5 DEF Granules, Covered, Header
<1>5. CASE Begin
  <2>1. UNCHANGED <<pending, stream, lastGranule, granulesInPage, announced, granuleIndex, format, held>>
    BY <1>5 DEF Begin
  <2>2. pending = <<>> /\ Opened /\ Covered
    BY <1>5 DEF Begin, Streams, Places, Header, Granules
  <2>3. lastGranule = granuleIndex
    BY <2>2 DEF Covered, LastPosition
  <2>4. Behind(granuleIndex)
    BY <1>0, <2>2, <2>3 DEF Behind
  <2>5. LastPosition' = LastPosition /\ Behind(granuleIndex)' /\ Given' = Given
    BY <2>1, <2>4, StreamSame DEF Given
  <2> QED
    BY <2>1, <2>2, <2>5 DEF Granules, Covered
<1>6. CASE StartFlac \/ StartMp3 \/ StartPcm
  BY <1>6 DEF StartFlac, StartMp3, StartPcm, StartPlain, Granules, Ogg
<1>7. CASE PageSent /\ UNCHANGED <<config, sound>> /\ (Header => Header')
  <2>1. LastPosition' = LastPosition /\ Given' = Given /\ Opened
    BY <1>7 DEF PageSent, Given
  <2>2. ASSUME format \in Ogg PROVE Covered'
    <3>1. Covered
      BY <2>1, <2>2 DEF Granules
    <3>2. announced' = lastGranule' /\ granulesInPage' = Wrap(Given - lastGranule')
      BY <1>0, <1>7, <3>1 DEF PageSent, Covered
    <3>3. Header' \/ Behind(granuleIndex)'
      <4>1. CASE Header
        BY <1>7, <4>1
      <4>2. CASE ~Header
        <5>1. Behind(granuleIndex)
          BY <3>1, <4>2 DEF Covered
        <5>2. PICK g \in Nat : g = granuleIndex /\ Behind(g)
          BY <1>0, <5>1
        <5>3. Behind(g)'
          BY <1>7, <5>2 DEF PageSent
        <5> QED
          BY <1>7, <5>2, <5>3 DEF Behind
      <4> QED
        BY <4>1, <4>2
    <3> QED
      BY <1>7, <2>1, <3>1, <3>2, <3>3 DEF Covered
  <2> QED
    BY <1>7, <2>2 DEF Granules
<1>8. CASE PageOut
  <2>1. /\ pc = "paging" /\ UNCHANGED <<config, sound>>
        /\ PageSent \/ UNCHANGED pages
    BY <1>8, PageOutDoes
  <2>2. ~Header
    BY <2>1 DEF Header
  <2> QED
    BY <1>7, <2>1, <2>2, GranulesSame
<1>9. CASE FlushPages
  <2>1. /\ pc = "flushing" /\ UNCHANGED <<config, sound, next>>
        /\ PageSent \/ UNCHANGED pages
        /\ pc' = pc \/ pc' = next
    BY <1>9, FlushPagesDoes
  <2>2. Header => Header'
    BY <2>1 DEF Header
  <2> QED
    BY <1>7, <2>1, <2>2, GranulesSame
<1>10. ASSUME NEW eos \in BOOLEAN, PacketMade(eos), pc \in Within, NEW d \in Int,
              Given' = Given + d, granulesInPage' = Wrap(granulesInPage + d),
              UNCHANGED <<format, lastGranule, announced>>
       PROVE  Granules'
  <2>1. ASSUME format \in Ogg PROVE Covered'
    <3>1. Opened /\ Covered /\ ~Header
      BY <1>10, <2>1 DEF Granules, Streams, Header
    <3>2. granulesInPage' = Wrap(Wrap(Given - lastGranule) + d)
      BY <1>10, <3>1 DEF Covered
    <3>3. granulesInPage' = Wrap((Given - lastGranule) + d)
      BY <1>0, <1>10, <3>2, WrapAdd
    <3>4. (Given - lastGranule) + d = (Given + d) - lastGranule
      BY <1>0, <1>10
    <3>5. granulesInPage' = Wrap(Given' - lastGranule')
      BY <1>10, <3>3, <3>4
    <3> QED
      BY <1>10, <3>1, <3>5 DEF PacketMade, Covered
  <2> QED
    BY <1>10, <2>1 DEF Granules
<1>11. CASE OpusFeed \/ OpusDrain \/ OpusPad
  <2>1. OpusStream /\ pc \in Within
    BY <1>11, OpusStreams DEF OpusFeed, OpusDrain, OpusPad
  <2>2. UNCHANGED <<format, lastGranule, announced>> /\ format = "opus"
    BY <2>1 DEF OpusStream, OpusKeeps
  <2>3. CASE UNCHANGED <<pages, granuleIndex>>
    BY <2>1, <2>2, <2>3, GranulesSame DEF Header
  <2>4. ASSUME PacketMade(FALSE), NEW d \in Nat, granuleIndex' = granuleIndex + d,
               granulesInPage' = Wrap(granulesInPage + d)
        PROVE  Granules'
    <3>1. Given = granuleIndex /\ Given' = granuleIndex'
      BY <1>0, <2>2, <2>4 DEF Given
    <3>2. Given' = Given + d /\ d \in Int
      BY <2>4, <3>1
    <3>3. PICK eos \in BOOLEAN : eos = FALSE /\ PacketMade(eos)
      BY <2>4
    <3> QED
      BY <1>10, <2>1, <2>2, <2>4, <3>2, <3>3
  <2> QED
    BY <2>1, <2>3, <2>4 DEF OpusStream
<1>12. CASE OpusFinal
  <2>1. PacketMade(TRUE) /\ pc \in Within /\ UNCHANGED <<config, sound, granulesInPage, lastGranule, announced>>
    BY <1>12, OpusFinalMakes DEF OpusFinal
  <2>2. Given' = Given + 0 /\ granulesInPage' = granulesInPage
    BY <1>0, <2>1 DEF Given
  <2>3. granulesInPage = Wrap(granulesInPage + 0)
    BY WrapSmall DEF StreamTypes
  <2>4. PICK eos \in BOOLEAN : eos = TRUE /\ PacketMade(eos)
    BY <2>1
  <2>5. PICK d \in Int : d = 0
    OBVIOUS
  <2>6. Given' = Given + d /\ granulesInPage' = Wrap(granulesInPage + d)
    BY <2>2, <2>3, <2>5
  <2> QED
    BY <1>10, <2>1, <2>4, <2>6
<1>13. CASE ResampleFails \/ FlushFails
  <2>1. UNCHANGED <<pages, granuleIndex, format>> /\ format = "opus" /\ ~Header
    BY <1>13 DEF ResampleFails, FlushFails, Header
  <2> QED
    BY <2>1, GranulesSame
<1>14. CASE VorbisFeed
  <2>1. /\ UNCHANGED <<format, pending, stream, lastGranule, announced, granuleIndex>> /\ format = "vorbis"
        /\ pc = "feeding" /\ granulesInPage' = Wrap(granulesInPage + input) /\ held' = held + input
    BY <1>14 DEF VorbisFeed
  <2>2. Opened /\ Covered /\ ~Header
    BY <2>1 DEF Granules, Streams, Header, Ogg
  <2>3. LastPosition' = LastPosition /\ Behind(granuleIndex)'
    BY <2>1, <2>2, StreamSame DEF Covered
  <2>4. Given = granuleIndex + held /\ Given' = granuleIndex + (held + input)
    BY <1>0, <2>1 DEF Given
  <2>5. granulesInPage' = Wrap((Given - lastGranule) + input)
    BY <1>0, <2>1, <2>2, WrapAdd DEF Covered
  <2>6. (Given - lastGranule) + input = (granuleIndex + (held + input)) - lastGranule
    BY <1>0, <2>4
  <2>7. granulesInPage' = Wrap(Given' - lastGranule')
    BY <2>1, <2>4, <2>5, <2>6
  <2> QED
    BY <2>1, <2>2, <2>3, <2>7 DEF Granules, Covered
<1>15. CASE VorbisBlocksDone \/ EndNothing \/ EndOgg \/ Ended
  <2>1. UNCHANGED <<pages, granuleIndex, format, held>> /\ ~Header
    BY <1>15 DEF VorbisBlocksDone, EndNothing, EndOgg, Ended, Header
  <2> QED
    BY <2>1, GranulesSame
<1>16. ASSUME NEW k \in 0 .. held, VorbisPacket(k) PROVE Granules'
  <2>1. PacketMade(codec' = "ended") /\ format = "vorbis"
    BY <1>16, VorbisPacketMakes DEF VorbisPacket, Places
  <2>2. /\ pc \in Within /\ held' = held - k /\ granuleIndex' = granuleIndex + k
        /\ UNCHANGED <<format, lastGranule, announced, granulesInPage>>
    BY <1>16 DEF VorbisPacket
  <2>3. Given' = Given + 0
    <3>1. Given = granuleIndex + held /\ Given' = (granuleIndex + k) + (held - k)
      BY <2>1, <2>2 DEF Given
    <3> QED
      BY <1>0, <3>1
  <2>4. granulesInPage' = Wrap(granulesInPage + 0)
    BY <2>2, WrapSmall DEF StreamTypes
  <2>5. PICK eos \in BOOLEAN : eos = (codec' = "ended")
    OBVIOUS
  <2>6. PacketMade(eos)
    BY <2>1, <2>5
  <2> QED
    BY <1>10, <2>2, <2>3, <2>4, <2>6
<1>17. ASSUME NEW k \in 1 .. input, FlacFeed(k) \/ Mp3Feed(k) PROVE Granules'
  BY <1>17 DEF FlacFeed, Mp3Feed, Granules, Ogg
<1>18. CASE EndFlac \/ EndMp3
  BY <1>18 DEF EndFlac, EndMp3, Granules, Ogg
<1> QED
  BY <1>1, <1>2, <1>3, <1>4, <1>5, <1>6, <1>8, <1>9, <1>11, <1>12, <1>13, <1>14, <1>15, <1>16,
     <1>17, <1>18 DEF Next, Encoder, Loop, Start, Paging, Opus, Vorbis, Other, End

\* Where no frame moves, the frames are where they were.
LEMMA SumsSame ==
  ASSUME Sums, UNCHANGED <<format, fed, sound>>, Opened' <=> Opened, Header' <=> Header,
         Whole' => Whole, announced' = announced \/ (format \in Ogg /\ Opened)
  PROVE  Sums'
<1>1. UNCHANGED <<input, held, pcmIndex, granuleIndex>>
  BY DEF sound
<1> QED
  BY <1>1 DEF Sums, Ogg

\* What a step of Opus leaves in pcm_, in the resampler and in the block, and what it
\* encodes, is what was there.
LEMMA OpusSums ==
  ASSUME PlainTypes, Places, OpusFeed \/ OpusDrain \/ OpusPad, Whole'
  PROVE  granuleIndex' + pcmIndex' + held' + input' = granuleIndex + pcmIndex + held + input
<1> DEFINE g == granuleIndex'
           p == pcmIndex'
           h == held'
           i == input'
<1>0. /\ granuleIndex \in Nat /\ pcmIndex \in Nat /\ held \in Nat /\ input \in Nat
      /\ Block \in Nat /\ Space \in Nat /\ ~failed'
  BY Sizes DEF PlainTypes, NumberTypes, Space, Whole
<1>1. ASSUME NEW r \in 0 .. input, NEW w \in Nat, NEW then, Stores(w, then), h = held + r - w,
             i = input - r
      PROVE  g + p + h + i = granuleIndex + pcmIndex + held + input
  <2>1. \/ p = pcmIndex + w /\ g = granuleIndex
        \/ pcmIndex + w = Block /\ p = 0 /\ g = granuleIndex + Block
    BY <1>0, <1>1 DEF Stores, Encoded, NotEncoded, NotFull
  <2>2. h = held + r - w /\ i = input - r /\ r \in Nat /\ w \in Nat
    BY <1>1
  <2> HIDE DEF g, p, h, i
  <2>3. g + p = granuleIndex + pcmIndex + w /\ g \in Int /\ p \in Int
    BY <1>0, <2>1, <2>2
  <2> QED
    BY <1>0, <2>2, <2>3
<1>2. CASE OpusFeed
  <2>1. PICK r \in 0 .. input, w \in 0 .. Space :
          i = input - r /\ h = held + r - w /\ Stores(w, "feeding")
    BY <1>2, OpusFeedDoes
  <2>2. w \in Nat
    BY <1>0, <2>1
  <2> QED
    BY <1>1, <2>1, <2>2
<1>3. CASE OpusDrain
  <2>1. /\ i = input
        /\ \/ h = held /\ p = pcmIndex /\ g = granuleIndex
           \/ \E n \in 1 .. held : h = held - n /\ Stores(n, "draining")
    BY <1>3, OpusDrainDoes DEF NotFull
  <2>2. CASE h = held /\ p = pcmIndex /\ g = granuleIndex
    BY <2>1, <2>2
  <2>3. ASSUME NEW n \in 1 .. held, h = held - n, Stores(n, "draining")
        PROVE  g + p + h + i = granuleIndex + pcmIndex + held + input
    <3>1. PICK r \in 0 .. input : r = 0
      BY <1>0
    <3>2. h = held + r - n /\ i = input - r /\ n \in Nat
      BY <1>0, <2>1, <2>3, <3>1
    <3> QED
      BY <1>1, <2>3, <3>2
  <2> QED
    BY <2>1, <2>2, <2>3
<1>4. CASE OpusPad
  <2>1. h = held /\ i = input /\ p = 0 /\ g = granuleIndex + pcmIndex
    BY <1>0, <1>4, OpusPadDoes DEF OpusPad, Places, Encoded, NotEncoded
  <2> HIDE DEF g, p, h, i
  <2>2. g + p + h + i = granuleIndex + pcmIndex + held + input
    BY <1>0, <2>1
  <2> QED
    BY <2>2 DEF g, p, h, i
<1> QED
  BY <1>2, <1>3, <1>4

LEMMA SumsStep ==
  ASSUME PlainTypes, StreamTypes, Bounds, Places, Started, Streams, Sums, Drained, [Next]_vars
  PROVE  Sums'
<1> USE DEF config, place, sound, pages, run, Within
<1>0. /\ NameTypes /\ granuleIndex \in Nat /\ held \in Nat /\ input \in Nat /\ pcmIndex \in Nat
      /\ fed \in Nat /\ announced \in Nat /\ UNCHANGED config /\ (Whole' => Whole)
  BY Sizes, ConfigSame DEF PlainTypes, NumberTypes, StreamTypes
<1>1. CASE \/ Top \/ NoChange \/ Change \/ FeedNothing \/ Leave \/ Signal
           \/ VorbisBlocksDone \/ EndNothing \/ EndOgg \/ Ended \/ UNCHANGED vars
  <2>1. UNCHANGED <<format, fed, sound, announced, stream, pending>>
    BY <1>1 DEF Top, NoChange, Change, FeedNothing, Leave, Signal, VorbisBlocksDone,
                EndNothing, EndOgg, Ended, vars
  <2>2. Header' <=> Header
    <3>1. CASE VorbisBlocksDone \/ EndNothing \/ EndOgg \/ Ended
      BY <1>0, <3>1 DEF VorbisBlocksDone, EndNothing, EndOgg, Ended, Header, Goto, NameTypes
    <3>2. CASE \/ Top \/ NoChange \/ Change \/ FeedNothing \/ Leave \/ Signal \/ UNCHANGED vars
      BY <3>2 DEF Top, NoChange, Change, FeedNothing, Leave, Signal, Header, Goto, vars
    <3> QED
      BY <1>1, <3>1, <3>2
  <2>3. Opened' <=> Opened
    BY <2>1 DEF Opened
  <2> QED
    BY <1>0, <2>1, <2>2, <2>3, SumsSame
<1>2. ASSUME NEW n \in BlockSizes, Feed(n) PROVE Sums'
  <2>0. n \in Nat /\ input = 0 /\ Header' = Header
    BY <1>0, <1>2, Sizes DEF Feed, Places, Header, Goto
  <2>1. CASE format = "pcm"
    <3>1. announced' = Wrap(announced + n) /\ fed' = fed + n
      BY <1>2, <2>1 DEF Feed, Announce
    <3>2. announced' = Wrap(fed + n)
      BY <1>0, <2>0, <2>1, <3>1, WrapAdd DEF Sums
    <3> QED
      BY <1>0, <2>1, <3>1, <3>2 DEF Sums, Ogg
  <2>2. CASE format \in Ogg /\ init
    <3>1. UNCHANGED <<announced, stream, pending, held, pcmIndex, granuleIndex>> /\ fed' = fed + n /\ input' = n
      BY <1>2, <2>2 DEF Feed, Ogg
    <3>2. Opened /\ Opened' /\ ~Header'
      BY <1>2, <2>2, <3>1 DEF Feed, Streams, Opened, Header, Goto, Ogg
    <3>3. ~Header
      BY <2>0, <3>2
    <3>4. format = "opus" /\ Whole => fed + n = granuleIndex + pcmIndex + held + n
      BY <1>0, <2>0, <3>2, <3>3 DEF Sums
    <3>5. format = "vorbis" /\ Whole => fed + n = granuleIndex + held + n
      BY <1>0, <2>0, <3>2, <3>3 DEF Sums
    <3> QED
      BY <1>0, <2>2, <3>1, <3>2, <3>4, <3>5 DEF Sums, Ogg
  <2>3. CASE (format \in Ogg /\ ~init) \/ (format \notin Ogg /\ format # "pcm")
    <3>1. format \in Ogg => UNCHANGED <<format, fed, sound, announced, stream, pending>>
      BY <1>2, <2>3 DEF Feed, Ogg
    <3>2. format \in Ogg => (Opened' <=> Opened)
      BY <3>1 DEF Opened
    <3>3. format \notin Ogg => Sums'
      BY <1>0, <2>3 DEF Sums, Ogg
    <3> QED
      BY <1>0, <2>0, <3>1, <3>2, <3>3, SumsSame
  <2> QED
    BY <2>1, <2>2, <2>3 DEF Ogg
<1>3. CASE FeedDone
  <2>1. /\ UNCHANGED <<format, fed, held, pcmIndex, granuleIndex, announced, stream, pending, running>>
        /\ ~Header /\ ~Header' /\ input' = 0 /\ (input = 0 \/ ~running \/ format = "mp3")
    BY <1>3 DEF FeedDone, Header, Goto
  <2>2. Opened' <=> Opened
    BY <2>1 DEF Opened
  <2>3. CASE input = 0
    BY <1>0, <2>1, <2>2, <2>3, SumsSame
  <2>4. CASE ~running
    BY <2>1, <2>2, <2>4 DEF Sums, Whole
  <2>5. CASE format = "mp3"
    BY <2>1, <2>5 DEF Sums, Ogg
  <2> QED
    BY <2>1, <2>3, <2>4, <2>5
<1>4. CASE StartFails
  BY <1>0, <1>4 DEF StartFails, Sums, Opened, Header, Goto, Ogg
<1>5. CASE StartOpus \/ StartVorbis
  <2>1. /\ Header' /\ granuleIndex' = 0 /\ fed' = 0 /\ announced' = 0 /\ input' = 0 /\ format' = format
        /\ format = "vorbis" => held' = 0
        /\ format \in Ogg
    BY <1>0, <1>5 DEF StartOpus, StartVorbis, StartStream, Header, Ogg, Places
  <2> QED
    BY <2>1 DEF Sums, Ogg
<1>6. CASE Begin
  <2>1. /\ pc = "begin" /\ UNCHANGED <<format, announced, stream, pending, input, held, granuleIndex, running, failed>>
        /\ format = "opus" => pcmIndex' = Lookahead /\ fed' = Lookahead
        /\ format # "opus" => fed' = fed
        /\ pc' = "block"
    BY <1>6 DEF Begin, Goto
  <2>2. Header /\ ~Header' /\ format \in Ogg /\ ~init
    BY <2>1 DEF Header, Places, Started
  <2>3. granuleIndex = 0 /\ fed = 0 /\ input = 0 /\ Opened /\ Opened'
    BY <1>0, <2>1, <2>2 DEF Sums, Places, Streams, Opened
  <2>4. format = "opus" /\ Whole => held = 0
    BY <2>2 DEF Drained, Drains
  <2>5. Lookahead \in Nat
    BY Sizes
  <2>6. format = "opus" /\ Whole => Lookahead = granuleIndex + Lookahead + held + input
    BY <2>3, <2>4, <2>5
  <2>7. Whole' = Whole
    BY <2>1 DEF Whole
  <2> QED
    BY <2>1, <2>2, <2>3, <2>6, <2>7 DEF Sums, Ogg
<1>7. CASE StartFlac \/ StartMp3 \/ StartPcm
  <2>1. Wrap(0) = 0
    BY Sizes, WrapSmall
  <2> QED
    BY <1>7, <2>1 DEF StartFlac, StartMp3, StartPcm, StartPlain, Sums, Ogg
<1>8. CASE PageSent /\ UNCHANGED <<format, fed, sound>> /\ (Header' <=> Header) /\ format \in Ogg
  BY <1>0, <1>8, SumsSame DEF PageSent
<1>9. CASE PageOut
  <2>1. /\ pc = "paging" /\ UNCHANGED <<config, fed, sound>>
        /\ (PageSent /\ pc' = pc) \/ (UNCHANGED pages /\ pc' = next)
    BY <1>9, PageOutDoes
  <2>2. ~Header /\ ~Header' /\ format \in Ogg
    BY <2>1 DEF Header, Places, Ogg
  <2>3. UNCHANGED pages => (Opened' <=> Opened)
    BY DEF Opened
  <2> QED
    BY <1>0, <1>8, <2>1, <2>2, <2>3, SumsSame
<1>10. CASE FlushPages
  <2>1. /\ pc = "flushing" /\ UNCHANGED <<config, fed, sound, next>>
        /\ (PageSent /\ pc' = pc) \/ (UNCHANGED pages /\ pc' = next)
    BY <1>10, FlushPagesDoes
  <2>2. (Header' <=> Header) /\ format \in Ogg
    BY <2>1 DEF Header, Places
  <2>3. UNCHANGED pages => (Opened' <=> Opened)
    BY DEF Opened
  <2> QED
    BY <1>0, <1>8, <2>1, <2>2, <2>3, SumsSame
<1>11. CASE OpusFeed \/ OpusDrain \/ OpusPad
  <2>1. OpusStream /\ pc \in Within
    BY <1>11, OpusStreams DEF OpusFeed, OpusDrain, OpusPad
  <2>2. format = "opus" /\ UNCHANGED <<format, announced, fed>>
    BY <2>1 DEF OpusStream, OpusKeeps
  <2>3. Opened /\ ~Header
    BY <2>1, <2>2 DEF Streams, Header, Ogg
  <2>4. Opened' /\ ~Header'
    <3>1. Opened'
      BY <2>1, <2>3 DEF OpusStream, PacketMade, Opened
    <3>2. ASSUME NEW w, NEW then, Stores(w, then), then \in Within PROVE pc' \in Within
      BY <3>2 DEF Stores, Encoded, NotEncoded, NotFull
    <3>3. pc' \in Within
      BY <1>11, <3>2, OpusFeedDoes, OpusDrainDoes, OpusPadDoes DEF NotFull, Encoded, NotEncoded, OpusPad, Places
    <3> QED
      BY <3>1, <3>3 DEF Header
  <2>5. Whole' => fed' = granuleIndex' + pcmIndex' + held' + input'
    BY <1>0, <1>11, <2>2, <2>3, OpusSums DEF Sums
  <2> QED
    BY <2>2, <2>4, <2>5 DEF Sums, Ogg
<1>12. CASE OpusFinal
  <2>1. UNCHANGED <<format, fed, sound, announced>> /\ pc = "final" /\ pc' = "flushing" /\ next' = "ended"
    BY <1>12 DEF OpusFinal
  <2>2. Opened /\ Opened' /\ ~Header /\ ~Header'
    BY <1>12, <2>1, OpusFinalMakes DEF PacketMade, Streams, Header, Places, Ogg
  <2> QED
    BY <1>0, <2>1, <2>2, SumsSame
<1>13. CASE ResampleFails \/ FlushFails
  BY <1>13 DEF ResampleFails, FlushFails, Sums, Opened, Header, Goto, Whole
<1>14. CASE VorbisFeed
  <2>1. /\ UNCHANGED <<format, pending, stream, announced, granuleIndex, fed>> /\ format = "vorbis"
        /\ pc = "feeding" /\ held' = held + input /\ input' = 0 /\ pc' = "blocks"
    BY <1>14 DEF VorbisFeed, Goto
  <2>2. Opened /\ Opened' /\ ~Header /\ ~Header'
    BY <2>1 DEF Opened, Streams, Header, Ogg
  <2>3. granuleIndex + held + input = granuleIndex + (held + input) + 0
    BY <1>0
  <2> QED
    BY <1>0, <2>1, <2>2, <2>3 DEF Sums, Ogg
<1>15. ASSUME NEW k \in 0 .. held, VorbisPacket(k) PROVE Sums'
  <2>1. /\ UNCHANGED <<format, announced, fed, input>> /\ format = "vorbis"
        /\ pc = "blocks" /\ held' = held - k /\ granuleIndex' = granuleIndex + k /\ pc' = "paging"
    BY <1>15 DEF VorbisPacket, Places
  <2>2. Opened /\ Opened' /\ ~Header /\ ~Header'
    BY <1>15, <2>1, VorbisPacketMakes DEF PacketMade, Streams, Header, Ogg
  <2>3. granuleIndex + held + input = (granuleIndex + k) + (held - k) + input
    BY <1>0
  <2> QED
    BY <1>0, <2>1, <2>2, <2>3 DEF Sums, Ogg
<1>16. ASSUME NEW k \in 1 .. input, FlacFeed(k) \/ Mp3Feed(k) PROVE Sums'
  BY <1>16 DEF FlacFeed, Mp3Feed, Sums, Ogg
<1>17. CASE EndFlac \/ EndMp3
  BY <1>17 DEF EndFlac, EndMp3, Sums, Ogg
<1> QED
  BY <1>1, <1>2, <1>3, <1>4, <1>5, <1>6, <1>7, <1>9, <1>10, <1>11, <1>12, <1>13, <1>14, <1>15, <1>16,
     <1>17 DEF Next, Encoder, Loop, Start, Paging, Opus, Vorbis, Other, End

LEMMA DrainedStep ==
  ASSUME PlainTypes, Places, Started, Codec, Drained, [Next]_vars
  PROVE  Drained'
<1> USE DEF config, place, sound, pages, run
<1>0. /\ NameTypes /\ held \in Nat /\ pcmIndex \in Nat /\ UNCHANGED config /\ (Whole' => Whole)
      /\ (running' => running)
  BY Sizes, ConfigSame DEF PlainTypes, NumberTypes
<1>1. CASE \/ Top \/ NoChange \/ Change \/ FeedNothing \/ FeedDone \/ Leave
           \/ (\E n \in BlockSizes : Feed(n))
  <2>1. /\ UNCHANGED <<format, held, pcmIndex, codec, init, failed, stream>>
        /\ pc' \in Between \cup {"feeding", "start", "done"}
        /\ pc \in {"top", "change", "block", "feeding", "leave"}
    BY <1>1 DEF Top, NoChange, Change, FeedNothing, FeedDone, Leave, Feed, Goto, Between
  <2>2. Drains' => Drains /\ pc # "padding"
    BY <2>1 DEF Drains, Closing, Between
  <2> QED
    BY <1>0, <2>1, <2>2 DEF Drained, Between
<1>2. CASE Signal \/ UNCHANGED vars
  <2>1. UNCHANGED <<format, held, pcmIndex, codec, init, failed, stream, pc, next>>
    BY <1>2 DEF Signal, vars
  <2> QED
    BY <1>0, <2>1 DEF Drained, Drains, Closing
<1>3. CASE StartFails \/ StartOpus \/ StartVorbis
  <2>1. /\ UNCHANGED <<format, pcmIndex, init, failed>> /\ pc = "start" /\ ~init
        /\ format = "opus" => held' = held
        /\ format # "opus" => held' = 0
        /\ stream' = "none"
    BY <1>3 DEF StartFails, StartOpus, StartVorbis, StartStream, Started
  <2> QED
    BY <1>0, <2>1 DEF Drained, Drains
<1>4. CASE Begin
  BY <1>0, <1>4 DEF Begin, Drained, Drains, Closing, Started, Header, Places, Ogg, Goto
<1>5. CASE StartFlac \/ StartMp3 \/ StartPcm
  BY <1>0, <1>5 DEF StartFlac, StartMp3, StartPcm, StartPlain, Drained, Goto
<1>6. CASE PageOut \/ FlushPages
  <2>1. /\ UNCHANGED <<format, held, pcmIndex, codec, init, failed>> /\ format \in Ogg
        /\ pc \in {"paging", "flushing"} /\ next' = next /\ pc' \in {pc, next}
    BY <1>6 DEF PageOut, FlushPages, Places, Ogg
  <2>2. Drains' => Drains
    BY <2>1 DEF Drains, Closing, Places, Ogg, Started, Within
  <2> QED
    BY <1>0, <2>1, <2>2 DEF Drained, Ogg
<1>7. CASE OpusFeed \/ OpusDrain \/ OpusPad
  <2>1. OpusKeeps /\ format = "opus"
    BY <1>7, OpusFeedDoes, OpusDrainDoes, OpusPadDoes DEF OpusPad, OpusKeeps, Places
  <2> SUFFICES ASSUME Whole', Drains' PROVE held' = 0 /\ (pc' # "padding" => pcmIndex' = 0)
    BY <2>1 DEF Drained, OpusKeeps
  <2>2. Whole /\ ~failed' /\ init
    BY <1>0, <1>7 DEF Whole, Started, OpusFeed, OpusDrain, OpusPad, Within
  <2>3. ASSUME NEW w, NEW then, Stores(w, then), then \in {"feeding", "draining"} PROVE FALSE
    <3>1. init' /\ ((pc' = then /\ next' = next) \/ (pc' = "paging" /\ next' = then))
      BY <1>0, <2>2, <2>3, StoresGoes
    <3> QED
      BY <2>3, <3>1 DEF Drains, Closing
  <2>4. CASE OpusFeed
    BY <2>3, <2>4, OpusFeedDoes
  <2>5. CASE OpusDrain
    <3>1. held' = held /\ NotFull("padding") /\ held = 0
      BY <2>2, <2>3, <2>5, OpusDrainDoes DEF Whole
    <3> QED
      BY <3>1 DEF NotFull
  <2>6. CASE OpusPad
    <3>1. pcmIndex' = 0 /\ held' = held /\ pc = "padding"
      BY <2>1, <2>6, OpusPadDoes
    <3> QED
      BY <2>1, <2>2, <3>1 DEF Drained, Drains
  <2> QED
    BY <1>7, <2>4, <2>5, <2>6
<1>8. CASE ResampleFails \/ FlushFails
  BY <1>0, <1>8 DEF ResampleFails, FlushFails, Drained, Whole
<1>9. CASE OpusFinal
  BY <1>0, <1>9 DEF OpusFinal, Drained, Drains, Places
<1>10. CASE VorbisFeed
  <2>1. init /\ codec = "open" /\ codec' = codec /\ init' = init /\ format' = "vorbis" /\ format = "vorbis"
    BY <1>10 DEF VorbisFeed, Started, Codec, Within
  <2> QED
    BY <2>1 DEF Drained
<1>11. ASSUME NEW k \in 0 .. held, VorbisPacket(k) PROVE Drained'
  <2>1. /\ format' = "vorbis" /\ init' = init /\ init /\ held' = held - k /\ pc = "blocks"
        /\ (codec' = codec /\ codec = "open") \/ codec' = (IF k = held THEN "ended" ELSE "ending")
    BY <1>11 DEF VorbisPacket, Started, Places, Within
  <2>2. codec' = "ended" => held' = 0
    BY <1>0, <1>11, <2>1
  <2> QED
    BY <2>1, <2>2 DEF Drained
<1>12. CASE VorbisBlocksDone
  BY <1>0, <1>12 DEF VorbisBlocksDone, Drained, Drains, Places, Goto
<1>13. ASSUME NEW k \in 1 .. input, FlacFeed(k) \/ Mp3Feed(k) PROVE Drained'
  <2>1. /\ format' = format /\ format \in {"flac", "mp3"} /\ pc' \in {"feeding", "top"}
        /\ init \/ failed
        /\ (init' = init /\ failed' = failed) \/ failed' = TRUE
    BY <1>13 DEF FlacFeed, Mp3Feed, Goto, Started, Within
  <2>2. init' \/ failed'
    BY <2>1
  <2> QED
    BY <2>1, <2>2 DEF Drained
<1>14. CASE EndNothing \/ EndOgg
  BY <1>0, <1>14 DEF EndNothing, EndOgg, Goto, Drained, Drains, Closing, NameTypes, Ogg
<1>15. CASE EndFlac
  BY <1>15 DEF EndFlac, Goto, Drained
<1>16. CASE EndMp3
  BY <1>0, <1>16 DEF EndMp3, Goto, Drained
<1>17. CASE Ended
  <2>1. UNCHANGED <<format, held, pcmIndex, codec, failed, stream, running>> /\ pc = "ended" /\ pc' \in {"start", "done"}
    BY <1>0, <1>17 DEF Ended, Goto, NameTypes
  <2>2. Drains /\ Closing /\ (format = "vorbis" /\ running => codec = "ended")
    BY <2>1 DEF Drains, Closing, Codec
  <2> QED
    BY <1>0, <2>1, <2>2 DEF Drained
<1> QED
  BY <1>1, <1>2, <1>3, <1>4, <1>5, <1>6, <1>7, <1>8, <1>9, <1>10, <1>11, <1>12, <1>13, <1>14, <1>15,
     <1>16, <1>17 DEF Next, Encoder, Loop, Start, Paging, Opus, Vorbis, Other, End

LEMMA CodecStep ==
  ASSUME PlainTypes, Places, Started, Codec, [Next]_vars
  PROVE  Codec'
<1> USE DEF config, place, sound, pages, run, Header, Closing, Between
<1>0. NameTypes /\ UNCHANGED config /\ (running' => running)
  BY ConfigSame DEF PlainTypes
<1>1. CASE format # "vorbis"
  BY <1>0, <1>1 DEF Codec
<1> SUFFICES ASSUME format = "vorbis" PROVE Codec'
  BY <1>1
<1>2. CASE \/ Top \/ NoChange \/ Change \/ FeedNothing \/ FeedDone \/ Leave
           \/ (\E n \in BlockSizes : Feed(n))
  <2>1. /\ UNCHANGED <<codec, init>>
        /\ pc' \in Between \cup {"feeding", "start", "done"}
        /\ pc \in Between \cup {"feeding"}
    BY <1>2 DEF Top, NoChange, Change, FeedNothing, FeedDone, Leave, Feed, Goto
  <2> QED
    BY <1>0, <2>1 DEF Codec
<1>3. CASE Signal \/ UNCHANGED vars
  <2>1. UNCHANGED <<codec, init, pc, next>>
    BY <1>3 DEF Signal, vars
  <2> QED
    BY <1>0, <2>1 DEF Codec
<1>4. CASE StartFails \/ StartVorbis
  BY <1>0, <1>4 DEF StartFails, StartVorbis, StartStream, Goto, Codec, Started
<1>5. CASE Begin
  BY <1>0, <1>5 DEF Begin, Goto, Codec
<1>6. CASE StartOpus \/ StartFlac \/ StartMp3 \/ StartPcm \/ EndFlac \/ EndMp3 \/ Opus
  BY <1>6, OpusFeedDoes, OpusDrainDoes
     DEF StartOpus, StartFlac, StartMp3, StartPcm, EndFlac, EndMp3, Opus, OpusFeed, ResampleFails,
         OpusDrain, FlushFails, OpusPad, OpusFinal, Places
<1>7. CASE PageOut \/ FlushPages
  <2>1. /\ UNCHANGED <<codec, init, next>> /\ pc \in {"paging", "flushing"} /\ pc' \in {pc, next}
    BY <1>7 DEF PageOut, FlushPages
  <2> QED
    BY <1>0, <2>1 DEF Codec, Places
<1>8. CASE VorbisFeed \/ VorbisBlocksDone
  BY <1>0, <1>8 DEF VorbisFeed, VorbisBlocksDone, Goto, Codec, NameTypes
<1>9. ASSUME NEW k \in 0 .. held, VorbisPacket(k) PROVE Codec'
  BY <1>0, <1>9 DEF VorbisPacket, Codec
<1>10. ASSUME NEW k \in 1 .. input, FlacFeed(k) \/ Mp3Feed(k) PROVE Codec'
  BY <1>10 DEF FlacFeed, Mp3Feed
<1>11. CASE EndNothing \/ EndOgg \/ Ended
  BY <1>0, <1>11 DEF EndNothing, EndOgg, Ended, Goto, Codec, NameTypes
<1> QED
  BY <1>2, <1>3, <1>4, <1>5, <1>6, <1>7, <1>8, <1>9, <1>10, <1>11
     DEF Next, Encoder, Loop, Start, Paging, Vorbis, Other, End

\* Where the stream stays what it is, so does what ends it.
LEMMA EndsSame ==
  ASSUME StreamEnds, UNCHANGED <<format, pending, stream, lastGranule, endOfStream, track, init, codec>>,
         Closing' <=> Closing, failed => failed', running' => running,
         pc' \in {"start", "done"} => pc \in {"start", "done"}
  PROVE  StreamEnds'
<1>1. (Ends' <=> Ends) /\ (Quiet' <=> Quiet)
  BY StreamSame
<1> QED
  BY <1>1 DEF StreamEnds

LEMMA StreamEndsStep ==
  ASSUME PlainTypes, StreamTypes, Bounds, Places, Started, Streams, Codec, StreamEnds, [Next]_vars
  PROVE  StreamEnds'
<1> USE DEF config, place, sound, pages, run, Within
<1>0. /\ NameTypes /\ UNCHANGED config /\ (Whole' => Whole) /\ (running' => running)
  BY ConfigSame DEF PlainTypes
<1>1. CASE format \notin Ogg
  BY <1>0, <1>1 DEF StreamEnds, Ogg
<1> SUFFICES ASSUME format \in Ogg PROVE StreamEnds'
  BY <1>1
<1>2. CASE Top \/ NoChange \/ FeedNothing \/ FeedDone \/ (\E n \in BlockSizes : Feed(n))
           \/ Signal \/ VorbisFeed \/ UNCHANGED vars
  <2>1. /\ UNCHANGED <<format, pending, stream, lastGranule, endOfStream, track, init, codec, failed>>
        /\ Closing' <=> Closing
        /\ pc' \in {"start", "done"} => pc \in {"start", "done"}
    BY <1>2 DEF Top, NoChange, FeedNothing, FeedDone, Feed, Signal, VorbisFeed, Closing, Goto, Ogg, vars
  <2> QED
    BY <1>0, <2>1, EndsSame
<1>3. CASE Change \/ Leave
  <2>1. /\ UNCHANGED <<format, pending, stream, lastGranule, endOfStream, init, codec, failed, running>>
        /\ ~Closing /\ ~Closing' /\ pc \in {"change", "leave"}
        /\ pc' \in {"start", "done"} /\ track' => ~track
    BY <1>3 DEF Change, Leave, Closing, Goto
  <2>2. (Ends' <=> Ends) /\ (Quiet' <=> Quiet)
    BY <2>1, StreamSame
  <2>3. ~track /\ ~failed => ~Opened
    BY <2>1 DEF Started, Streams, Between
  <2> QED
    BY <2>1, <2>2, <2>3 DEF StreamEnds, Opened
<1>4. CASE StartFails \/ StartOpus \/ StartVorbis
  <2>1. /\ UNCHANGED <<format, init>> /\ ~init /\ pc' \in {"block", "flushing"} /\ ~Closing'
    BY <1>4 DEF StartFails, StartOpus, StartVorbis, StartStream, Started, Closing, Goto
  <2> QED
    BY <2>1 DEF StreamEnds
<1>5. CASE Begin
  <2>1. /\ UNCHANGED <<format, pending, codec>> /\ pc' = "block" /\ ~endOfStream' /\ pending = <<>>
        /\ format = "vorbis" => codec = "open"
    BY <1>5 DEF Begin, Goto, Streams, Codec, Header
  <2>2. Quiet'
    BY <2>1 DEF Quiet
  <2> QED
    BY <2>1, <2>2 DEF StreamEnds, Closing
<1>6. CASE PageSent /\ UNCHANGED <<format, init, codec, track, failed>> /\ (Closing' <=> Closing)
           /\ pc' \notin {"start", "done"}
  BY <1>6 DEF PageSent, StreamEnds
<1>7. CASE PageOut
  <2>1. /\ pc = "paging" /\ UNCHANGED <<format, init, codec, track, failed>>
        /\ (PageSent /\ pc' = pc) \/ (UNCHANGED pages /\ pc' = next)
        /\ next' = next
    BY <1>7, PageOutDoes
  <2>2. ~Closing /\ ~Closing' /\ pc' \notin {"start", "done"}
    BY <2>1 DEF Closing, Places
  <2> QED
    BY <1>0, <1>6, <2>1, <2>2, EndsSame
<1>8. CASE FlushPages
  <2>1. /\ pc = "flushing" /\ UNCHANGED <<format, init, codec, track, failed>> /\ next' = next
        /\ (PageSent /\ pc' = pc) \/ (UNCHANGED pages /\ pc' = next)
    BY <1>8, FlushPagesDoes
  <2>2. (Closing' <=> Closing) /\ pc' \notin {"start", "done"}
    BY <2>1 DEF Closing, Places
  <2> QED
    BY <1>0, <1>6, <2>1, <2>2, EndsSame
<1>9. ASSUME NEW eos \in BOOLEAN, PacketMade(eos), pc \in Within, pc' \notin {"start", "done"},
             UNCHANGED <<format, track, endOfStream>>, init' => init,
             format = "opus" => (Closing' <=> eos),
             format = "vorbis" => (codec' = "ended" <=> eos) /\ (codec' # "ended" => codec # "ended")
      PROVE  StreamEnds'
  BY <1>9 DEF PacketMade, StreamEnds, Closing
<1>10. CASE OpusFeed \/ OpusDrain \/ OpusPad
  <2>1. OpusStream /\ pc \in Within /\ format = "opus" /\ ~Closing
    BY <1>10, OpusStreams DEF OpusFeed, OpusDrain, OpusPad, OpusStream, OpusKeeps, Closing
  <2>2. pc' \in Within /\ (init' => init)
    <3>1. ASSUME NEW w, NEW then, Stores(w, then), then \in Within PROVE pc' \in Within /\ (init' => init)
      BY <1>0, <3>1, StoresGoes
    <3>2. CASE OpusFeed
      BY <3>1, <3>2, OpusFeedDoes
    <3>3. CASE OpusDrain
      BY <3>1, <3>3, OpusDrainDoes DEF NotFull
    <3>4. CASE OpusPad
      <4>1. Encoded(pcmIndex, "final") \/ NotEncoded("final")
        BY <2>1, <3>4, OpusPadDoes
      <4>2. (pc' = "final" \/ pc' = "paging") /\ (init' = init \/ init' = FALSE)
        BY <4>1 DEF Encoded, NotEncoded
      <4> QED
        BY <1>0, <4>2 DEF NameTypes
    <3> QED
      BY <1>10, <3>2, <3>3, <3>4
  <2>3. ~Closing' /\ pc' \notin {"start", "done"} /\ UNCHANGED <<format, track, endOfStream>>
    BY <2>1, <2>2 DEF Closing, OpusStream, OpusKeeps
  <2>4. CASE PacketMade(FALSE)
    <3>1. PICK eos \in BOOLEAN : eos = FALSE /\ PacketMade(eos)
      BY <2>4
    <3> QED
      BY <1>9, <2>1, <2>2, <2>3, <3>1
  <2>5. CASE UNCHANGED pages
    <3>1. Quiet' <=> Quiet
      BY <2>5, StreamSame
    <3> QED
      BY <2>1, <2>2, <2>3, <2>5, <3>1 DEF StreamEnds
  <2> QED
    BY <2>1, <2>4, <2>5 DEF OpusStream
<1>11. CASE OpusFinal
  <2>1. PICK eos \in BOOLEAN : eos = TRUE /\ PacketMade(eos)
    BY <1>11, OpusFinalMakes
  <2>2. /\ pc \in Within /\ pc' = "flushing" /\ next' = "ended" /\ format = "opus"
        /\ UNCHANGED <<format, track, endOfStream, init>>
    BY <1>11 DEF OpusFinal, Places
  <2> QED
    BY <1>9, <2>1, <2>2 DEF Closing
<1>12. CASE ResampleFails \/ FlushFails
  <2>1. /\ UNCHANGED <<format, pending, stream, lastGranule, endOfStream, track, init, codec>>
        /\ Closing' <=> Closing
        /\ pc' \notin {"start", "done"} /\ failed' = TRUE
    BY <1>12 DEF ResampleFails, FlushFails, Closing, Goto
  <2> QED
    BY <1>0, <2>1, EndsSame
<1>13. ASSUME NEW k \in 0 .. held, VorbisPacket(k) PROVE StreamEnds'
  <2>1. PacketMade(codec' = "ended")
    BY <1>13, VorbisPacketMakes
  <2>2. PICK eos \in BOOLEAN : eos = (codec' = "ended") /\ PacketMade(eos)
    BY <2>1
  <2>3. /\ pc \in Within /\ pc' = "paging" /\ format = "vorbis" /\ codec # "ended"
        /\ UNCHANGED <<format, track, endOfStream, init>>
    BY <1>13 DEF VorbisPacket, Places
  <2> QED
    BY <1>9, <2>2, <2>3
<1>14. CASE VorbisBlocksDone
  <2>1. /\ UNCHANGED <<format, pending, stream, lastGranule, endOfStream, track, init, codec>>
        /\ pc' \notin {"start", "done"} /\ format = "vorbis"
    BY <1>14 DEF VorbisBlocksDone, Places, Goto
  <2>2. (Ends' <=> Ends) /\ (Quiet' <=> Quiet)
    BY <2>1, StreamSame
  <2> QED
    BY <2>1, <2>2 DEF StreamEnds
<1>15. CASE EndNothing
  <2>1. /\ UNCHANGED <<format, pending, stream, lastGranule, endOfStream, track, init, codec, failed>>
        /\ ~Closing /\ ~Closing' /\ ~init /\ pc = "ending"
    BY <1>0, <1>15 DEF EndNothing, Closing, Goto, NameTypes
  <2>2. ~failed => ~Opened
    BY <2>1 DEF Streams, Between
  <2> QED
    BY <2>1, <2>2 DEF StreamEnds, Opened
<1>16. CASE EndOgg
  <2>1. /\ UNCHANGED <<format, pending, stream, lastGranule, endOfStream, init>>
        /\ ~Closing /\ ~Closing' /\ init /\ pc' \notin {"start", "done"}
        /\ format = "vorbis" => codec' = "ending" /\ codec = "open"
        /\ format # "vorbis" => codec' = codec
    BY <1>16 DEF EndOgg, Closing, Goto, Codec, Between
  <2>2. (Ends' <=> Ends) /\ (Quiet' <=> Quiet)
    BY <2>1, StreamSame
  <2> QED
    BY <2>1, <2>2 DEF StreamEnds
<1>17. CASE Ended
  <2>1. /\ UNCHANGED <<format, pending, stream, codec, failed, running>>
        /\ pc = "ended" /\ pc' \in {"start", "done"} /\ init' = FALSE
    BY <1>0, <1>17 DEF Ended, Goto, NameTypes
  <2>2. Closing /\ pending = <<>> /\ (init \/ failed) /\ (format = "vorbis" => ~failed)
    BY <2>1 DEF Closing, Streams, Started
  <2>3. format = "vorbis" /\ running => stream = "ended"
    BY <2>1, <2>2 DEF StreamEnds, Codec, Ends
  <2>4. format = "opus" => stream = "ended"
    BY <2>1, <2>2 DEF StreamEnds, Ends
  <2>5. ~Closing'
    BY <2>1 DEF Closing
  <2> QED
    BY <2>1, <2>2, <2>3, <2>4, <2>5 DEF StreamEnds, Ogg
<1>18. CASE StartFlac \/ StartMp3 \/ StartPcm \/ EndFlac \/ EndMp3
  BY <1>18 DEF StartFlac, StartMp3, StartPcm, EndFlac, EndMp3, Ogg
<1>19. ASSUME NEW k \in 1 .. input, FlacFeed(k) \/ Mp3Feed(k) PROVE StreamEnds'
  BY <1>19 DEF FlacFeed, Mp3Feed, Ogg
<1> QED
  BY <1>2, <1>3, <1>4, <1>5, <1>7, <1>8, <1>10, <1>11, <1>12, <1>13, <1>14, <1>15,
     <1>16, <1>17, <1>18, <1>19 DEF Next, Encoder, Loop, Start, Paging, Opus, Vorbis, Other, End

\* Once no page can be made, less than a page waits: the threshold is not reached, and
\* granulesInPage_ did not wrap.
LEMMA NearEnough ==
  ASSUME Ranges, Granules, StreamEnds, format \in Ogg, Opened, ~Header, ~Closing, init, running,
         format = "vorbis" => codec = "open",
         ~Enough \/ ~running \/ endOfStream \/ pending = <<>>
  PROVE  granuleIndex - lastGranule < Threshold
<1>0. /\ PlainTypes /\ StreamTypes /\ Bounds
      /\ granuleIndex \in Nat /\ held \in Nat /\ input \in Nat /\ pcmIndex \in Nat /\ lastGranule \in Nat
      /\ frames \in 0 .. MaxFrames /\ Threshold \in Nat \ {0}
      /\ MaxFrames \in Nat /\ Block \in Nat /\ Width \in Nat /\ Lookahead \in 0 .. Block - 1
      /\ Width > MaxFrames + Block
  BY TypesApart, Sizes DEF Ranges, PlainTypes, NumberTypes, StreamTypes
<1>1. Covered /\ Behind(granuleIndex)
  BY DEF Granules, Covered
<1>2. ~endOfStream
  BY DEF StreamEnds, Ogg
<1>3. CASE pending = <<>>
  <2>1. lastGranule = granuleIndex
    BY <1>1, <1>3 DEF Covered, LastPosition
  <2> QED
    BY <1>0, <2>1
<1>4. CASE ~Enough
  <2> DEFINE waiting == Given - lastGranule
  <2>1. lastGranule <= granuleIndex /\ granuleIndex + pcmIndex + held + input <= Lookahead + frames
    BY <1>0, <1>1 DEF Behind, Bounds
  <2>2. Given \in Nat /\ granuleIndex <= Given /\ Given <= granuleIndex + held
    BY <1>0 DEF Given
  <2>3. waiting \in 0 .. Width - 1 /\ granuleIndex - lastGranule <= waiting
    BY <1>0, <2>1, <2>2
  <2>4. granulesInPage = waiting
    BY <1>1, <2>3, WrapSmall DEF Covered
  <2>5. ~(waiting >= Threshold)
    BY <1>4, <2>4 DEF Enough
  <2> HIDE DEF waiting
  <2> QED
    BY <1>0, <2>3, <2>5
<1> QED
  BY <1>2, <1>3, <1>4

LEMMA NearStep ==
  ASSUME Ranges, Places, Started, Streams, Granules, StreamEnds, Near, [Next]_vars
  PROVE  Near'
<1> USE DEF config, place, sound, pages, run
<1>0. /\ PlainTypes /\ NameTypes /\ StreamTypes /\ Bounds /\ granuleIndex \in Nat /\ lastGranule \in Nat
      /\ Threshold \in Nat \ {0}
  BY TypesApart, Sizes DEF Ranges, PlainTypes, NumberTypes, StreamTypes
<1>18. UNCHANGED config /\ (running' => running)
  BY <1>0, ConfigSame
<1> SUFFICES ASSUME format \in Ogg, init', running', format = "vorbis" => codec' = "open",
                    pc' \in {"top", "change", "block", "feeding", "blocks"}
             PROVE  granuleIndex' - lastGranule' < Threshold
  BY <1>18 DEF Near
<1>1. ASSUME UNCHANGED <<granuleIndex, lastGranule, init, codec>>,
             pc \in {"top", "change", "block", "feeding", "blocks"}
      PROVE  granuleIndex' - lastGranule' < Threshold
  BY <1>18, <1>1 DEF Near
<1>2. CASE Top \/ NoChange \/ FeedNothing \/ FeedDone \/ (\E n \in BlockSizes : Feed(n))
  BY <1>1, <1>2 DEF Top, NoChange, FeedNothing, FeedDone, Feed, Ogg
<1>3. CASE Signal \/ ResampleFails \/ UNCHANGED vars
  BY <1>1, <1>3 DEF Signal, ResampleFails, vars
<1>4. CASE Change \/ Leave
  BY <1>4 DEF Change, Leave
<1>5. CASE StartFails \/ StartOpus \/ StartVorbis
  BY <1>5 DEF StartFails, StartOpus, StartVorbis, StartStream, Started
<1>6. CASE Begin
  <2>1. pending = <<>> /\ Opened
    BY <1>6 DEF Begin, Streams, Header
  <2>2. granuleIndex = lastGranule
    BY <2>1 DEF Granules, Covered, LastPosition
  <2>3. granuleIndex' = granuleIndex /\ lastGranule' = lastGranule
    BY <1>6 DEF Begin
  <2> QED
    BY <1>0, <2>2, <2>3
<1>7. CASE PageOut
  <2>1. /\ pc = "paging" /\ UNCHANGED <<init, codec, granuleIndex, lastGranule>>
        /\ ~Enough \/ ~running \/ endOfStream \/ pending = <<>>
    BY <1>0, <1>7, PageOutDoes
  <2>2. Opened /\ ~Header /\ ~Closing
    BY <2>1 DEF Streams, Within, Header, Closing
  <2>3. granuleIndex - lastGranule < Threshold
    BY <1>18, <2>1, <2>2, NearEnough
  <2> QED
    BY <2>1, <2>3
<1>8. CASE FlushPages
  BY <1>8 DEF FlushPages, Places
<1>9. CASE OpusFeed
  <2>1. PICK w \in 0 .. Space : Stores(w, "feeding") /\ OpusKeeps /\ pc = "feeding"
    BY <1>0, <1>9, OpusFeedDoes
  <2>2. init /\ UNCHANGED <<lastGranule, codec>> /\ format = "opus"
    BY <1>0, <2>1, StoresGoes DEF OpusKeeps
  <2>3. granuleIndex' = granuleIndex
    BY <2>1 DEF Stores, NotFull, NotEncoded, Encoded
  <2> QED
    BY <1>18, <2>1, <2>2, <2>3 DEF Near
<1>10. CASE OpusDrain
  BY <1>0, <1>10, OpusDrainDoes DEF Stores, NotFull, NotEncoded, Encoded
<1>11. CASE OpusPad
  BY <1>11, OpusPadDoes DEF NotEncoded, Encoded, OpusPad, Places
<1>12. CASE FlushFails \/ OpusFinal
  BY <1>12 DEF FlushFails, OpusFinal, Goto
<1>13. CASE VorbisFeed \/ VorbisBlocksDone
  BY <1>1, <1>13 DEF VorbisFeed, VorbisBlocksDone
<1>14. CASE \E k \in 0 .. held : VorbisPacket(k)
  BY <1>14 DEF VorbisPacket
<1>15. CASE EndNothing \/ EndOgg \/ Ended
  <2>1. goal \in {"start", "done"}
    BY <1>0 DEF NameTypes
  <2>2. CASE EndNothing \/ Ended
    BY <2>1, <2>2 DEF EndNothing, Ended, Goto
  <2>3. CASE EndOgg
    <3>1. format = "vorbis" => codec' = "ending"
      BY <2>3 DEF EndOgg
    <3>2. format # "vorbis" => pc' = "draining"
      BY <2>3 DEF EndOgg, Goto, Ogg
    <3> QED
      BY <3>1, <3>2
  <2> QED
    BY <1>15, <2>2, <2>3
<1>16. CASE StartFlac \/ StartMp3 \/ StartPcm \/ EndFlac \/ EndMp3
  BY <1>16 DEF StartFlac, StartMp3, StartPcm, EndFlac, EndMp3, Ogg
<1>17. ASSUME NEW k \in 1 .. input, FlacFeed(k) \/ Mp3Feed(k)
       PROVE  granuleIndex' - lastGranule' < Threshold
  BY <1>17 DEF FlacFeed, Mp3Feed, Ogg
<1> QED
  BY <1>2, <1>3, <1>4, <1>5, <1>6, <1>7, <1>8, <1>9, <1>10, <1>11, <1>12, <1>13, <1>14, <1>15,
     <1>16, <1>17 DEF Next, Encoder, Loop, Start, Paging, Opus, Vorbis, Other, End

-----------------------------------------------------------------------------
(* The theorems.                                                           *)

LEMMA InitFormatInv == Init => FormatInv
<1> SUFFICES ASSUME Init PROVE FormatInv
  OBVIOUS
<1> USE DEF Init
<1>0. Wrap(0) = 0 /\ 0 \in 0 .. Width - 1
  BY Sizes, WrapSmall
<1>1. TypeOK
  <2>1. /\ 0 \in 0 .. MaxFrames /\ 0 \in 0 .. MaxHeld /\ 0 \in 0 .. MaxTracks
        /\ 0 \in 0 .. Block - 1 /\ 0 \in 0 .. Lookahead + 2 * MaxFrames /\ 0 \in 0 .. Lookahead + MaxFrames
    BY Sizes
  <2>2. <<>> \in Seq([granule : 0 .. Lookahead + MaxFrames, eos : BOOLEAN, wide : BOOLEAN])
    OBVIOUS
  <2>3. held \in 0 .. IF format = "opus" THEN MaxHeld ELSE MaxFrames
    BY <2>1
  <2>4. {granulesInPage, lastGranule, announced} \subseteq 0 .. Width - 1
    BY <1>0
  <2> QED
    BY <1>0, <2>1, <2>2, <2>3, <2>4 DEF TypeOK
<1>2. Bounds
  BY Sizes DEF Bounds
<1>3. Places /\ Started /\ Streams
  BY DEF Places, Started, Streams, Header, Closing, Between, Within, Opened, Ogg
<1>4. Granules
  BY DEF Granules, Opened
<1>5. Sums
  BY <1>0 DEF Sums, Header, Opened, Ogg
<1>6. Drained /\ Codec
  BY DEF Drained, Codec, Header, Closing
<1>7. StreamEnds /\ Near
  BY DEF StreamEnds, Near, Closing
<1> QED
  BY <1>1, <1>2, <1>3, <1>4, <1>5, <1>6, <1>7 DEF FormatInv, Ranges

LEMMA NextFormatInv == FormatInv /\ [Next]_vars => FormatInv'
<1> SUFFICES ASSUME FormatInv, [Next]_vars PROVE FormatInv'
  OBVIOUS
<1>1. /\ Ranges /\ Places /\ Started /\ Streams /\ Granules /\ Sums /\ Drained /\ Codec
      /\ StreamEnds /\ Near
  BY DEF FormatInv
<1>2. PlainTypes /\ StreamTypes /\ Bounds
  BY <1>1, TypesApart DEF Ranges
<1>3. Ranges' /\ Places' /\ Started' /\ Streams'
  BY <1>1, <1>2, RangesStep, PlacesStep, StartedStep, StreamsStep
<1>4. Granules' /\ Sums' /\ Drained'
  BY <1>1, <1>2, GranulesStep, SumsStep, DrainedStep
<1>5. Codec' /\ StreamEnds' /\ Near'
  BY <1>1, <1>2, CodecStep, StreamEndsStep, NearStep
<1> QED
  BY <1>3, <1>4, <1>5 DEF FormatInv

\* At the end of a track, all its frames are in the stream.
LEMMA FormatInvFrames == FormatInv => FramesAddUp
<1> SUFFICES ASSUME FormatInv PROVE FramesAddUp
  OBVIOUS
<1>1. TypeOK /\ PlainTypes /\ StreamTypes
  BY TypesApart DEF FormatInv, Ranges
<1>2. GranulesAddUp
  <2>1. format \in Ogg /\ init => granulesInPage = Wrap(Given - lastGranule)
    BY DEF FormatInv, Granules, Covered, Streams
  <2> DEFINE inside == IF format = "vorbis" THEN held ELSE 0
  <2>2. Given = granuleIndex + inside
    BY DEF Given
  <2>3. inside \in Nat /\ granuleIndex \in Nat /\ lastGranule \in Int
    BY <1>1, Sizes DEF PlainTypes, NumberTypes, StreamTypes
  <2> HIDE DEF inside
  <2>4. Given - lastGranule = granuleIndex + (inside - lastGranule)
    BY <2>2, <2>3
  <2> QED
    BY <2>1, <2>4 DEF GranulesAddUp, inside
<1>3. ASSUME Over, running, ~failed, format \notin {"mp3", "flac"} PROVE announced = Wrap(fed)
  <2>1. ~init /\ pc \in {"start", "done"} /\ track
    BY <1>3 DEF FormatInv, Started, Over
  <2>2. CASE format = "pcm"
    BY <2>2 DEF FormatInv, Sums
  <2>3. CASE format \in Ogg /\ ~Opened
    BY <2>3, Sizes, WrapSmall DEF FormatInv, Sums
  <2>4. CASE format \in Ogg /\ Opened
    <3>1. Whole /\ ~Header /\ pending = <<>> /\ input = 0 /\ Drains
      BY <1>1, <1>3, <2>1, <2>4
         DEF FormatInv, Whole, Header, StreamEnds, Places, Drains, PlainTypes, NumberTypes
    <3>2. announced = granuleIndex
      BY <2>4, <3>1 DEF FormatInv, Granules, Covered, LastPosition
    <3>3. held = 0 /\ (format = "opus" => pcmIndex = 0)
      BY <1>3, <2>1, <2>4, <3>1 DEF FormatInv, Drained, Ogg
    <3>4. fed = granuleIndex
      <4>1. granuleIndex + 0 + 0 + 0 = granuleIndex /\ granuleIndex + 0 + 0 = granuleIndex
        BY <1>1 DEF PlainTypes, NumberTypes
      <4> QED
        BY <2>4, <3>1, <3>3, <4>1 DEF FormatInv, Sums, Ogg
    <3> QED
      BY <1>1, <3>2, <3>4, WrapSmall DEF StreamTypes
  <2> QED
    BY <1>1, <1>3, <2>2, <2>3, <2>4, FormatAssumption DEF PlainTypes, NameTypes
<1> QED
  BY <1>1, <1>2, <1>3 DEF FramesAddUp

\* The frames that wait for a page are counted modulo Width, but are fewer.
LEMMA FormatInvPages == FormatInv => PagesNotHeld
<1> SUFFICES ASSUME FormatInv, pc = "top", format \in Ogg, init, running
             PROVE  Wrap(granuleIndex - lastGranule) < Threshold
  BY DEF PagesNotHeld
<1>1. /\ Bounds /\ PlainTypes /\ StreamTypes
  BY TypesApart DEF FormatInv, Ranges
<1>2. granuleIndex - lastGranule < Threshold
  BY DEF FormatInv, Near, Codec, Between
<1>3. granuleIndex - lastGranule \in 0 .. Width - 1
  <2>1. Behind(granuleIndex)
    BY DEF FormatInv, Streams, Granules, Covered, Header
  <2>2. /\ granuleIndex \in Nat /\ held \in Nat /\ input \in Nat /\ pcmIndex \in Nat /\ lastGranule \in Nat
        /\ frames \in 0 .. MaxFrames /\ MaxFrames \in Nat /\ Block \in Nat /\ Width \in Nat
        /\ Lookahead \in 0 .. Block - 1 /\ Width > MaxFrames + Block
    BY <1>1, Sizes DEF PlainTypes, NumberTypes, StreamTypes
  <2>3. lastGranule <= granuleIndex /\ granuleIndex + pcmIndex + held + input <= Lookahead + frames
    BY <1>1, <2>1 DEF Behind, Bounds
  <2> QED
    BY <2>2, <2>3
<1> QED
  BY <1>2, <1>3, WrapSmall

\* At the end of a track, its stream has its last packet, and the codec holds nothing.
LEMMA FormatInvEnds == FormatInv => StreamsEnd
<1> SUFFICES ASSUME FormatInv, Over, ~failed
             PROVE  /\ stream = "begun" => format = "vorbis" /\ ~running
                    /\ pending = <<>>
                    /\ held > 0 => format \in {"opus", "vorbis"} /\ ~running
  BY DEF StreamsEnd
<1>1. /\ PlainTypes /\ ~init /\ pc \in {"start", "done"} /\ track
      /\ format \in Ogg \cup {"flac", "mp3", "pcm"}
  BY TypesApart, FormatAssumption DEF FormatInv, Ranges, Started, Over, PlainTypes, NameTypes
<1>2. CASE format \in Ogg
  <2>1. pending = <<>> /\ (stream = "begun" => format = "vorbis" /\ ~running)
    BY <1>1, <1>2 DEF FormatInv, StreamEnds
  <2>2. running => held = 0
    BY <1>1, <1>2 DEF FormatInv, Drained, Drains, Whole, Ogg
  <2> QED
    BY <1>1, <1>2, <2>1, <2>2 DEF Ogg
<1>3. CASE format \notin Ogg
  <2>1. pending = <<>> /\ held = 0 /\ stream # "begun"
    BY <1>1, <1>3 DEF FormatInv, Streams, Drained, Ogg
  <2> QED
    BY <2>1
<1> QED
  BY <1>2, <1>3

LEMMA FormatInvAlways == Spec => []FormatInv
  BY InitFormatInv, NextFormatInv, PTL DEF Spec

\* Over a track, in any format but MP3 and FLAC, the frames that the encoder announces
\* are those that it was given, whatever resampler, codec and libogg hold back, while
\* there is no signal and nothing fails; and granulesInPage_, which goes below zero
\* for pages without a position, comes out right.
THEOREM FramesAddUpAlways == Spec => []FramesAddUp
  BY FormatInvFrames, FormatInvAlways, PTL

\* Whenever pcmBlock returns to the loop of run, less than the threshold of sound waits
\* for a page: the loops at the end of flushBuffer_ and in flushBuffers_ send a page as
\* soon as there is enough for one.
THEOREM PagesNotHeldAlways == Spec => []PagesNotHeld
  BY FormatInvPages, FormatInvAlways, PTL

\* When endTrack has returned, the Ogg stream of the track is ended and no packet waits,
\* but for a signal or a call that failed, and no frame stays in a codec.
THEOREM StreamsEndAlways == Spec => []StreamsEnd
  BY FormatInvEnds, FormatInvAlways, PTL

-----------------------------------------------------------------------------
(* The barrier keeps any number of encoders together, for any range of its *)
(* tokens, as long as no round begins before the one before it has been    *)
(* left.  Until then, and until free(), a round is either gathering or     *)
(* being left, and the fields count the encoders in sync().                *)

N == Cardinality(Encoders)

\* The encoders in sync().
Inside == {e \in Encoders : where[e] # "out"}

BarrierTypes ==
  /\ queued \in Nat /\ visited \in Nat /\ listeners \in Nat
  /\ where \in [Encoders -> {"out", "wait", "woken"}]
  /\ entered \in [Encoders -> Nat]
  /\ freed \in BOOLEAN /\ late \in BOOLEAN

\* Everyone has got past r track changes, and those inside wait at the next.
Gathering(r) ==
  /\ visited = 0
  /\ queued < N /\ queued = Cardinality(Inside)
  /\ queued # 0 => token = Token(r + 1)
  /\ \A e \in Encoders : entered[e] = IF where[e] = "out" THEN r ELSE r + 1

\* All have reached track change r, and those inside have still to leave it.
Leaving(r) ==
  /\ visited \in 1 .. N - 1
  /\ queued = N /\ N - visited = Cardinality(Inside)
  /\ token = Token(r)
  /\ \A e \in Encoders : entered[e] = r

Round == listeners = N /\ \E r \in Nat : Gathering(r) \/ Leaving(r)

BarrierInv == BarrierTypes /\ (late \/ freed \/ Round)

-----------------------------------------------------------------------------
\* The number of encoders is a number, and not 0.
LEMMA EncodersCounted == N \in Nat \ {0}
  BY EncodersAssumption, FS_CardinalityType, FS_EmptySet DEF N

\* So is that of the encoders in sync(); there are none only if it is 0, and
\* all but one of the encoders are inside if it is one less.
LEMMA InsideCounted ==
  /\ IsFiniteSet(Inside) /\ Cardinality(Inside) \in Nat
  /\ Cardinality(Inside) = 0 <=> Inside = {}
  /\ \A e \in Encoders :
       e \notin Inside /\ Cardinality(Inside) = N - 1 => Inside = Encoders \ {e}
<1>1. IsFiniteSet(Inside) /\ Cardinality(Inside) \in Nat
  BY EncodersAssumption, FS_Subset, FS_CardinalityType DEF Inside
<1>2. ASSUME NEW e \in Encoders, e \notin Inside, Cardinality(Inside) = N - 1
      PROVE  Inside = Encoders \ {e}
  <2>1. IsFiniteSet(Encoders \ {e}) /\ Cardinality(Encoders \ {e}) = N - 1
    BY EncodersAssumption, FS_RemoveElement DEF N
  <2>2. Inside \subseteq Encoders \ {e}
    BY <1>2 DEF Inside
  <2> QED
    BY <1>2, <2>1, <2>2, FS_Subset
<1> QED
  BY <1>1, <1>2, FS_EmptySet

\* Encoders go in and out one by one.
LEMMA OneMore ==
  ASSUME NEW e \in Encoders, e \notin Inside, Inside' = Inside \cup {e}
  PROVE  Cardinality(Inside)' = Cardinality(Inside) + 1
  BY InsideCounted, FS_AddElement

LEMMA OneLess ==
  ASSUME NEW e \in Encoders, e \in Inside, Inside' = Inside \ {e}
  PROVE  Cardinality(Inside)' = Cardinality(Inside) - 1
  BY InsideCounted, FS_RemoveElement

-----------------------------------------------------------------------------
LEMMA InitBarrierInv == BarrierInit => BarrierInv
<1> SUFFICES ASSUME BarrierInit PROVE BarrierInv
  OBVIOUS
<1> USE EncodersCounted
<1>1. BarrierTypes
  BY DEF BarrierInit, BarrierTypes, N
<1>2. Cardinality(Inside) = 0
  BY FS_EmptySet DEF Inside, BarrierInit
<1>3. Gathering(0)
  BY <1>2 DEF Gathering, BarrierInit
<1> QED
  BY <1>1, <1>3 DEF BarrierInv, Round, BarrierInit, N

\* Every step keeps the types.
LEMMA BarrierTypesStep == BarrierTypes /\ [BarrierNext]_barrierVars => BarrierTypes'
<1> SUFFICES ASSUME BarrierTypes, [BarrierNext]_barrierVars PROVE BarrierTypes'
  OBVIOUS
<1> USE DEF BarrierTypes
<1>1. CASE \E e \in Encoders : Sync(e)
  <2> PICK e \in Encoders : Sync(e)
    BY <1>1
  <2>1. CASE SyncSkips(e)
    BY <2>1 DEF SyncSkips, Enters
  <2>2. CASE SyncWaits(e)
    BY <2>2 DEF SyncWaits, Enters, Queue, Awake, Seen, NotifyAll
  <2>3. CASE SyncReleases(e)
    BY <2>3 DEF SyncReleases, Enters, Queue, Seen, NotifyAll, LeaveRound
  <2> QED
    BY <2>1, <2>2, <2>3 DEF Sync
<1>2. CASE \E e \in Encoders : Resume(e) \/ SpuriousWakeup(e)
  BY <1>2 DEF Resume, SleepsAgain, GivesUp, Passes, LeaveRound, SpuriousWakeup
<1>3. CASE Free
  BY <1>3 DEF Free, NotifyAll
<1>4. CASE UNCHANGED barrierVars
  BY <1>4 DEF barrierVars
<1> QED
  BY <1>1, <1>2, <1>3, <1>4 DEF BarrierNext

\* An encoder that comes while a round gathers joins it, or completes it.
LEMMA SyncStep ==
  ASSUME BarrierTypes, NEW r \in Nat, Gathering(r), listeners = N,
         NEW e \in Encoders, Sync(e)
  PROVE  Round'
<1> USE EncodersCounted, InsideCounted DEF BarrierTypes
<1> DEFINE t == Token(entered[e] + 1)
<1>1. /\ where[e] = "out" /\ entered[e] = r /\ e \notin Inside
      /\ entered' = [entered EXCEPT ![e] = r + 1] /\ listeners' = N
  BY DEF Sync, SyncSkips, SyncWaits, SyncReleases, Enters, Gathering, Inside
<1>2. t = Token(r + 1)
  BY <1>1
<1>3. ~Contested(t)
  BY <1>2 DEF Contested, Gathering
<1>4. ~SyncSkips(e)
  BY <1>3 DEF SyncSkips, Skips
<1>5. CASE SyncWaits(e)
  <2>1. /\ queued' = queued + 1 /\ visited' = 0 /\ queued + 1 < N
        /\ token' = Token(r + 1) /\ where' = [where EXCEPT ![e] = "wait"]
    BY <1>2, <1>3, <1>5 DEF SyncWaits, Queue, Awake, Seen, Resets, Complete, Gathering
  <2>2. Inside' = Inside \cup {e}
    BY <2>1 DEF Inside
  <2>3. Gathering(r)'
    BY <1>1, <2>1, <2>2, OneMore DEF Gathering
  <2> QED
    BY <1>1, <2>3 DEF Round, N
<1>6. CASE SyncReleases(e)
  <2>1. /\ queued + 1 = N /\ token' = Token(r + 1) /\ where' = NotifyAll
        /\ LeaveRound(N, 0)
    BY <1>2, <1>3, <1>6 DEF SyncReleases, Queue, Seen, Resets, Complete, Gathering
  <2>2. Inside' = Inside
    BY <2>1 DEF Inside, NotifyAll
  <2>3. Inside = Encoders \ {e}
    BY <1>1, <2>1 DEF Gathering
  <2>4. \A f \in Encoders : entered'[f] = r + 1
    BY <1>1, <2>3 DEF Gathering, Inside
  <2>5. CASE N = 1
    <3>1. queued' = 0 /\ visited' = 0
      BY <2>1, <2>5 DEF LeaveRound
    <3>2. Inside' = {} /\ Cardinality(Inside)' = 0
      BY <2>1, <2>2, <2>5 DEF Gathering
    <3>3. \A f \in Encoders : where'[f] = "out"
      BY <3>2 DEF Inside
    <3>4. Gathering(r + 1)'
      BY <2>4, <2>5, <3>1, <3>2, <3>3 DEF Gathering, N
    <3> QED
      BY <1>1, <3>4 DEF Round, N
  <2>6. CASE N # 1
    <3>1. queued' = N /\ visited' = 1
      BY <2>1, <2>6 DEF LeaveRound
    <3>2. Leaving(r + 1)'
      BY <2>1, <2>2, <2>4, <2>6, <3>1 DEF Leaving, Gathering, N
    <3> QED
      BY <1>1, <3>2 DEF Round, N
  <2> QED
    BY <2>5, <2>6
<1> QED
  BY <1>4, <1>5, <1>6 DEF Sync

\* One that wakes up goes back to sleep, or leaves the round that all have
\* reached; none gives up.
LEMMA ResumeStep ==
  ASSUME BarrierTypes, Round, NEW e \in Encoders, Resume(e) \/ SpuriousWakeup(e)
  PROVE  Round'
<1> USE EncodersCounted, InsideCounted DEF BarrierTypes
<1> PICK r \in Nat : Gathering(r) \/ Leaving(r)
  BY DEF Round
<1>1. where[e] # "out" /\ e \in Inside /\ listeners = N /\ listeners' = N
  BY DEF Round, Resume, SleepsAgain, GivesUp, Passes, SpuriousWakeup, Inside
<1>2. token = Token(entered[e])
  <2>1. CASE Gathering(r)
    BY <1>1, <2>1 DEF Gathering
  <2>2. CASE Leaving(r)
    BY <2>2 DEF Leaving
  <2> QED
    BY <2>1, <2>2
<1>3. CASE SleepsAgain(e) \/ SpuriousWakeup(e)
  <2>1. /\ Inside' = Inside
        /\ \A f \in Encoders : where'[f] = "out" <=> where[f] = "out"
    BY <1>3 DEF SleepsAgain, SpuriousWakeup, Inside
  <2>2. UNCHANGED <<queued, visited, token, entered>>
    BY <1>3 DEF SleepsAgain, SpuriousWakeup
  <2> QED
    BY <1>1, <2>1, <2>2 DEF Round, Gathering, Leaving, N
<1>4. CASE Passes(e)
  <2>1. Leaving(r)
    BY <1>1, <1>4 DEF Passes, Complete, Gathering
  <2>2. /\ where' = [where EXCEPT ![e] = "out"] /\ LeaveRound(N, visited)
        /\ UNCHANGED <<token, entered>>
    BY <1>4, <2>1 DEF Passes, Leaving
  <2>3. Inside' = Inside \ {e}
    BY <2>2 DEF Inside
  <2>4. Cardinality(Inside)' = N - (visited + 1)
    BY <1>1, <2>1, <2>3, OneLess DEF Leaving
  <2>5. CASE visited + 1 = N
    <3>1. queued' = 0 /\ visited' = 0
      BY <2>2, <2>5 DEF LeaveRound
    <3>2. Cardinality(Inside)' = 0 /\ Inside' = {}
      <4>1. Cardinality(Inside)' = 0
        BY <2>1, <2>4, <2>5 DEF Leaving
      <4>2. IsFiniteSet(Inside')
        BY <2>3, FS_RemoveElement
      <4> QED
        BY <4>1, <4>2, FS_EmptySet
    <3>3. \A f \in Encoders : where'[f] = "out"
      BY <3>2 DEF Inside
    <3>4. Gathering(r)'
      BY <2>1, <2>2, <3>1, <3>2, <3>3 DEF Gathering, Leaving, N
    <3> QED
      BY <1>1, <3>4 DEF Round, N
  <2>6. CASE visited + 1 < N
    <3>1. queued' = N /\ visited' = visited + 1
      BY <2>1, <2>2, <2>6 DEF LeaveRound, Leaving
    <3>2. Leaving(r)'
      BY <2>1, <2>2, <2>4, <2>6, <3>1 DEF Leaving, N
    <3> QED
      BY <1>1, <3>2 DEF Round, N
  <2> QED
    BY <2>1, <2>5, <2>6 DEF Leaving
<1> QED
  BY <1>2, <1>3, <1>4 DEF Resume, GivesUp

LEMMA NextBarrierInv == BarrierInv /\ [BarrierNext]_barrierVars => BarrierInv'
<1> SUFFICES ASSUME BarrierInv, [BarrierNext]_barrierVars PROVE BarrierInv'
  OBVIOUS
<1>1. BarrierTypes /\ BarrierTypes'
  BY BarrierTypesStep DEF BarrierInv
<1>2. CASE late \/ freed
  <2>1. late' \/ freed'
    <3>1. CASE \E e \in Encoders : Sync(e)
      <4>1. late' = (late \/ visited # 0) /\ freed' = freed
        BY <3>1 DEF Sync, SyncSkips, SyncWaits, SyncReleases, Enters
      <4> QED
        BY <1>2, <4>1
    <3>2. CASE \E e \in Encoders : Resume(e) \/ SpuriousWakeup(e)
      BY <1>2, <3>2 DEF Resume, SleepsAgain, GivesUp, Passes, SpuriousWakeup
    <3>3. CASE Free
      BY <3>3 DEF Free
    <3>4. CASE UNCHANGED barrierVars
      BY <1>2, <3>4 DEF barrierVars
    <3> QED
      BY <3>1, <3>2, <3>3, <3>4 DEF BarrierNext
  <2> QED
    BY <1>1, <2>1 DEF BarrierInv
<1>3. CASE ~late /\ ~freed
  <2>1. Round
    BY <1>3 DEF BarrierInv
  <2>2. CASE \E e \in Encoders : Sync(e)
    <3> PICK e \in Encoders : Sync(e)
      BY <2>2
    <3>1. CASE visited # 0
      BY <1>1, <3>1 DEF BarrierInv, Sync, SyncSkips, SyncWaits, SyncReleases, Enters
    <3>2. CASE visited = 0
      <4>1. PICK r \in Nat : Gathering(r)
        BY <2>1, <3>2 DEF Round, Leaving
      <4> QED
        BY <1>1, <2>1, <4>1, SyncStep DEF BarrierInv, Round
    <3> QED
      BY <3>1, <3>2
  <2>3. CASE \E e \in Encoders : Resume(e) \/ SpuriousWakeup(e)
    BY <1>1, <2>1, <2>3, ResumeStep DEF BarrierInv
  <2>4. CASE Free
    BY <1>1, <2>4 DEF BarrierInv, Free
  <2>5. CASE UNCHANGED barrierVars
    BY <1>1, <2>1, <2>5 DEF BarrierInv, barrierVars, Round, Gathering, Leaving, Inside, N
  <2> QED
    BY <2>2, <2>3, <2>4, <2>5 DEF BarrierNext
<1> QED
  BY <1>2, <1>3

\* In either kind of round nobody is ahead of anybody.
LEMMA BarrierInvLockstep == BarrierInv => LockstepUnlessLate
<1> SUFFICES ASSUME BarrierInv, ~late, ~freed, NEW e \in Encoders, NEW f \in Encoders
             PROVE  PassedBy(e) <= entered[f]
  BY DEF LockstepUnlessLate, Lockstep
<1> PICK r \in Nat : Gathering(r) \/ Leaving(r)
  BY DEF BarrierInv, Round
<1>1. CASE Gathering(r)
  BY <1>1 DEF Gathering, PassedBy, BarrierInv, BarrierTypes
<1>2. CASE Leaving(r)
  BY <1>2 DEF Leaving, PassedBy, BarrierInv, BarrierTypes
<1> QED
  BY <1>1, <1>2

\* The encoders that share a barrier stay together at track changes, as long as
\* every round of Barrier::sync is left before the next begins.
THEOREM BarrierLockstep == BarrierSpec => []LockstepUnlessLate
<1> USE InitBarrierInv, NextBarrierInv, BarrierInvLockstep
<1> QED
  BY PTL DEF BarrierSpec
=============================================================================
