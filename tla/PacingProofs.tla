---------------------------- MODULE PacingProofs ----------------------------
(***************************************************************************)
(* Proofs, whatever the rate, the unit of time, the sizes of the blocks    *)
(* and the times of the updates: that the frame clocks are exact, as the   *)
(* rounding of one update is carried over to the next; that a broca that   *)
(* waits sends in real time; and that a sound card loses frames only once  *)
(* it has gone without more of them than the buffer and the margin hold.   *)
(***************************************************************************)
EXTENDS Pacing, TLAPS

Clocks == [last : Int, remainder : Int, frames : Int]

\* A clock c that was reset at time e and was given g frames since then.
Exact(c, e, g) ==
  /\ c.remainder \in 0 .. FrameDuration - 1
  /\ c.last - e = (g - c.frames) * FrameDuration + c.remainder

Types ==
  /\ Consumer \in Seq({"card", "nobody"})
  /\ clock \in [Buffers -> Clocks] /\ firstPcm \in [Buffers -> BOOLEAN]
  /\ epoch \in [Buffers -> Int] /\ given \in [Buffers -> Int]
  /\ sync \in Clocks /\ taken \in Int

\* The job is at a buffer, with a block that is not empty, until it is done
\* with what it decoded.
JobInv ==
  /\ now \in 0 .. Horizon /\ job \in Stages /\ pc \in {"taking", "sleeping", "done"}
  /\ block \in 0 .. Chop /\ rest \in Nat
  /\ job # "done" => Consumer # <<>>
  /\ job \in {"entering", "storing"} => at \in Buffers /\ block # 0
  /\ job = "storing" => todo \in 1 .. block

FillInv == fill \in [Buffers -> 0 .. Size]

ClockInv ==
  /\ \A b \in Buffers : Exact(clock[b], epoch[b], given[b])
  /\ Exact(sync, 0, taken)

IInv == Types /\ JobInv /\ FillInv /\ ClockInv

-----------------------------------------------------------------------------
\* Division with a rest.
LEMMA Division ==
  ASSUME NEW a \in Int, NEW d \in Nat \ {0}
  PROVE  /\ a \div d \in Int
         /\ a % d \in 0 .. d - 1
         /\ a = d * (a \div d) + (a % d)
  OBVIOUS

\* A larger number is divided into no less.
LEMMA DivisionMonotone ==
  ASSUME NEW a \in Int, NEW b \in Int, NEW d \in Nat \ {0}, a <= b
  PROVE  a \div d <= b \div d
<1> DEFINE p == a \div d
           q == b \div d
<1>1. /\ p \in Int /\ q \in Int
      /\ d * p <= a /\ b < d * q + d
  <2>1. p \in Int /\ q \in Int /\ a % d \in 0 .. d - 1 /\ b % d \in 0 .. d - 1
        /\ a = d * p + (a % d) /\ b = d * q + (b % d)
    BY Division
  <2> HIDE DEF p, q
  <2> QED  BY <2>1
<1> HIDE DEF p, q
<1>2. ASSUME q < p
      PROVE  FALSE
  <2>1. q + 1 <= p
    BY <1>1, <1>2
  <2>2. d * (q + 1) <= d * p
    BY <1>1, <2>1
  <2>3. d * (q + 1) = d * q + d
    BY <1>1
  <2> QED
    BY <1>1, <2>2, <2>3
<1>3. p <= q
  BY <1>1, <1>2
<1> QED  BY <1>3 DEF p, q

\* A frame lasts a tick at least, and a quarter of a second is a frame at least.
LEMMA Durations == FrameDuration \in Nat \ {0} /\ Chop \in Nat \ {0}
<1>1. FrameDuration \in Int /\ Chop \in Int
  BY RateAssumption, Division DEF FrameDuration, Chop
<1>2. Rate \div Rate <= FrameDuration
  BY RateAssumption, DivisionMonotone DEF FrameDuration
<1>3. 4 \div 4 <= Chop
  BY RateAssumption, DivisionMonotone DEF Chop
<1>4. Rate \div Rate = 1
  BY RateAssumption
<1> QED
  BY <1>1, <1>2, <1>3, <1>4

\* A clock that was just reset is exact.
LEMMA ResetExact ==
  ASSUME NEW t \in Int
  PROVE  Reset(t) \in Clocks /\ Exact(Reset(t), t, 0)
  BY Durations DEF Reset, Exact, Clocks

\* An update keeps a clock exact.
LEMMA UpdateExact ==
  ASSUME NEW c \in Clocks, NEW t \in Int, NEW got \in Int, NEW e \in Int, NEW g \in Int,
         Exact(c, e, g)
  PROVE  Update(c, t, got) \in Clocks /\ Exact(Update(c, t, got), e, g + got)
<1> DEFINE elapsed == t - c.last + c.remainder
           q == elapsed \div FrameDuration
           r == elapsed % FrameDuration
<1>1. c.last \in Int /\ c.remainder \in Int /\ c.frames \in Int /\ elapsed \in Int
  BY DEF Clocks
<1>2. /\ q \in Int /\ r \in 0 .. FrameDuration - 1
      /\ elapsed = FrameDuration * q + r
  BY <1>1, Durations, Division
<1>3. Update(c, t, got) = [last |-> t, remainder |-> r, frames |-> c.frames + got - q]
  BY DEF Update
<1>4. t - e = (g + got - (c.frames + got - q)) * FrameDuration + r
  <2> DEFINE m == (g - c.frames) * FrameDuration
  <2>0. m \in Int /\ c.last - e = m + c.remainder
    BY <1>1, Durations DEF Exact
  <2> HIDE DEF m
  <2>1. t - e = elapsed + m
    BY <1>1, <2>0
  <2> HIDE DEF elapsed, q, r
  <2> USE DEF m
  <2>2. FrameDuration * q + (g - c.frames) * FrameDuration
          = (g - c.frames + q) * FrameDuration
    BY <1>1, <1>2, Durations
  <2>3. g + got - (c.frames + got - q) = g - c.frames + q
    BY <1>1, <1>2
  <2> QED
    BY <1>1, <1>2, <2>1, <2>2, <2>3, Durations
<1> HIDE DEF elapsed, q, r
<1> QED
  BY <1>1, <1>2, <1>3, <1>4, Durations DEF Clocks, Exact

-----------------------------------------------------------------------------
\* What a card asks for in a tick is a number of frames.
LEMMA AskedCounted ==
  ASSUME Types, now \in Int, NEW b \in Buffers
  PROVE  Asked(b) \in Nat
<1> DEFINE x == (now - epoch[b]) * Rate
           y == (now + 1 - epoch[b]) * Rate
           m == (x \div Second) \div Burst
           n == (y \div Second) \div Burst
<1>1. epoch[b] \in Int /\ x \in Int /\ y \in Int
  BY RateAssumption DEF Types
<1>2. x <= y
  <2>1. y = x + Rate
    BY <1>1, RateAssumption
  <2> QED
    BY <1>1, <2>1, RateAssumption
<1>3. m \in Int /\ n \in Int /\ m <= n
  <2> HIDE DEF x, y
  <2>1. x \div Second \in Int /\ y \div Second \in Int /\ x \div Second <= y \div Second
    BY <1>1, <1>2, RateAssumption, Division, DivisionMonotone
  <2> QED
    BY <2>1, SizeAssumption, Division, DivisionMonotone
<1>4. Due(b, now) = Burst * m
  BY <1>1, RateAssumption, SizeAssumption DEF Due
<1>5. Due(b, now + 1) = Burst * n
  BY <1>1, RateAssumption, SizeAssumption DEF Due
<1> HIDE DEF m, n
<1>6. Burst * m \in Int /\ Burst * n \in Int /\ Burst * m <= Burst * n
  BY <1>3, SizeAssumption
<1> QED
  BY <1>4, <1>5, <1>6 DEF Asked

\* The splitter goes to the first buffer with the next block, if there is one.
LEMMA NextBlockInv ==
  ASSUME Types, JobInv, Consumer # <<>>, UNCHANGED <<Consumer, now, pc>>,
         NEW frames \in Nat, NextBlock(frames)
  PROVE  JobInv'
<1>1. Len(Consumer) \in Nat \ {0} /\ 1 \in Buffers /\ Buffers' = Buffers
  BY DEF Types, Buffers
<1>2. Chop \in Nat \ {0} /\ Chop' = Chop
  BY Durations DEF Chop
<1>3. CASE frames = 0
  BY <1>1, <1>2, <1>3 DEF NextBlock, JobInv, Stages
<1>4. CASE frames # 0
  <2>1. /\ job' = "entering" /\ block' = Least(frames, Chop)
        /\ rest' = frames - block' /\ at' = 1
    BY <1>4 DEF NextBlock
  <2>2. block' \in 1 .. Chop /\ rest' \in Nat
    BY <1>2, <1>4, <2>1 DEF Least
  <2> QED
    BY <1>1, <1>2, <2>1, <2>2 DEF JobInv, Stages
<1> QED
  BY <1>3, <1>4

\* From one buffer it goes to the next, or on to the next block.
LEMMA NextBufferInv ==
  ASSUME Types, JobInv, job \in {"entering", "storing"},
         UNCHANGED <<Consumer, now, pc>>, NextBuffer
  PROVE  JobInv'
<1>1. CASE at < Len(Consumer)
  <2>1. /\ job' = "entering" /\ at' = at + 1 /\ UNCHANGED <<rest, block>>
    BY <1>1 DEF NextBuffer
  <2>2. at + 1 \in Buffers /\ Buffers' = Buffers /\ Chop' = Chop
    BY <1>1 DEF JobInv, Types, Buffers, Chop
  <2> QED
    BY <2>1, <2>2 DEF JobInv, Stages
<1>2. CASE ~(at < Len(Consumer))
  BY <1>2, NextBlockInv DEF NextBuffer, JobInv
<1> QED
  BY <1>1, <1>2

\* The clock of the buffer that is left stays exact, whatever was skipped.
LEMMA LeaveClocks ==
  ASSUME IInv, at \in Buffers, NEW left, Leave(at, left),
         UNCHANGED <<Consumer, epoch, firstPcm, sync, taken>>
  PROVE  Types' /\ ClockInv'
<1> USE DEF IInv
<1>1. Buffers' = Buffers
  BY DEF Buffers
<1>2. /\ clock' = [clock EXCEPT ![at] = Update(clock[at], now, block)]
      /\ given' = [given EXCEPT ![at] = given[at] + block]
  BY DEF Leave
<1>3. /\ now \in Int /\ block \in Int /\ clock[at] \in Clocks
      /\ epoch[at] \in Int /\ given[at] \in Int
  BY Durations DEF Types, JobInv
<1>4. /\ Update(clock[at], now, block) \in Clocks
      /\ Exact(Update(clock[at], now, block), epoch[at], given[at] + block)
  BY <1>3, UpdateExact DEF ClockInv
<1>5. Types'
  BY <1>1, <1>2, <1>3, <1>4 DEF Types
<1>6. ASSUME NEW b \in Buffers'
      PROVE  Exact(clock[b], epoch[b], given[b])'
  <2>1. CASE b = at
    BY <1>1, <1>2, <1>4, <2>1 DEF Types, Exact, FrameDuration
  <2>2. CASE b # at
    BY <1>1, <1>2, <2>2 DEF Types, ClockInv, Exact, FrameDuration
  <2> QED
    BY <2>1, <2>2
<1>7. Exact(sync, 0, taken)'
  BY DEF ClockInv, Exact, FrameDuration
<1> QED
  BY <1>5, <1>6, <1>7 DEF ClockInv

\* So does that of the broca.
LEMMA SyncClock ==
  ASSUME IInv, NEW got \in Int, sync' = Update(sync, now, got), taken' = taken + got,
         UNCHANGED <<Consumer, clock, firstPcm, epoch, given>>
  PROVE  Types' /\ ClockInv'
<1> USE DEF IInv
<1>1. Buffers' = Buffers
  BY DEF Buffers
<1>2. Update(sync, now, got) \in Clocks /\ Exact(Update(sync, now, got), 0, taken + got)
  BY UpdateExact DEF Types, JobInv, ClockInv
<1>3. Types'
  BY <1>1, <1>2 DEF Types
<1>4. Exact(sync, 0, taken)'
  BY <1>2 DEF Exact, FrameDuration
<1>5. \A b \in Buffers' : Exact(clock[b], epoch[b], given[b])'
  BY <1>1 DEF ClockInv, Exact, FrameDuration
<1> QED
  BY <1>3, <1>4, <1>5 DEF ClockInv

\* A step that changes no clock leaves them exact.
LEMMA ClocksStay ==
  ASSUME Types, ClockInv, UNCHANGED <<Consumer, clockVars, sync, taken>>
  PROVE  Types' /\ ClockInv'
  BY DEF Types, ClockInv, Exact, FrameDuration, Buffers, clockVars

-----------------------------------------------------------------------------
LEMMA InitInv == Init => IInv
<1> SUFFICES ASSUME Init PROVE IInv
  OBVIOUS
<1>1. Consumer \in Seq({"card", "nobody"})
  BY ConsumerAssumption DEF Init
<1>2. Reset(0) \in Clocks /\ Exact(Reset(0), 0, 0)
  BY ResetExact
<1>3. Types
  BY <1>1, <1>2 DEF Init, Types
<1>4. JobInv
  BY Durations, SizeAssumption DEF Init, JobInv, Stages
<1>5. FillInv
  BY SizeAssumption DEF Init, FillInv
<1>6. ClockInv
  BY <1>2 DEF Init, ClockInv
<1> QED
  BY <1>3, <1>4, <1>5, <1>6 DEF IInv

-----------------------------------------------------------------------------
\* The steps of the job.
LEMMA JobPreserves ==
  ASSUME IInv, (\E n \in Tracks : Decode(n)) \/ JobStep
  PROVE  IInv'
<1> USE DEF IInv
<1> Buffers' = Buffers /\ Chop' = Chop /\ UNCHANGED Consumer
  BY DEF Buffers, Chop, Decode, JobStep, Enter, EnterClosed, Store, GiveUp, JobEnds
<1>1. ASSUME NEW n \in Tracks, Decode(n)
      PROVE  IInv'
  <2>1. n \in Nat /\ Consumer # <<>> /\ UNCHANGED <<Consumer, now, pc>>
    BY <1>1, SizeAssumption DEF Decode, JobInv, brocaVars
  <2>2. JobInv'
    BY <1>1, <2>1, NextBlockInv DEF Decode
  <2>3. Types' /\ ClockInv' /\ FillInv'
    BY <1>1, ClocksStay DEF Decode, brocaVars, FillInv
  <2> QED
    BY <2>2, <2>3
<1>2. CASE Enter
  <2> DEFINE c == IF firstPcm[at] THEN Reset(now) ELSE clock[at]
             e == IF firstPcm[at] THEN now ELSE epoch[at]
             g == IF firstPcm[at] THEN 0 ELSE given[at]
  <2>1. /\ at \in Buffers /\ job = "entering" /\ job' = "storing" /\ todo' = block
        /\ block # 0
        /\ UNCHANGED <<now, rest, block, at, fill, sync, taken, pc>>
    BY <1>2 DEF Enter, JobInv, brocaVars
  <2>2. /\ clock' = [clock EXCEPT ![at] = c]
        /\ epoch' = [epoch EXCEPT ![at] = e]
        /\ given' = [given EXCEPT ![at] = g]
        /\ firstPcm' = [firstPcm EXCEPT ![at] = FALSE]
    BY <1>2 DEF Enter
  <2>3. c \in Clocks /\ e \in Int /\ g \in Int /\ Exact(c, e, g)
    BY <2>1, ResetExact DEF Types, JobInv, ClockInv
  <2> HIDE DEF c, e, g
  <2>4. Types'
    BY <2>1, <2>2, <2>3 DEF Types
  <2>5. JobInv'
    BY <2>1, Durations DEF JobInv, Stages
  <2>6. FillInv'
    BY <2>1 DEF FillInv
  <2>7. ASSUME NEW b \in Buffers
        PROVE  Exact(clock[b], epoch[b], given[b])'
    <3>1. CASE b = at
      BY <2>1, <2>2, <2>3, <3>1 DEF Types, Exact, FrameDuration
    <3>2. CASE b # at
      BY <2>2, <3>2 DEF Types, ClockInv, Exact, FrameDuration
    <3> QED
      BY <3>1, <3>2
  <2>8. Exact(sync, 0, taken)'
    BY <2>1 DEF ClockInv, Exact, FrameDuration
  <2> QED
    BY <2>4, <2>5, <2>6, <2>7, <2>8 DEF ClockInv
<1>3. CASE EnterClosed
  <2>1. JobInv'
    BY <1>3, NextBufferInv DEF EnterClosed, brocaVars
  <2>2. Types' /\ ClockInv' /\ FillInv'
    BY <1>3, ClocksStay DEF EnterClosed, brocaVars, FillInv
  <2> QED
    BY <2>1, <2>2
<1>4. CASE Store
  <2> DEFINE n == Least(todo, Room(at))
  <2>1. /\ job = "storing" /\ at \in Buffers /\ todo \in 1 .. block /\ n > 0
        /\ fill' = [fill EXCEPT ![at] = fill[at] + n] /\ todo' = todo - n
        /\ UNCHANGED <<now, firstPcm, epoch, sync, taken, pc>>
    BY <1>4 DEF Store, JobInv, brocaVars
  <2>2. /\ block \in Nat /\ fill[at] \in 0 .. Size /\ Size \in Nat
        /\ n \in 1 .. todo /\ fill[at] + n \in 0 .. Size
    BY <2>1, Durations, SizeAssumption DEF Least, Room, FillInv, JobInv
  <2> HIDE DEF n
  <2>3. FillInv'
    BY <2>1, <2>2 DEF FillInv
  <2>4. CASE n = todo
    <3>1. Leave(at, 0)
      BY <1>4, <2>4 DEF Store, n
    <3>2. Types' /\ ClockInv'
      BY <2>1, <3>1, LeaveClocks
    <3>3. JobInv'
      BY <2>1, <3>1, NextBufferInv DEF Leave
    <3> QED
      BY <2>3, <3>2, <3>3
  <2>5. CASE n # todo
    <3>1. UNCHANGED <<job, rest, block, at, clock, given>>
      BY <1>4, <2>5 DEF Store, n
    <3>2. JobInv'
      BY <2>1, <2>2, <2>5, <3>1 DEF JobInv
    <3>3. Types' /\ ClockInv'
      BY <2>1, <3>1, ClocksStay DEF clockVars
    <3> QED
      BY <2>3, <3>2, <3>3
  <2> QED
    BY <2>4, <2>5
<1>5. CASE GiveUp
  <2>1. /\ at \in Buffers /\ job = "storing" /\ Leave(at, todo)
        /\ UNCHANGED <<now, todo, fill, firstPcm, epoch, sync, taken, pc>>
    BY <1>5 DEF GiveUp, JobInv, brocaVars
  <2>2. Types' /\ ClockInv'
    BY <2>1, LeaveClocks
  <2>3. JobInv'
    BY <2>1, NextBufferInv DEF Leave
  <2>4. FillInv'
    BY <2>1 DEF FillInv
  <2> QED
    BY <2>2, <2>3, <2>4
<1>6. CASE JobEnds
  BY <1>6, ClocksStay DEF JobEnds, JobInv, FillInv, Stages, brocaVars
<1> QED
  BY <1>1, <1>2, <1>3, <1>4, <1>5, <1>6 DEF JobStep

\* The steps of the broca.
LEMMA BrocaPreserves ==
  ASSUME IInv, (\E n \in Packets : Take(n)) \/ Wake \/ BrocaEnds
  PROVE  IInv'
<1> USE DEF IInv
<1>1. FillInv'
  BY DEF Take, Wake, BrocaEnds, FillInv, Buffers
<1>2. JobInv'
  BY DEF Take, Wake, BrocaEnds, Rests, JobInv, jobVars, Buffers, Chop
<1>3. ASSUME NEW n \in Packets, Take(n)
      PROVE  Types' /\ ClockInv'
  BY <1>3, SyncClock, SizeAssumption DEF Take, clockVars
<1>4. CASE Wake
  <2>1. sync' = Update(sync, now, 0)
    BY <1>4 DEF Wake
  <2>2. taken' = taken + 0 /\ UNCHANGED <<Consumer, clock, firstPcm, epoch, given>>
    BY <1>4 DEF Wake, clockVars, Types
  <2> QED
    BY <1>1, <1>2, <2>1, <2>2, SyncClock
<1>5. CASE BrocaEnds
  <2>1. UNCHANGED <<Consumer, clockVars, sync, taken>>
    BY <1>5 DEF BrocaEnds
  <2> QED
    BY <1>1, <1>2, <2>1, ClocksStay
<1> QED
  BY <1>1, <1>2, <1>3, <1>4, <1>5

\* The steps of all else.
LEMMA TimePreserves ==
  ASSUME IInv, Tick \/ Terminate \/ Close
  PROVE  IInv'
<1> USE DEF IInv
<1>1. Types' /\ ClockInv'
  BY ClocksStay DEF Tick, Terminate, Close, brocaVars
<1>2. JobInv'
  BY SizeAssumption
     DEF Tick, Terminate, Close, JobInv, jobVars, brocaVars, Buffers, Chop
<1>3. CASE Tick
  <2>1. fill' = [b \in Buffers |-> fill[b] - Got(b)] /\ Buffers' = Buffers
    BY <1>3 DEF Tick, Buffers
  <2>2. ASSUME NEW b \in Buffers
        PROVE  fill[b] - Got(b) \in 0 .. Size
    <3>1. Asked(b) \in Nat /\ fill[b] \in 0 .. Size
      BY AskedCounted, SizeAssumption DEF JobInv, FillInv
    <3> QED
      BY <3>1, SizeAssumption DEF Got, Least
  <2> QED
    BY <1>1, <1>2, <2>1, <2>2 DEF FillInv
<1>4. CASE Terminate \/ Close
  BY <1>1, <1>2, <1>4 DEF Terminate, Close, FillInv, Buffers
<1> QED
  BY <1>3, <1>4

LEMMA Invariance == Spec => []IInv
<1>1. IInv /\ [Next]_vars => IInv'
  <2> SUFFICES ASSUME IInv, [Next]_vars PROVE IInv'
    OBVIOUS
  <2>1. CASE UNCHANGED vars
    <3>1. Types' /\ ClockInv'
      BY <2>1, ClocksStay DEF vars, brocaVars, IInv
    <3>2. JobInv' /\ FillInv'
      BY <2>1 DEF vars, jobVars, brocaVars, IInv, JobInv, FillInv, Buffers, Chop
    <3> QED
      BY <3>1, <3>2 DEF IInv
  <2> QED
    BY <2>1, JobPreserves, BrocaPreserves, TimePreserves DEF Next
<1> QED
  BY InitInv, <1>1, PTL DEF Spec

\* The clocks by which PcmBuffer::writePcm skips and by which a broca sleeps
\* stay exact for ever: the frames they were given differ from the time that
\* has passed by what they say, and by no fraction of a frame that was lost.
THEOREM ClocksExact == Spec => []ClockExact
<1>1. IInv => TypeOK
  BY DEF IInv, JobInv, FillInv, TypeOK
<1>2. IInv => /\ \A b \in Buffers : Exact(clock[b], epoch[b], given[b])
              /\ sync.remainder \in 0 .. FrameDuration - 1
              /\ sync.last = (taken - sync.frames) * FrameDuration + sync.remainder
  <2>1. IInv => sync.last \in Int /\ sync.last - 0 = sync.last
    BY DEF IInv, Types, Clocks
  <2> QED
    BY <2>1 DEF IInv, ClockInv, Exact
<1>3. IInv => ClockExact
  BY <1>1, <1>2 DEF Exact, ClockExact
<1> QED
  BY Invariance, <1>3, PTL

-----------------------------------------------------------------------------
(* The broca that waits.                                                   *)

\* It has slept unless it is less than the threshold ahead, and sleeps no
\* longer than what it has sent lasts.
Slept ==
  /\ terminating \in BOOLEAN /\ sync.last <= now
  /\ pc = "taking" /\ ~terminating /\ taken > 0 => sync.frames < Threshold
  /\ pc = "sleeping" => wake \in Int /\ wake < (taken + 1) * FrameDuration

\* A larger factor makes a larger product.
LEMMA ProductMonotone ==
  ASSUME NEW a \in Int, NEW b \in Int, NEW d \in Nat, a <= b
  PROVE  a * d \in Int /\ b * d \in Int /\ a * d <= b * d
<1>1. b * d = a * d + (b - a) * d /\ (b - a) * d >= 0
  OBVIOUS
<1> QED
  BY <1>1

LEMMA SleepEnds ==
  ASSUME NEW c \in Clocks, NEW g \in Int, Exact(c, 0, g)
  PROVE  SleepUntil(c, c.last) \in Int /\ SleepUntil(c, c.last) < (g + 1) * FrameDuration
<1> DEFINE h == Threshold \div 2
           p == FrameDuration * (c.frames - h)
<1>1. h \in Nat
  <2>1. 0 \div 2 <= h /\ h \in Int
    BY SizeAssumption, DivisionMonotone, Division
  <2> QED
    BY <2>1
<1> HIDE DEF h
<1>2. /\ c.last \in Int /\ c.frames \in Int /\ c.remainder \in 0 .. FrameDuration - 1
      /\ c.last = (g - c.frames) * FrameDuration + c.remainder
  BY Durations DEF Clocks, Exact
<1>3. p \in Int /\ c.last + p = (g - h) * FrameDuration + c.remainder
  BY <1>1, <1>2, Durations
<1>4. (g - h) * FrameDuration + FrameDuration <= (g + 1) * FrameDuration
  <2>1. (g - h + 1) * FrameDuration <= (g + 1) * FrameDuration
    BY <1>1, Durations, ProductMonotone
  <2>2. (g - h + 1) * FrameDuration = (g - h) * FrameDuration + FrameDuration
    BY <1>1, Durations
  <2> QED
    BY <2>1, <2>2
<1>5. (g - h) * FrameDuration \in Int /\ (g + 1) * FrameDuration \in Int
  BY <1>1, Durations
<1>6. SleepUntil(c, c.last) = c.last + Least(p, Second)
  BY DEF SleepUntil, h
<1> HIDE DEF p
<1>7. Least(p, Second) \in Int /\ Least(p, Second) <= p
  BY <1>3, RateAssumption DEF Least
<1> QED
  BY <1>2, <1>3, <1>4, <1>5, <1>6, <1>7, Durations

\* What the broca does after an update of its clock.
LEMMA RestsSlept ==
  ASSUME IInv, Slept, NEW got \in Int,
         sync' = Update(sync, now, got), taken' = taken + got,
         IF Sleeps(sync') THEN pc' = "sleeping" /\ wake' = SleepUntil(sync', now)
                          ELSE pc' = "taking",
         UNCHANGED <<now, terminating>>
  PROVE  Slept'
<1> DEFINE c == Update(sync, now, got)
<1>1. now \in Int /\ sync \in Clocks /\ taken \in Int /\ Exact(sync, 0, taken)
  BY SizeAssumption DEF IInv, JobInv, Types, ClockInv
<1>2. c \in Clocks /\ Exact(c, 0, taken + got)
  BY <1>1, UpdateExact
<1>3. c.last = now
  BY DEF Update
<1> HIDE DEF c
<1>4. CASE Sleeps(c)
  <2>1. pc' = "sleeping" /\ wake' = SleepUntil(c, now)
    BY <1>4 DEF c
  <2>2. wake' \in Int /\ wake' < (taken' + 1) * FrameDuration
    BY <1>1, <1>2, <1>3, <2>1, SleepEnds
  <2> QED
    BY <1>1, <1>3, <2>1, <2>2 DEF Slept, FrameDuration, c
<1>5. CASE ~Sleeps(c)
  <2>1. pc' = "taking"
    BY <1>5 DEF c
  <2>2. ~terminating => c.frames < Threshold
    BY <1>2, <1>5, SizeAssumption DEF Sleeps, Clocks
  <2> QED
    BY <1>1, <1>3, <2>1, <2>2 DEF Slept, c
<1> QED
  BY <1>4, <1>5

LEMMA SleptStep == IInv /\ Slept /\ [Next]_vars => Slept'
<1> SUFFICES ASSUME IInv, Slept, [Next]_vars PROVE Slept'
  OBVIOUS
<1>0. now \in Int /\ sync \in Clocks /\ taken \in Int
  BY SizeAssumption DEF IInv, JobInv, Types
<1>1. CASE UNCHANGED <<pc, wake, sync, taken>> /\ now' \in Int /\ now <= now'
           /\ terminating' \in BOOLEAN /\ (terminating => terminating')
  BY <1>0, <1>1 DEF Slept, FrameDuration, Clocks
<1>2. CASE (\E n \in Tracks : Decode(n)) \/ JobStep \/ UNCHANGED vars
  <2>1. UNCHANGED <<brocaVars, now, terminating>>
    BY <1>2 DEF Decode, JobStep, Enter, EnterClosed, Store, GiveUp, JobEnds, vars
  <2> QED
    BY <1>0, <1>1, <2>1 DEF Slept, brocaVars
<1>3. ASSUME NEW n \in Packets, Take(n)
      PROVE  Slept'
  <2>1. /\ n \in Int /\ sync' = Update(sync, now, n) /\ taken' = taken + n
        /\ UNCHANGED <<now, terminating>>
    BY <1>3, SizeAssumption DEF Take
  <2>2. IF Sleeps(sync') THEN pc' = "sleeping" /\ wake' = SleepUntil(sync', now)
                         ELSE pc' = "taking"
    BY <1>3 DEF Take, Rests
  <2> QED
    BY <2>1, <2>2, RestsSlept
<1>4. CASE Wake
  <2>1. /\ sync' = Update(sync, now, 0) /\ taken' = taken + 0
        /\ UNCHANGED <<now, terminating>>
    BY <1>0, <1>4 DEF Wake
  <2>2. IF Sleeps(sync') THEN pc' = "sleeping" /\ wake' = SleepUntil(sync', now)
                         ELSE pc' = "taking"
    BY <1>4 DEF Wake, Rests
  <2> QED
    BY <2>1, <2>2, RestsSlept
<1>5. CASE BrocaEnds
  BY <1>5 DEF BrocaEnds, Slept
<1>6. CASE Tick
  BY <1>0, <1>1, <1>6 DEF Tick, brocaVars, Slept
<1>7. CASE Terminate \/ Close
  BY <1>0, <1>1, <1>7 DEF Terminate, Close, brocaVars, Slept
<1> QED
  BY <1>2, <1>3, <1>4, <1>5, <1>6, <1>7 DEF Next

\* A broca that waits sends in real time: the next packet is taken no earlier
\* than the threshold allows, and it never sleeps until it is late.
THEOREM BrocaPacedInTime == Spec => []PacedInTime
<1>1. Init => Slept
  <2> SUFFICES ASSUME Init PROVE Slept
    OBVIOUS
  <2>1. sync.last = 0 /\ now = 0 /\ taken = 0 /\ terminating = FALSE /\ pc # "sleeping"
    BY DEF Init, Reset
  <2>2. sync.last <= now /\ ~(taken > 0)
    BY <2>1
  <2> QED
    BY <2>1, <2>2 DEF Slept
<1>2. IInv /\ Slept => PacedInTime
  <2> SUFFICES ASSUME IInv, Slept, pc = "taking", ~terminating, taken > 0
               PROVE  (taken - Threshold + 1) * FrameDuration <= now
    BY DEF PacedInTime, Slept
  <2>1. /\ sync.last \in Int /\ sync.frames \in Int /\ taken \in Int /\ now \in Int
        /\ sync.remainder \in 0 .. FrameDuration - 1
        /\ sync.last = (taken - sync.frames) * FrameDuration + sync.remainder
    BY SizeAssumption, Durations DEF IInv, Types, JobInv, ClockInv, Exact, Clocks
  <2>2. sync.last <= now /\ taken - Threshold + 1 <= taken - sync.frames
    BY <2>1, SizeAssumption DEF Slept
  <2>3. (taken - Threshold + 1) * FrameDuration <= (taken - sync.frames) * FrameDuration
    BY <2>1, <2>2, SizeAssumption, Durations, ProductMonotone
  <2>4. (taken - Threshold + 1) * FrameDuration \in Int
        /\ (taken - sync.frames) * FrameDuration \in Int
    BY <2>1, SizeAssumption, Durations
  <2> QED
    BY <2>1, <2>2, <2>3, <2>4, Durations
<1> QED
  BY <1>1, <1>2, SleptStep, Invariance, PTL DEF Spec

-----------------------------------------------------------------------------
(* Frames that are dropped.                                                *)

HistoryTypes ==
  /\ skipped \in [Buffers -> Nat] /\ starved \in [Buffers -> Nat] /\ until \in Int
  /\ given \in [Buffers -> Nat] /\ closed \in BOOLEAN
  /\ \A b \in Buffers : clock[b].last <= now /\ epoch[b] <= now

\* Frames of the current block that are in the ring of b already.
Stored(b) == IF job = "storing" /\ at = b THEN block - todo ELSE 0

\* What was given to a card's buffer is in the ring, played or dropped.
Conserved(b) ==
  /\ firstPcm[b] => fill[b] = 0 /\ starved[b] = 0 /\ skipped[b] = 0 /\ given[b] = 0
  /\ Consumer[b] = "card" /\ ~firstPcm[b] =>
       fill[b] + Due(b, now) - starved[b] + skipped[b] = given[b] + Stored(b)

\* The deadline leaves time for all that the buffer has been given.
Deadline ==
  job = "storing" =>
    /\ ~firstPcm[at]
    /\ epoch[at] + FrameDuration * (given[at] + block) + Margin <= until

\* What DroppedOnlyIfStarved says, times Second and free of rounding: the
\* left side never falls.
Dropped(b) ==
  Consumer[b] = "card" /\ skipped[b] > 0 /\ ~closed =>
    Second * (FrameDuration * starved[b])
        + (now - epoch[b]) * (Second - FrameDuration * Rate)
      > Second * ((Size + 1 - Burst) * FrameDuration + Margin)

Accounts ==
  /\ HistoryTypes /\ Deadline
  /\ \A b \in Buffers : Conserved(b) /\ Dropped(b)

\* Frames are rounded down, so that they come faster than real ones.
LEMMA FrameRate == FrameDuration * Rate \in Nat /\ FrameDuration * Rate <= Second
<1>1. Second = Rate * FrameDuration + (Second % Rate) /\ Second % Rate \in 0 .. Rate - 1
  BY RateAssumption, Division DEF FrameDuration
<1> QED
  BY <1>1, RateAssumption, Durations

\* A card asks for what is due, in whole bursts.
LEMMA DueBounds ==
  ASSUME NEW b, NEW t \in Int, epoch[b] \in Int, epoch[b] <= t
  PROVE  /\ Due(b, t) \in Nat
         /\ Second * Due(b, t) <= (t - epoch[b]) * Rate
         /\ (t - epoch[b]) * Rate < Second * Due(b, t) + Second * Burst
<1> DEFINE x == (t - epoch[b]) * Rate
           q == x \div Second
           m == q \div Burst
<1>1. x \in Nat
  BY RateAssumption
<1> HIDE DEF x
<1>2. q \in Int /\ x = Second * q + (x % Second) /\ x % Second \in 0 .. Second - 1
  BY <1>1, RateAssumption, Division
<1>3. q \in Nat
  <2>1. 0 \div Second <= q /\ 0 \div Second = 0
    BY <1>1, RateAssumption, DivisionMonotone
  <2> QED
    BY <1>2, <2>1
<1> HIDE DEF q
<1>4. m \in Int /\ q = Burst * m + (q % Burst) /\ q % Burst \in 0 .. Burst - 1
  BY <1>3, SizeAssumption, Division
<1>5. m \in Nat
  <2>1. 0 \div Burst <= m /\ 0 \div Burst = 0
    BY <1>3, SizeAssumption, DivisionMonotone
  <2> QED
    BY <1>4, <2>1
<1>6. Due(b, t) = Burst * m
  BY <1>1, RateAssumption, SizeAssumption DEF Due, x, q
<1> HIDE DEF m
<1>7. Second * q = Second * (Burst * m) + Second * (q % Burst)
  BY <1>3, <1>4, <1>5, RateAssumption, SizeAssumption
<1>8. 0 <= Second * (q % Burst) /\ Second * (q % Burst) <= Second * (Burst - 1)
  BY <1>4, RateAssumption, SizeAssumption
<1>9. Burst * m \in Nat /\ Second * (Burst * m) \in Nat /\ Second * (q % Burst) \in Nat
      /\ Second * (Burst - 1) = Second * Burst - Second /\ Second * Burst \in Nat
  BY <1>4, <1>5, RateAssumption, SizeAssumption
<1> QED
  BY <1>1, <1>2, <1>3, <1>6, <1>7, <1>8, <1>9, RateAssumption DEF x

\* A block that waits until its deadline beside a full ring: x ticks after the
\* clock was reset, u frames are due, s of which were not there.
LEMMA DropCounts ==
  ASSUME NEW x \in Nat, NEW u \in Nat, NEW s \in Nat, NEW g \in Nat,
         x * Rate < Second * u + Second * Burst,
         Size + 1 + u - s <= g,
         FrameDuration * g + Margin <= x
  PROVE  Second * (FrameDuration * s) + x * (Second - FrameDuration * Rate)
           > Second * ((Size + 1 - Burst) * FrameDuration + Margin)
<1> DEFINE d == FrameDuration
<1>0. d \in Nat \ {0} /\ Second \in Nat \ {0} /\ Size \in Nat /\ Margin \in Nat
      /\ Burst \in Nat /\ Rate \in Nat
  BY Durations, RateAssumption, SizeAssumption
<1> HIDE DEF d
<1>1. d * (Size + 1 + u - s) + Margin <= x
  <2>1. (Size + 1 + u - s) * d <= g * d
    BY <1>0, ProductMonotone
  <2> QED
    BY <1>0, <2>1 DEF d
<1>2. d * (Size + 1 + u - s) = d * (Size + 1) + d * u - d * s
  BY <1>0
<1>3. d * (Size + 1) + d * u + Margin <= x + d * s
  BY <1>0, <1>1, <1>2
<1>4. Second * (d * (Size + 1) + d * u + Margin) <= Second * (x + d * s)
  <2>1. (d * (Size + 1) + d * u + Margin) * Second <= (x + d * s) * Second
    BY <1>0, <1>3, ProductMonotone
  <2> QED
    BY <1>0, <2>1
<1>5. d * (x * Rate) < d * (Second * u + Second * Burst)
  BY <1>0
<1>6. d * (Second * u + Second * Burst) = Second * (d * u) + Second * (d * Burst)
  BY <1>0
<1>7. Second * (d * (Size + 1) + d * u + Margin)
        = Second * (d * (Size + 1)) + Second * (d * u) + Second * Margin
  BY <1>0
<1>8. Second * (x + d * s) = Second * x + Second * (d * s)
  BY <1>0
<1>9. x * (Second - d * Rate) = Second * x - d * (x * Rate)
  BY <1>0
<1>10. Second * ((Size + 1 - Burst) * d + Margin)
         = Second * (d * (Size + 1)) - Second * (d * Burst) + Second * Margin
  BY <1>0
<1>11. /\ Second * x \in Int /\ Second * (d * s) \in Int /\ d * (x * Rate) \in Int
       /\ Second * (d * u) \in Int /\ Second * (d * Burst) \in Int
       /\ Second * (d * (Size + 1)) \in Int /\ Second * Margin \in Int
  BY <1>0
<1> QED
  BY <1>4, <1>5, <1>6, <1>7, <1>8, <1>9, <1>10, <1>11 DEF d

\* Steps that are none of the accounts' business.
LEMMA AccountsStay ==
  ASSUME Accounts, UNCHANGED <<now, fill, clockVars, Consumer, skipped, starved, until>>,
         closed' \in BOOLEAN, closed => closed',
         UNCHANGED <<job, at, block, todo>> \/ (job # "storing" /\ job' # "storing")
  PROVE  Accounts'
<1>1. /\ Buffers' = Buffers /\ FrameDuration' = FrameDuration
      /\ UNCHANGED <<clock, firstPcm, epoch, given>>
  BY DEF Buffers, FrameDuration, clockVars
<1>2. HistoryTypes'
  BY <1>1 DEF Accounts, HistoryTypes
<1>3. Deadline'
  BY <1>1 DEF Accounts, Deadline
<1>4. ASSUME NEW b \in Buffers
      PROVE  Conserved(b)' /\ Dropped(b)'
  <2>1. Stored(b)' = Stored(b) /\ Due(b, now)' = Due(b, now)
    BY <1>1 DEF Stored, Due
  <2> QED
    BY <1>1, <2>1 DEF Accounts, Conserved, Dropped
<1> QED
  BY <1>1, <1>2, <1>3, <1>4 DEF Accounts

\* The splitter never goes on by storing: writePcm is entered first.
LEMMA NotStoring == NextBuffer => job' # "storing"
  BY DEF NextBuffer, NextBlock

\* The first PCM finds an empty ring; later blocks a clock that says how long
\* what was given before lasts.
LEMMA EnterAccounts == IInv /\ Accounts /\ Enter => Accounts'
<1> SUFFICES ASSUME IInv, Accounts, Enter PROVE Accounts'
  OBVIOUS
<1> DEFINE c == IF firstPcm[at] THEN Reset(now) ELSE clock[at]
           e == IF firstPcm[at] THEN now ELSE epoch[at]
           g == IF firstPcm[at] THEN 0 ELSE given[at]
<1>1. /\ at \in Buffers /\ job = "entering" /\ job' = "storing" /\ todo' = block
      /\ until' = WouldSleepUntil(c, now, block) + Margin
      /\ UNCHANGED <<now, block, at, fill, closed, Consumer, skipped, starved>>
  BY DEF Enter, IInv, JobInv
<1>2. /\ clock' = [clock EXCEPT ![at] = c] /\ epoch' = [epoch EXCEPT ![at] = e]
      /\ given' = [given EXCEPT ![at] = g] /\ firstPcm' = [firstPcm EXCEPT ![at] = FALSE]
  BY DEF Enter
<1>3. /\ now \in Nat /\ block \in Nat /\ Margin \in Nat /\ FrameDuration \in Nat \ {0}
      /\ clock \in [Buffers -> Clocks] /\ epoch \in [Buffers -> Int]
      /\ given \in [Buffers -> Nat] /\ firstPcm \in [Buffers -> BOOLEAN]
  BY SizeAssumption, Durations DEF IInv, Types, JobInv, Accounts, HistoryTypes
<1>4. c \in Clocks /\ c.last <= now /\ e \in Int /\ e <= now /\ g \in Nat /\ Exact(c, e, g)
  <2>1. CASE firstPcm[at]
    BY <1>3, <2>1, ResetExact DEF Reset
  <2>2. CASE ~firstPcm[at]
    BY <1>1, <1>3, <2>2 DEF IInv, ClockInv, Accounts, HistoryTypes
  <2> QED
    BY <2>1, <2>2
<1> HIDE DEF c, e, g
<1>5. until' \in Int /\ e + FrameDuration * (g + block) + Margin <= until'
  <2>1. /\ c.last \in Int /\ c.frames \in Int /\ c.remainder \in 0 .. FrameDuration - 1
        /\ c.last - e = (g - c.frames) * FrameDuration + c.remainder
    BY <1>3, <1>4 DEF Clocks, Exact
  <2>2. AtLeast0(c.frames + block) \in Int /\ c.frames + block <= AtLeast0(c.frames + block)
    BY <1>3, <2>1 DEF AtLeast0
  <2>3. (c.frames + block) * FrameDuration <= AtLeast0(c.frames + block) * FrameDuration
        /\ AtLeast0(c.frames + block) * FrameDuration \in Int
    BY <1>3, <2>1, <2>2, ProductMonotone
  <2>4. until' = now + FrameDuration * AtLeast0(c.frames + block) + Margin
    BY <1>1 DEF WouldSleepUntil
  <2>5. AtLeast0(c.frames + block) * FrameDuration
          = FrameDuration * AtLeast0(c.frames + block)
    BY <1>3, <2>2
  <2>6. FrameDuration * (g + block)
          = (g - c.frames) * FrameDuration + (c.frames + block) * FrameDuration
    BY <1>3, <1>4, <2>1
  <2>7. /\ (g - c.frames) * FrameDuration \in Int /\ (c.frames + block) * FrameDuration \in Int
        /\ FrameDuration * AtLeast0(c.frames + block) \in Int
    BY <1>3, <1>4, <2>1, <2>2
  <2> QED
    BY <1>3, <1>4, <2>1, <2>3, <2>4, <2>5, <2>6, <2>7
<1>6. Buffers' = Buffers /\ FrameDuration' = FrameDuration
  BY <1>1 DEF Buffers, FrameDuration
<1>7. HistoryTypes'
  <2>1. \A b \in Buffers : clock'[b].last <= now /\ epoch'[b] <= now
    BY <1>2, <1>3, <1>4 DEF Accounts, HistoryTypes
  <2> QED
    BY <1>1, <1>2, <1>3, <1>4, <1>5, <1>6, <2>1 DEF Accounts, HistoryTypes
<1>8. Deadline'
  BY <1>1, <1>2, <1>3, <1>5, <1>6 DEF Deadline
<1>9. ASSUME NEW b \in Buffers, b # at
      PROVE  Conserved(b)' /\ Dropped(b)'
  <2>1. /\ epoch'[b] = epoch[b] /\ given'[b] = given[b] /\ firstPcm'[b] = firstPcm[b]
    BY <1>2, <1>3, <1>9
  <2>2. Stored(b)' = Stored(b) /\ Due(b, now)' = Due(b, now)
    BY <1>1, <1>9, <2>1 DEF Stored, Due
  <2> QED
    BY <1>1, <1>6, <2>1, <2>2 DEF Accounts, Conserved, Dropped
<1>10. ASSUME NEW b \in Buffers, b = at
      PROVE  Conserved(b)' /\ Dropped(b)'
  <2>1. epoch'[b] = e /\ given'[b] = g /\ firstPcm'[b] = FALSE
    BY <1>1, <1>2, <1>3, <1>10
  <2>2. Stored(b)' = 0 /\ Stored(b) = 0
    BY <1>1, <1>3 DEF Stored
  <2>3. /\ fill[b] \in Int /\ starved[b] \in Nat /\ skipped[b] \in Nat
        /\ Conserved(b) /\ Dropped(b)
    BY <1>1, SizeAssumption DEF IInv, FillInv, Accounts, HistoryTypes
  <2>4. CASE firstPcm[b]
    <3>1. e = now /\ g = 0 /\ fill[b] = 0 /\ starved[b] = 0 /\ skipped[b] = 0
      BY <1>10, <2>3, <2>4 DEF Conserved, e, g
    <3>2. Due(b, now)' = 0
      <4>1. Due(b, now)' = Burst * ((((now - now) * Rate) \div Second) \div Burst)
        BY <1>1, <2>1, <3>1 DEF Due
      <4>2. (now - now) * Rate = 0 /\ 0 \div Second = 0 /\ 0 \div Burst = 0 /\ Burst * 0 = 0
        BY <1>3, RateAssumption, SizeAssumption
      <4> QED
        BY <4>1, <4>2
    <3> QED
      BY <1>1, <2>1, <2>2, <3>1, <3>2 DEF Conserved, Dropped
  <2>5. CASE ~firstPcm[b]
    <3>1. e = epoch[b] /\ g = given[b]
      BY <1>10, <2>5 DEF e, g
    <3>2. Due(b, now)' = Due(b, now)
      BY <1>1, <2>1, <3>1 DEF Due
    <3> QED
      BY <1>1, <1>6, <2>1, <2>2, <2>3, <2>5, <3>1, <3>2 DEF Conserved, Dropped
  <2> QED
    BY <2>4, <2>5
<1>11. \A b \in Buffers : Conserved(b)' /\ Dropped(b)'
  <2> SUFFICES ASSUME NEW b \in Buffers PROVE Conserved(b)' /\ Dropped(b)'
    OBVIOUS
  <2>1. CASE b = at
    BY <1>10, <2>1
  <2>2. CASE b # at
    BY <1>9, <2>2
  <2> QED
    BY <2>1, <2>2
<1> QED
  BY <1>6, <1>7, <1>8, <1>11 DEF Accounts

\* The rest of a block is dropped beside a full ring once the deadline has come.
LEMMA LeaveAccounts ==
  ASSUME IInv, Accounts, job = "storing", NEW left \in 0 .. todo, Leave(at, left),
         fill' = [fill EXCEPT ![at] = fill[at] + (todo - left)],
         left > 0 => closed \/ (Room(at) = 0 /\ now >= until /\ left = todo),
         UNCHANGED <<Consumer, now, epoch, firstPcm, starved, until, closed>>
  PROVE  Accounts'
<1> DEFINE g == given[at] + block
<1>1. /\ at \in Buffers /\ todo \in 1 .. block /\ block \in Nat /\ now \in Nat
      /\ Size \in Nat /\ Margin \in Nat /\ FrameDuration \in Nat \ {0}
      /\ fill \in [Buffers -> 0 .. Size] /\ clock \in [Buffers -> Clocks]
      /\ epoch \in [Buffers -> Int] /\ given \in [Buffers -> Nat]
      /\ skipped \in [Buffers -> Nat] /\ starved \in [Buffers -> Nat] /\ until \in Int
  BY SizeAssumption, Durations, SMTT(30)
     DEF IInv, Types, JobInv, FillInv, Accounts, HistoryTypes
<1>2. /\ clock' = [clock EXCEPT ![at] = Update(clock[at], now, block)]
      /\ given' = [given EXCEPT ![at] = g]
      /\ skipped' = [skipped EXCEPT ![at] = skipped[at] + left]
      /\ job' # "storing"
  BY NotStoring DEF Leave
<1>3. Buffers' = Buffers /\ FrameDuration' = FrameDuration
  BY DEF Buffers, FrameDuration
<1>4. HistoryTypes'
  <2>1. Update(clock[at], now, block).last = now
    BY DEF Update
  <2>2. \A b \in Buffers : clock'[b].last <= now /\ epoch[b] <= now
    BY <1>1, <1>2, <2>1 DEF Accounts, HistoryTypes
  <2>3. given' \in [Buffers -> Nat] /\ skipped' \in [Buffers -> Nat]
    BY <1>1, <1>2
  <2> QED
    BY <1>1, <1>3, <2>2, <2>3 DEF Accounts, HistoryTypes
<1>5. Deadline'
  BY <1>2 DEF Deadline
<1>6. ASSUME NEW b \in Buffers, b # at
      PROVE  Conserved(b)' /\ Dropped(b)'
  <2>1. /\ fill'[b] = fill[b] /\ given'[b] = given[b] /\ skipped'[b] = skipped[b]
    BY <1>1, <1>2, <1>6
  <2>2. Stored(b)' = Stored(b) /\ Due(b, now)' = Due(b, now)
    BY <1>2, <1>6 DEF Stored, Due
  <2> QED
    BY <1>1, <1>3, <2>1, <2>2 DEF Accounts, Conserved, Dropped
<1>7. ASSUME NEW b \in Buffers, b = at
      PROVE  Conserved(b)' /\ Dropped(b)'
  <2>1. /\ fill'[b] = fill[b] + (todo - left) /\ given'[b] = g
        /\ skipped'[b] = skipped[b] + left
    BY <1>7, <1>1, <1>2
  <2>2. Stored(b)' = 0 /\ Stored(b) = block - todo /\ Due(b, now)' = Due(b, now)
    BY <1>7, <1>2 DEF Stored, Due
  <2>3. ~firstPcm[b] /\ epoch[b] + FrameDuration * g + Margin <= until
    BY <1>7 DEF Accounts, Deadline
  <2>4. /\ Due(b, now) \in Nat
        /\ (now - epoch[b]) * Rate < Second * Due(b, now) + Second * Burst
        /\ now - epoch[b] \in Nat
    <3>1. epoch[b] \in Int /\ epoch[b] <= now
      BY <1>1 DEF Accounts, HistoryTypes
    <3> QED
      BY <1>1, <3>1, DueBounds
  <2>5. Consumer[b] = "card" =>
          fill[b] + Due(b, now) - starved[b] + skipped[b] = given[b] + (block - todo)
    BY <1>1, <2>2, <2>3 DEF Accounts, Conserved
  <2>6. Conserved(b)'
    <3>1. Consumer[b] = "card" =>
            fill[b] + (todo - left) + Due(b, now) - starved[b] + (skipped[b] + left)
              = g + 0
      BY <1>7, <1>1, <2>4, <2>5
    <3> QED
      BY <2>1, <2>2, <2>3, <3>1 DEF Conserved
  <2>7. CASE left = 0
    <3>1. skipped'[b] = skipped[b] /\ Dropped(b)
      BY <1>1, <2>1, <2>7 DEF Accounts
    <3> QED
      BY <1>3, <2>6, <3>1 DEF Dropped
  <2>8. CASE left > 0
    <3> SUFFICES ASSUME Consumer[b] = "card", ~closed
                 PROVE  Second * (FrameDuration * starved[b])
                            + (now - epoch[b]) * (Second - FrameDuration * Rate)
                          > Second * ((Size + 1 - Burst) * FrameDuration + Margin)
      BY <1>3, <2>6 DEF Dropped
    <3>1. fill[b] = Size /\ now >= until /\ todo >= 1
      BY <1>7, <1>1, <2>8 DEF Room
    <3>2. Size + 1 + Due(b, now) - starved[b] <= g
      BY <1>7, <1>1, <2>4, <2>5, <3>1
    <3>3. g \in Nat /\ FrameDuration * g + Margin <= now - epoch[b]
      <4>1. g \in Nat
        BY <1>1
      <4> HIDE DEF g
      <4> QED
        BY <1>1, <2>3, <3>1, <4>1
    <3> HIDE DEF g
    <3> QED
      BY <1>1, <2>4, <3>2, <3>3, DropCounts
  <2> QED
    BY <1>1, <2>6, <2>7, <2>8
<1>8. \A b \in Buffers : Conserved(b)' /\ Dropped(b)'
  <2> SUFFICES ASSUME NEW b \in Buffers PROVE Conserved(b)' /\ Dropped(b)'
    OBVIOUS
  <2>1. CASE b = at
    BY <1>7, <2>1
  <2>2. CASE b # at
    BY <1>6, <2>2
  <2> QED
    BY <2>1, <2>2
<1> QED
  BY <1>3, <1>4, <1>5, <1>8 DEF Accounts

\* What is stored moves from the block to the ring.
LEMMA StoreAccounts == IInv /\ Accounts /\ Store => Accounts'
<1> SUFFICES ASSUME IInv, Accounts, Store PROVE Accounts'
  OBVIOUS
<1> DEFINE n == Least(todo, Room(at))
<1>1. /\ at \in Buffers /\ todo \in 1 .. block /\ block \in Nat /\ n > 0
      /\ fill \in [Buffers -> 0 .. Size] /\ Size \in Nat
      /\ job = "storing" /\ fill' = [fill EXCEPT ![at] = fill[at] + n] /\ todo' = todo - n
      /\ UNCHANGED <<now, until, firstPcm, epoch, closed, Consumer, starved>>
  BY SizeAssumption, Durations DEF Store, IInv, JobInv, FillInv
<1>2. n \in 1 .. todo
  BY <1>1 DEF Least, Room
<1>3. CASE n = todo
  <2>1. Leave(at, 0) /\ 0 \in 0 .. todo /\ todo - 0 = n
    BY <1>1, <1>3 DEF Store
  <2>2. fill' = [fill EXCEPT ![at] = fill[at] + (todo - 0)]
    BY <1>1, <2>1
  <2> QED
    <3>1. ~(0 > 0)
      OBVIOUS
    <3> HIDE DEF n
    <3> QED
      BY <1>1, <2>1, <2>2, <3>1, LeaveAccounts
<1>4. CASE n # todo
  <2>1. UNCHANGED <<job, rest, block, at, clock, given, skipped>>
    BY <1>4 DEF Store
  <2> HIDE DEF n
  <2>2. Buffers' = Buffers /\ FrameDuration' = FrameDuration
    BY <1>1 DEF Buffers, FrameDuration
  <2>3. HistoryTypes' /\ Deadline'
    BY <1>1, <2>1, <2>2 DEF Accounts, HistoryTypes, Deadline
  <2>4. ASSUME NEW b \in Buffers
        PROVE  Conserved(b)' /\ Dropped(b)'
    <3>1. Due(b, now)' = Due(b, now)
      BY <1>1 DEF Due
    <3>2. Dropped(b)'
      BY <1>1, <2>1, <2>2, <2>4 DEF Accounts, Dropped
    <3>3. CASE b = at
      <4>1. /\ fill'[b] = fill[b] + n /\ Stored(b) = block - todo
            /\ Stored(b)' = block - (todo - n)
        BY <1>1, <2>1, <3>3 DEF Stored
      <4>2. /\ ~firstPcm[b] /\ Conserved(b) /\ Due(b, now) \in Nat
            /\ starved[b] \in Nat /\ skipped[b] \in Nat /\ given[b] \in Nat
        <5>1. ~firstPcm[b] /\ epoch[b] <= now /\ epoch[b] \in Int /\ now \in Int
          BY <1>1, <3>3, SizeAssumption
             DEF Accounts, Deadline, HistoryTypes, IInv, Types, JobInv
        <5> QED
          BY <5>1, <2>4, DueBounds DEF Accounts, HistoryTypes
      <4>3. Consumer[b] = "card" =>
              fill[b] + n + Due(b, now) - starved[b] + skipped[b]
                = given[b] + (block - (todo - n))
        BY <1>1, <1>2, <2>4, <4>1, <4>2 DEF Conserved
      <4> QED
        BY <1>1, <2>1, <3>1, <3>2, <4>1, <4>2, <4>3 DEF Conserved
    <3>4. CASE b # at
      <4>1. fill'[b] = fill[b] /\ Stored(b)' = Stored(b)
        BY <1>1, <2>1, <2>4, <3>4 DEF Stored
      <4> QED
        BY <1>1, <2>1, <2>4, <3>1, <3>2, <4>1 DEF Accounts, Conserved
    <3> QED
      BY <3>3, <3>4
  <2> QED
    BY <2>2, <2>3, <2>4 DEF Accounts
<1> QED
  BY <1>3, <1>4

\* The block is given up: what is left of it was dropped.
LEMMA GiveUpAccounts == IInv /\ Accounts /\ GiveUp => Accounts'
<1> SUFFICES ASSUME IInv, Accounts, GiveUp PROVE Accounts'
  OBVIOUS
<1>1. /\ job = "storing" /\ Leave(at, todo) /\ todo \in 0 .. todo /\ at \in Buffers
      /\ closed \/ (Room(at) = 0 /\ now >= until)
      /\ fill \in [Buffers -> 0 .. Size] /\ Size \in Nat /\ todo \in Nat /\ fill' = fill
      /\ UNCHANGED <<Consumer, now, epoch, firstPcm, starved, until, closed>>
  BY SizeAssumption, Durations DEF GiveUp, IInv, JobInv, FillInv
<1>2. fill[at] + (todo - todo) = fill[at]
  BY <1>1
<1>3. fill' = [fill EXCEPT ![at] = fill[at] + (todo - todo)]
  BY <1>1, <1>2
<1> QED
  BY <1>1, <1>3, LeaveAccounts

\* A card plays what is in the ring, and goes without the rest.
LEMMA TickAccounts == IInv /\ Accounts /\ Tick => Accounts'
<1> SUFFICES ASSUME IInv, Accounts, Tick PROVE Accounts'
  OBVIOUS
<1>1. /\ now \in Nat /\ now' = now + 1
      /\ fill' = [b \in Buffers |-> fill[b] - Got(b)]
      /\ starved' = [b \in Buffers |-> starved[b] + Asked(b) - Got(b)]
      /\ UNCHANGED <<job, at, block, todo, until, clock, firstPcm, epoch, given, closed,
                     Consumer, skipped>>
      /\ Types /\ epoch \in [Buffers -> Int] /\ fill \in [Buffers -> 0 .. Size]
      /\ Size \in Nat /\ FrameDuration \in Nat
  BY SizeAssumption, Durations
     DEF Tick, IInv, Types, JobInv, FillInv, jobVars, clockVars
<1>2. Buffers' = Buffers /\ FrameDuration' = FrameDuration
  BY <1>1 DEF Buffers, FrameDuration
<1>3. ASSUME NEW b \in Buffers
      PROVE  /\ fill[b] \in Nat /\ Asked(b) \in Nat /\ Got(b) \in Nat /\ Got(b) <= Asked(b)
             /\ Got(b) <= fill[b] /\ starved[b] \in Nat
  <2>1. Asked(b) \in Nat /\ fill[b] \in Nat /\ starved[b] \in Nat
    BY <1>1, <1>3, AskedCounted DEF Accounts, HistoryTypes
  <2> QED
    BY <2>1 DEF Got, Least
<1>4. HistoryTypes'
  <2>1. starved' \in [Buffers -> Nat]
    BY <1>1, <1>3
  <2>2. \A b \in Buffers : clock[b].last <= now + 1 /\ epoch[b] <= now + 1
    BY <1>1 DEF Accounts, HistoryTypes, Types, Clocks
  <2> QED
    BY <1>1, <1>2, <2>1, <2>2 DEF Accounts, HistoryTypes
<1>5. Deadline'
  BY <1>1, <1>2 DEF Accounts, Deadline
<1>6. ASSUME NEW b \in Buffers
      PROVE  Conserved(b)' /\ Dropped(b)'
  <2>1. /\ fill'[b] = fill[b] - Got(b) /\ starved'[b] = starved[b] + Asked(b) - Got(b)
        /\ Stored(b)' = Stored(b)
    BY <1>1, <1>6 DEF Stored
  <2>2. /\ epoch[b] \in Int /\ epoch[b] <= now /\ skipped[b] \in Nat /\ given[b] \in Nat
        /\ Conserved(b) /\ Dropped(b)
    BY <1>1, <1>6 DEF Accounts, HistoryTypes
  <2>3. Conserved(b)'
    <3>1. CASE firstPcm[b]
      <4>1. Asked(b) = 0 /\ fill[b] = 0 /\ starved[b] = 0
        BY <2>2, <3>1 DEF Asked, Conserved
      <4>2. fill'[b] = 0 /\ starved'[b] = 0
        BY <1>3, <1>6, <2>1, <4>1
      <4> QED
        BY <1>1, <2>2, <3>1, <4>2 DEF Conserved
    <3>2. CASE ~firstPcm[b]
      <4> SUFFICES ASSUME Consumer[b] = "card"
                   PROVE  (fill[b] + Due(b, now) - starved[b] + skipped[b]
                             = given[b] + Stored(b))'
        BY <1>1, <3>2 DEF Conserved
      <4>1. Due(b, now)' = Due(b, now + 1) /\ Asked(b) = Due(b, now + 1) - Due(b, now)
        BY <1>1, <3>2 DEF Due, Asked
      <4>2. Due(b, now) \in Nat /\ Due(b, now + 1) \in Nat
        BY <1>1, <2>2, DueBounds
      <4>3. fill[b] + Due(b, now) - starved[b] + skipped[b] = given[b] + Stored(b)
        BY <2>2, <3>2 DEF Conserved
      <4>4. fill[b] - Got(b) + Due(b, now + 1) - (starved[b] + Asked(b) - Got(b)) + skipped[b]
              = fill[b] + Due(b, now) - starved[b] + skipped[b]
        BY <1>3, <1>6, <2>2, <4>1, <4>2
      <4> QED
        BY <1>1, <2>1, <4>1, <4>3, <4>4
    <3> QED
      BY <3>1, <3>2
  <2>4. Dropped(b)'
    <3> DEFINE k == Second - FrameDuration * Rate
               limit == Second * ((Size + 1 - Burst) * FrameDuration + Margin)
    <3>1. k \in Nat /\ Second \in Nat /\ limit \in Int
      BY <1>1, FrameRate, RateAssumption, SizeAssumption
    <3>2. limit' = limit /\ k' = k
      BY <1>2
    <3>3. starved[b] <= starved'[b] /\ starved'[b] \in Nat
      BY <1>3, <1>6, <2>1
    <3>4. Second * (FrameDuration * starved[b]) <= Second * (FrameDuration * starved'[b])
      <4>1. starved[b] * FrameDuration <= starved'[b] * FrameDuration
            /\ starved[b] * FrameDuration \in Int /\ starved'[b] * FrameDuration \in Int
        BY <1>1, <1>3, <1>6, <3>3, ProductMonotone
      <4>2. (starved[b] * FrameDuration) * Second <= (starved'[b] * FrameDuration) * Second
        BY <3>1, <4>1, ProductMonotone
      <4> QED
        BY <1>1, <1>3, <1>6, <3>1, <3>3, <4>2
    <3> HIDE DEF k, limit
    <3>5. (now - epoch[b]) * k <= (now + 1 - epoch[b]) * k
          /\ (now - epoch[b]) * k \in Int /\ (now + 1 - epoch[b]) * k \in Int
      BY <1>1, <2>2, <3>1, ProductMonotone
    <3>6. Second * (FrameDuration * starved[b]) \in Int
          /\ Second * (FrameDuration * starved'[b]) \in Int
      BY <1>1, <1>3, <1>6, <3>1, <3>3
    <3>7. Second * (FrameDuration * starved[b]) + (now - epoch[b]) * k > limit
            => Second * (FrameDuration * starved'[b]) + (now + 1 - epoch[b]) * k > limit
      BY <3>1, <3>4, <3>5, <3>6
    <3> QED
      BY <1>1, <1>2, <2>2, <3>7 DEF Dropped, k, limit
  <2> QED
    BY <2>3, <2>4
<1> QED
  BY <1>2, <1>4, <1>5, <1>6 DEF Accounts

LEMMA AccountsStep == IInv /\ Accounts /\ [Next]_vars => Accounts'
<1> SUFFICES ASSUME IInv, Accounts, [Next]_vars PROVE Accounts'
  OBVIOUS
<1>0. closed \in BOOLEAN
  BY DEF Accounts, HistoryTypes
<1>1. ASSUME NEW n \in Tracks, Decode(n)
      PROVE  Accounts'
  <2>1. job # "storing" /\ job' # "storing"
    BY <1>1 DEF Decode, NextBlock
  <2> QED
    BY <1>0, <1>1, <2>1, AccountsStay DEF Decode
<1>2. CASE EnterClosed
  BY <1>0, <1>2, AccountsStay, NotStoring DEF EnterClosed
<1>3. CASE JobEnds
  BY <1>0, <1>3, AccountsStay DEF JobEnds
<1>4. CASE (\E n \in Packets : Take(n)) \/ Wake \/ BrocaEnds \/ Terminate
  BY <1>0, <1>4, AccountsStay DEF Take, Wake, BrocaEnds, Terminate, jobVars
<1>5. CASE Close
  BY <1>0, <1>5, AccountsStay DEF Close, jobVars
<1>6. CASE UNCHANGED vars
  BY <1>0, <1>6, AccountsStay DEF vars, jobVars
<1> QED
  BY <1>1, <1>2, <1>3, <1>4, <1>5, <1>6, EnterAccounts, StoreAccounts, GiveUpAccounts,
     TickAccounts DEF Next, JobStep

LEMMA AccountsInit == Init => Accounts
<1> SUFFICES ASSUME Init PROVE Accounts
  OBVIOUS
<1>1. Reset(0).last = 0
  BY DEF Reset
<1>2. HistoryTypes
  <2>1. \A b \in Buffers : clock[b].last <= now /\ epoch[b] <= now
    BY <1>1 DEF Init
  <2>2. /\ skipped = [b \in Buffers |-> 0] /\ starved = [b \in Buffers |-> 0]
        /\ given = [b \in Buffers |-> 0] /\ until = 0
    BY DEF Init
  <2>3. closed \in BOOLEAN
    BY DEF Init
  <2> QED
    BY <2>1, <2>2, <2>3 DEF HistoryTypes
<1>3. Deadline
  BY DEF Init, Deadline
<1>4. \A b \in Buffers : Conserved(b) /\ Dropped(b)
  BY DEF Init, Conserved, Dropped
<1> QED
  BY <1>2, <1>3, <1>4 DEF Accounts

\* PcmBuffer::writePcm skips frames of a sound card that plays in real time
\* only once the card has gone without more than the buffer and the margin hold.
THEOREM CardDroppedOnlyIfStarved == Spec => []DroppedOnlyIfStarved
<1>1. IInv /\ Accounts => DroppedOnlyIfStarved
  <2> SUFFICES ASSUME IInv, Accounts, NEW b \in Buffers,
                      Consumer[b] = "card", skipped[b] > 0, ~closed
               PROVE  starved[b] * FrameDuration + Drift(b)
                        > (Size + 1 - Burst) * FrameDuration + Margin
    BY DEF DroppedOnlyIfStarved
  <2> DEFINE d == FrameDuration
             s == starved[b]
             x == now - epoch[b]
             u == Due(b, now)
             limit == (Size + 1 - Burst) * d + Margin
  <2>1. /\ d \in Nat \ {0} /\ Second \in Nat \ {0} /\ Rate \in Nat /\ limit \in Int
        /\ s \in Nat /\ x \in Nat /\ now \in Int /\ epoch[b] \in Int /\ epoch[b] <= now
    BY Durations, RateAssumption, SizeAssumption
       DEF IInv, Types, JobInv, Accounts, HistoryTypes
  <2>2. u \in Nat /\ Second * u <= x * Rate
    BY <2>1, DueBounds
  <2>3. Second * (d * s) + x * (Second - d * Rate) > Second * limit
    BY DEF Accounts, Dropped
  <2>4. Drift(b) = x - d * u
    BY DEF Drift
  <2> HIDE DEF d, s, x, u, limit
  <2>5. Second * (d * u) <= d * (x * Rate)
    <3>1. (Second * u) * d <= (x * Rate) * d
      BY <2>1, <2>2, ProductMonotone
    <3> QED
      BY <2>1, <2>2, <3>1
  <2>6. Second * (s * d + (x - d * u)) = Second * (d * s) + Second * x - Second * (d * u)
    BY <2>1, <2>2
  <2>7. x * (Second - d * Rate) = Second * x - d * (x * Rate)
    BY <2>1
  <2>8. /\ Second * (d * s) \in Int /\ Second * x \in Int /\ Second * (d * u) \in Int
        /\ d * (x * Rate) \in Int /\ s * d + (x - d * u) \in Int /\ Second * limit \in Int
        /\ Second * (s * d + (x - d * u)) \in Int
    BY <2>1, <2>2
  <2>9. Second * (s * d + (x - d * u)) > Second * limit
    BY <2>3, <2>5, <2>6, <2>7, <2>8
  <2>10. s * d + (x - d * u) > limit
    <3>1. ASSUME s * d + (x - d * u) <= limit
          PROVE  FALSE
      <4> DEFINE left == s * d + (x - d * u)
      <4>1. left \in Int /\ left <= limit /\ Second * left > Second * limit
        BY <2>8, <2>9, <3>1
      <4> HIDE DEF left
      <4>2. left * Second <= limit * Second
        BY <2>1, <4>1, ProductMonotone
      <4>3. left * Second = Second * left /\ limit * Second = Second * limit
        BY <2>1, <4>1
      <4> QED
        BY <2>1, <4>1, <4>2, <4>3
    <3> QED
      BY <2>1, <2>8, <3>1
  <2> QED
    BY <2>4, <2>10 DEF d, s, limit
<1> QED
  BY <1>1, AccountsInit, AccountsStep, Invariance, PTL DEF Spec

=============================================================================
