------------------------------- MODULE Pacing -------------------------------
(***************************************************************************)
(* How the program keeps time.  A job gives blocks of frames to one PCM    *)
(* buffer after the other.  Each buffer has a FrameClock, by which         *)
(* PcmBuffer::writePcm decides how long it waits for room before it skips  *)
(* the rest of a block.  A broca that waits (discard with "wait", shout    *)
(* with "selfsync") has a FrameClock too, by which it sleeps.              *)
(*                                                                         *)
(* Time is counted in ticks, of which there are Second in a second.  The   *)
(* encoder and the sink that lie between a PCM buffer and a sound card add *)
(* to the buffer and are left out; a broca that waits is looked at by      *)
(* itself, with packets that come when they like.                          *)
(***************************************************************************)
EXTENDS Integers, Sequences

CONSTANTS Consumers,    \* what may be configured: what empties each of the buffers,
                        \* or, if there are none, a broca that waits
          Second, Rate, \* ticks in a second, frames in a second
          Size,         \* frames in a buffer: "duration"
          Margin,       \* ticks: "skipmargin"
          Threshold,    \* frames that a broca may be ahead
          Burst,        \* frames that a sound card asks for at once
          Packets,      \* bound: the numbers of frames in a packet of the broca
          Tracks,       \* bound: the numbers of frames decoded at once
          Horizon       \* bound: ticks

\* At other rates a quarter of a second is no whole number of frames.
ASSUME RateAssumption ==
  /\ Second \in Nat /\ Rate \in Nat /\ 4 <= Rate /\ Rate <= Second
  /\ Rate % 4 = 0
ASSUME SizeAssumption ==
  /\ Size \in Nat \ {0} /\ Margin \in Nat /\ Threshold \in Nat
  /\ Burst \in Nat \ {0} /\ Tracks \cup Packets \subseteq Nat \ {0} /\ Horizon \in Nat
ASSUME ConsumerAssumption ==
  Consumers \subseteq Seq({"card", "nobody"})

VARIABLES
  now,                \* the steady clock
  job, rest, block,   \* the job: see Stages; frames left of what it decoded; of this block
  at, todo, until,    \* the buffer being written, frames still to store, the deadline
  fill,               \* per buffer: frames in its ring
  clock,              \* per buffer: frameClock_ of the buffer
  firstPcm,           \* per buffer: firstPcm_
  closed,             \* closed_ of all buffers
  Consumer,           \* per buffer, in the order of buffers_: what empties it
  pc, wake,           \* the broca: what it does, when it wakes
  sync,               \* its FrameClock
  terminating,        \* terminating_
  epoch, given,       \* history, per buffer: the last reset of clock, frames since then
  skipped, starved,   \* history, per buffer: frames dropped, frames a card did not get
  taken,              \* history: frames the broca took
  held                \* history: ticks spent waiting in writePcm

jobVars   == <<job, rest, block, at, todo, until>>
clockVars == <<clock, firstPcm, epoch, given>>
brocaVars == <<pc, wake, sync, taken>>
vars == <<now, jobVars, fill, clockVars, closed, Consumer, brocaVars, terminating,
          skipped, starved, held>>

Buffers == DOMAIN Consumer

Stages == {"decoding", "entering", "storing", "done"}

Least(a, b) == IF a <= b THEN a ELSE b
Greatest(a, b) == IF a >= b THEN a ELSE b
AtLeast0(a) == IF a < 0 THEN 0 ELSE a

-----------------------------------------------------------------------------
(* FrameClock.                                                             *)

\* frameDuration_: whole nanoseconds, here ticks.
FrameDuration == Second \div Rate

\* reset()
Reset(t) == [last |-> t, remainder |-> 0, frames |-> 0]

\* Seeded fault: the time that is left of a frame is dropped.
Update_NoRemainder(c, t, got) ==
  LET elapsed == t - c.last
  IN  [last      |-> t,
       remainder |-> elapsed % FrameDuration,
       frames    |-> c.frames + got - elapsed \div FrameDuration]

\* update()
Update(c, t, got) ==
  LET elapsed == t - c.last + c.remainder
  IN  [last      |-> t,
       remainder |-> elapsed % FrameDuration,
       frames    |-> c.frames + got - elapsed \div FrameDuration]

\* Seeded fault: the block itself is not counted.
WouldSleepUntil_Before(c, t, got) == t + FrameDuration * AtLeast0(c.frames)

\* Seeded fault: the block is added after the comparison with 0.
WouldSleepUntil_Clamped(c, t, got) == t + FrameDuration * (AtLeast0(c.frames) + got)

\* wouldSleepUntil().  The frames are those of the last update.
WouldSleepUntil(c, t, got) == t + FrameDuration * AtLeast0(c.frames + got)

\* sleepIf() sleeps at most a second at a time.
Sleeps(c) == c.frames >= Threshold /\ ~terminating

\* Seeded fault: it sleeps for as long as it has to in one go.
SleepUntil_Whole(c, t) ==
  t + FrameDuration * (c.frames - Threshold \div 2)

SleepUntil(c, t) ==
  t + Least(FrameDuration * (c.frames - Threshold \div 2), Second)

-----------------------------------------------------------------------------
Init ==
  /\ Consumer \in Consumers
  /\ now = 0
  /\ job = (IF Consumer = <<>> THEN "done" ELSE "decoding")
  /\ rest = 0 /\ block = 0 /\ at = 1 /\ todo = 0 /\ until = 0
  /\ fill = [b \in Buffers |-> 0]
  /\ clock = [b \in Buffers |-> Reset(0)] /\ firstPcm = [b \in Buffers |-> TRUE]
  /\ closed = FALSE
  /\ pc = (IF Consumer = <<>> THEN "taking" ELSE "done") /\ wake = 0 /\ sync = Reset(0)
  /\ terminating = FALSE
  /\ epoch = [b \in Buffers |-> 0] /\ given = [b \in Buffers |-> 0]
  /\ skipped = [b \in Buffers |-> 0] /\ starved = [b \in Buffers |-> 0]
  /\ taken = 0 /\ held = 0

-----------------------------------------------------------------------------
(* The job.                                                                *)

\* chop_: a quarter of a second, of which RateAssumption makes whole frames.
Chop == Rate \div 4

\* The splitter goes on with the next piece of what was decoded.
NextBlock(frames) ==
  IF frames = 0 THEN job' = "decoding" /\ UNCHANGED <<rest, block, at>>
  ELSE /\ job' = "entering"
       /\ block' = Least(frames, Chop)
       /\ rest' = frames - block'
       /\ at' = 1

\* PcmSplitter::pcm with what was decoded.
Decode(frames) ==
  /\ job = "decoding" /\ ~terminating
  /\ NextBlock(frames)
  /\ UNCHANGED <<now, todo, until, fill, clockVars, closed, Consumer, brocaVars,
                 terminating, skipped, starved, held>>

\* The loop of the job ends with a signal.
JobEnds ==
  /\ job = "decoding" /\ terminating
  /\ job' = "done"
  /\ UNCHANGED <<now, rest, block, at, todo, until, fill, clockVars, closed, Consumer,
                 brocaVars, terminating, skipped, starved, held>>

\* The same block for the next buffer, or the next block.
NextBuffer ==
  IF at < Len(Consumer) THEN job' = "entering" /\ at' = at + 1 /\ UNCHANGED <<rest, block>>
                     ELSE NextBlock(rest)

\* writePcm() up to writeTimed(): the first PCM of all resets the clock.
Enter ==
  LET c == IF firstPcm[at] THEN Reset(now) ELSE clock[at]
  IN  /\ job = "entering" /\ ~closed
      /\ job' = "storing"
      /\ todo' = block
      /\ until' = WouldSleepUntil(c, now, block) + Margin
      /\ clock' = [clock EXCEPT ![at] = c]
      /\ firstPcm' = [firstPcm EXCEPT ![at] = FALSE]
      /\ epoch' = [epoch EXCEPT ![at] = IF firstPcm[at] THEN now ELSE @]
      /\ given' = [given EXCEPT ![at] = IF firstPcm[at] THEN 0 ELSE @]
      /\ UNCHANGED <<now, rest, block, at, fill, closed, Consumer, brocaVars,
                     terminating, skipped, starved, held>>

EnterClosed ==
  /\ job = "entering" /\ closed
  /\ NextBuffer
  /\ UNCHANGED <<now, todo, until, fill, clockVars, closed, Consumer, brocaVars,
                 terminating, skipped, starved, held>>

Room(b) == Size - fill[b]

\* writePcm() after writeTimed(): the clock is given the block whether all
\* of it was stored or not.
Leave(b, left) ==
  /\ clock' = [clock EXCEPT ![b] = Update(@, now, block)]
  /\ given' = [given EXCEPT ![b] = @ + block]
  /\ skipped' = [skipped EXCEPT ![b] = @ + left]
  /\ NextBuffer

\* A round of writeTimed() that finds room.
Store ==
  LET n == Least(todo, Room(at))
  IN  /\ job = "storing" /\ ~closed /\ n > 0
      /\ fill' = [fill EXCEPT ![at] = @ + n]
      /\ todo' = todo - n
      /\ IF n = todo THEN Leave(at, 0)
         ELSE UNCHANGED <<job, rest, block, at, clock, given, skipped>>
      /\ UNCHANGED <<now, until, firstPcm, epoch, closed, Consumer, brocaVars, terminating,
                     starved, held>>

\* writeTimed() gives up: the deadline has come, or the buffer was closed.
GiveUp ==
  /\ job = "storing"
  /\ closed \/ (Room(at) = 0 /\ now >= until)
  /\ Leave(at, todo)
  /\ UNCHANGED <<now, todo, until, fill, firstPcm, epoch, closed, Consumer, brocaVars,
                 terminating, starved, held>>

-----------------------------------------------------------------------------
(* A broca that waits.                                                     *)

\* Seeded fault: it sleeps once, however far it is ahead.
Rests_Once(c, again) ==
  IF Sleeps(c) /\ ~again THEN pc' = "sleeping" /\ wake' = SleepUntil(c, now)
                         ELSE pc' = "taking" /\ UNCHANGED wake

\* The test of the loop in sleepIf(), for the first time or again.
Rests(c, again) ==
  IF Sleeps(c) THEN pc' = "sleeping" /\ wake' = SleepUntil(c, now)
               ELSE pc' = "taking" /\ UNCHANGED wake

\* A packet is read, and the clock is given the frames it announces.
Take(frames) ==
  LET c == Update(sync, now, frames)
  IN  /\ pc = "taking" /\ ~terminating
      /\ taken' = taken + frames
      /\ sync' = c
      /\ Rests(c, FALSE)
      /\ UNCHANGED <<now, jobVars, fill, clockVars, closed, Consumer, terminating, skipped,
                     starved, held>>

\* sleep_for() returns, no earlier than asked for.
Wake ==
  LET c == Update(sync, now, 0)
  IN  /\ pc = "sleeping" /\ now >= wake
      /\ sync' = c
      /\ Rests(c, TRUE)
      /\ UNCHANGED <<now, jobVars, fill, clockVars, closed, Consumer, taken, terminating,
                     skipped, starved, held>>

BrocaEnds ==
  /\ pc = "taking" /\ terminating
  /\ pc' = "done"
  /\ UNCHANGED <<now, jobVars, fill, clockVars, closed, Consumer, wake, sync, taken,
                 terminating, skipped, starved, held>>

-----------------------------------------------------------------------------
(* Time, and the end of it.                                                *)

\* Frames that a card has asked for by time t since the first.
Due(b, t) == Burst * ((((t - epoch[b]) * Rate) \div Second) \div Burst)

\* Frames that it asks for in this tick, and gets.
Asked(b) == IF Consumer[b] = "card" /\ ~firstPcm[b] THEN Due(b, now + 1) - Due(b, now) ELSE 0
Got(b)   == Least(Asked(b), fill[b])

\* The job does not wait longer than it has to.
JobWaits ==
  \/ job \in {"decoding", "done"}
  \/ job = "storing" /\ ~closed /\ Room(at) = 0 /\ now < until

\* A tick passes, in which the cards play.
Tick ==
  /\ now < Horizon
  /\ JobWaits
  /\ now' = now + 1
  /\ fill' = [b \in Buffers |-> fill[b] - Got(b)]
  /\ starved' = [b \in Buffers |-> starved[b] + Asked(b) - Got(b)]
  /\ held' = IF job = "storing" THEN held + 1 ELSE held
  /\ UNCHANGED <<jobVars, clockVars, closed, Consumer, brocaVars, terminating, skipped>>

\* A signal.
Terminate ==
  /\ ~terminating
  /\ terminating' = TRUE
  /\ UNCHANGED <<now, jobVars, fill, clockVars, closed, Consumer, brocaVars, skipped,
                 starved, held>>

\* The server closes the PCM buffers after one.
Close ==
  /\ terminating /\ ~closed
  /\ closed' = TRUE
  /\ UNCHANGED <<now, jobVars, fill, clockVars, Consumer, brocaVars, terminating, skipped,
                 starved, held>>

-----------------------------------------------------------------------------
JobStep == Enter \/ EnterClosed \/ Store \/ GiveUp \/ JobEnds

Next ==
  \/ \E n \in Tracks : Decode(n)
  \/ JobStep
  \/ \E n \in Packets : Take(n)
  \/ Wake \/ BrocaEnds
  \/ Tick \/ Terminate \/ Close

\* The job and the broca are scheduled, time passes, and a signal is
\* followed by quit().  Nobody has to decode.
Fairness ==
  /\ WF_vars(JobStep) /\ WF_vars(Tick) /\ WF_vars(Close)
  /\ WF_vars(Wake) /\ WF_vars(BrocaEnds)

Spec == Init /\ [][Next]_vars /\ Fairness
-----------------------------------------------------------------------------
(* Properties.                                                             *)

\* Rings hold what they have room for, and the job stores no more than a block.
TypeOK ==
  /\ now \in 0 .. Horizon /\ job \in Stages /\ pc \in {"taking", "sleeping", "done"}
  /\ fill \in [Buffers -> 0 .. Size]
  /\ block \in 0 .. Chop /\ rest \in Nat
  /\ job = "storing" => at \in Buffers /\ todo \in 1 .. block

\* The time a clock has seen and the frames it was given account for each
\* other to the tick, however often and at whatever times it is updated.
ClockExact ==
  /\ TypeOK
  /\ \A b \in Buffers :
       /\ clock[b].remainder \in 0 .. FrameDuration - 1
       /\ clock[b].last - epoch[b]
            = (given[b] - clock[b].frames) * FrameDuration + clock[b].remainder
  /\ sync.remainder \in 0 .. FrameDuration - 1
  /\ sync.last = (taken - sync.frames) * FrameDuration + sync.remainder

\* A broca that waits takes the next packet only when it is less than the
\* threshold ahead of the clock, and does not sleep until later than what it
\* has sent lasts.
PacedInTime ==
  /\ pc = "taking" /\ ~terminating /\ taken > 0 =>
       (taken - Threshold + 1) * FrameDuration <= now
  /\ pc = "sleeping" => wake < (taken + 1) * FrameDuration

\* What the card has asked for, in ticks by the buffer's clock, falls behind
\* the time that has passed, as the duration of a frame is rounded down.
Drift(b) == now - epoch[b] - FrameDuration * Due(b, now)

\* A card that plays in real time loses frames only once it has gone without
\* more of them than the buffer, less what it takes at once, and the margin
\* hold: pauses of the job count for ever, as only the first PCM resets the
\* clock.
DroppedOnlyIfStarved ==
  \A b \in Buffers :
    Consumer[b] = "card" /\ skipped[b] > 0 /\ ~closed =>
      starved[b] * FrameDuration + Drift(b)
        > (Size + 1 - Burst) * FrameDuration + Margin

\* The shortest block that the splitter makes of what is decoded.
Shortest ==
  LET blocks == UNION {{Least(n, Chop), n % Chop} : n \in Tracks} \ {0}
  IN  CHOOSE n \in blocks : \A m \in blocks : n <= m

\* Consumers that stall do not hold the job up for good: for each block it waits
\* no longer than the block lasts, or than the margins of all buffers together
\* if they are longer, as the default is, and then the job falls behind.
\* Excepted is a start in which each buffer, once the first is full, may make it
\* wait for all of its length, a block, what clocks leave of a frame, and the
\* margin.
HeldNoLonger ==
  LET buffers  == Len(Consumer)
      start    == buffers * (FrameDuration * (Size + Chop + 1) + Margin)
      perBlock == Greatest(FrameDuration * Shortest, buffers * Margin)
  IN  held > 0 =>
        (held - start) * Shortest <= (given[buffers] - (Size - Chop + 1)) * perBlock

\* A signal ends the job, as what the job waits for is closed.  It ends a broca
\* that waits within a second, however far it is ahead of the clock: time does
\* not run past the horizon, and a second before it is enough.
SignalEnds ==
  /\ terminating ~> job = "done"
  /\ terminating /\ now + Second <= Horizon ~> pc = "done"

=============================================================================
