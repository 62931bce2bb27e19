----------------------------- MODULE PcmBuffer -----------------------------
(***************************************************************************)
(* exo::PcmBuffer: the buffer between the decoder that is running and one  *)
(* encoder.  The PCM data goes through a ring of bytes (RingBuffer, here   *)
(* the bounded FIFO it implements); the track changes go through a queue   *)
(* of rows that count the bytes written after them.  A mutex guards the    *)
(* rows and the counters, but not the ring, and close() does not take it.  *)
(*                                                                         *)
(* The reader is the loop of BaseEncoder::run, the writer the job that the *)
(* JobQueue is running, and the closer the server's shutdown.              *)
(***************************************************************************)
EXTENDS Naturals, Sequences, FiniteSets

CONSTANTS FrameBytes,   \* bytes in a frame
          Size,         \* bytes in the ring: "duration" times the data rate
          Rows,         \* rows that fit in songChanges_, 7 in the program
          ReadFrames,   \* frames the encoder's own buffer holds
          Skip,         \* the "skip" setting
          MaxBlock,     \* bound: the longest block, in frames
          MaxFrames,    \* bound: the frames written
          MaxChanges    \* bound: the track changes written

ASSUME SizesAssumption ==
  /\ FrameBytes \in Nat \ {0} /\ Size \in Nat
  /\ Rows \in Nat \ {0} /\ ReadFrames \in Nat \ {0}
ASSUME SkipAssumption  == Skip \in BOOLEAN
ASSUME BoundAssumption == MaxBlock \in Nat /\ MaxFrames \in Nat /\ MaxChanges \in Nat

VARIABLES
  ring,          \* pcm_: the bytes in it, oldest first
  ringClosed,    \* pcm_.closed_
  rows,          \* songChanges_ from songTail_ to songHead_: [track, bytes]
  pcmLeft,       \* pcmLeft_: bytes of the current track to read before the next
  closed,        \* closed_
  reader,        \* the encoder: see ReaderSteps
  claimed,       \* canRead: bytes the encoder is about to take from the ring
  writer,        \* the running job: see WriterSteps
  src, written,  \* bytes of the block still to store, and those stored
  frames,        \* frames the decoder has produced
  changes,       \* track changes the decoder has made
  closer,        \* close(): "open", "closeRing", "notify", "done"
  terminating,   \* terminating_: a signal asked the program to stop
  delivered      \* history: what the encoder got, track changes and bytes

buffers == <<ring, rows, pcmLeft, claimed, delivered>>
block   == <<src, written, frames>>
stop    == <<ringClosed, closed, closer, terminating>>
vars    == <<buffers, reader, writer, block, changes, stop>>

ReaderSteps == {"loop", "readPcm", "deciding", "asleep", "reading", "closed?", "done"}
WriterSteps == {"idle", "storing", "counting", "lockingRow", "retryingRow", "stopped"}

Byte(i)   == <<"pcm", i>>
Change(k) == <<"track", k>>

Least(a, b) == IF a <= b THEN a ELSE b

\* Bytes written to the ring that no counter knows of yet.
Uncounted == IF writer \in {"storing", "counting"} THEN written ELSE 0

\* Whoever needs mutex_ has to wait while the encoder decides to sleep.
MutexFree == reader # "deciding"

\* Seeded fault: the encoder is not notified.
Notified_NoOne == reader

\* hasPcm_.notify_all(), together with what it reports: the encoder can do
\* nothing in between unless it wakes by itself.
Notified == IF reader = "asleep" THEN "readPcm" ELSE reader

-----------------------------------------------------------------------------
Init ==
  /\ ring = <<>> /\ rows = <<>> /\ pcmLeft = 0 /\ claimed = 0
  /\ delivered = <<>>
  /\ reader = "loop" /\ writer = "idle"
  /\ src = <<>> /\ written = 0 /\ frames = 0 /\ changes = 0
  /\ ringClosed = FALSE /\ closed = FALSE /\ closer = "open"
  /\ terminating = FALSE

-----------------------------------------------------------------------------
(* The encoder.                                                            *)

\* readTrackChange: the current track has been read and a change is queued.
\* It then syncs on the barrier, acknowledges the command, ends the old
\* track and starts the new one.
ReadTrackChange ==
  /\ reader = "loop" /\ ~terminating
  /\ rows # <<>> /\ pcmLeft = 0
  /\ rows' = Tail(rows)
  /\ pcmLeft' = Head(rows).bytes
  /\ delivered' = Append(delivered, Change(Head(rows).track))
  /\ reader' = "readPcm"
  /\ UNCHANGED <<ring, claimed, writer, block, changes, stop>>

NoTrackChange ==
  /\ reader = "loop" /\ ~terminating
  /\ rows = <<>> \/ pcmLeft # 0
  /\ reader' = "readPcm"
  /\ UNCHANGED <<buffers, writer, block, changes, stop>>

\* Seeded fault: a queued track change is not something to wake up for.
Readable_PcmOnly == pcmLeft > 0 \/ closed

\* The predicate of the wait in readPcm.
Readable == pcmLeft > 0 \/ rows # <<>> \/ closed

\* Seeded fault: a closed buffer reads as empty.
Wanted_UnlessClosed == IF closed THEN 0 ELSE Least(pcmLeft, ReadFrames * FrameBytes)

\* Bytes of the current track, as many as are there and fit.
Wanted == Least(pcmLeft, ReadFrames * FrameBytes)

\* Of those, whole frames.
Claim ==
  LET n == Wanted - (Wanted % FrameBytes)
  IN  /\ reader = "readPcm"
      /\ Readable
      /\ claimed' = n
      /\ pcmLeft' = pcmLeft - n
      /\ reader' = IF n > 0 THEN "reading" ELSE "closed?"
      /\ UNCHANGED <<ring, rows, delivered, writer, block, changes, stop>>

\* The predicate was false; the encoder goes to sleep next, and gives up the
\* mutex as it does.
Decide ==
  /\ reader = "readPcm"
  /\ ~Readable
  /\ reader' = "deciding"
  /\ UNCHANGED <<buffers, writer, block, changes, stop>>

FallAsleep ==
  /\ reader = "deciding"
  /\ reader' = "asleep"
  /\ UNCHANGED <<buffers, writer, block, changes, stop>>

SpuriousWakeup ==
  /\ reader = "asleep"
  /\ reader' = "readPcm"
  /\ UNCHANGED <<buffers, writer, block, changes, stop>>

\* pcm_.readFull, outside the mutex: it waits for all the bytes unless the
\* ring is closed.
ReadFull ==
  LET n == Least(claimed, Len(ring))
  IN  /\ reader = "reading"
      /\ Len(ring) >= claimed \/ ringClosed
      /\ delivered' = delivered \o SubSeq(ring, 1, n)
      /\ ring' = SubSeq(ring, n + 1, Len(ring))
      /\ claimed' = 0
      /\ reader' = "loop"
      /\ UNCHANGED <<rows, pcmLeft, writer, block, changes, stop>>

\* readPcm() returned 0: the end if the source is closed.
NothingRead ==
  /\ reader = "closed?"
  /\ reader' = IF closed THEN "done" ELSE "loop"
  /\ UNCHANGED <<buffers, writer, block, changes, stop>>

\* The loop ends when the program is terminating.
Terminated ==
  /\ reader = "loop" /\ terminating
  /\ reader' = "done"
  /\ UNCHANGED <<buffers, writer, block, changes, stop>>

ReaderStep ==
  \/ ReadTrackChange \/ NoTrackChange \/ Claim \/ Decide \/ FallAsleep
  \/ ReadFull \/ NothingRead \/ Terminated

-----------------------------------------------------------------------------
(* The running job.                                                        *)

\* writePcm, unless the buffer is closed.
StartBlock(n) ==
  /\ writer = "idle" /\ ~closed
  /\ frames + n <= MaxFrames
  /\ frames' = frames + n
  /\ src' = [i \in 1 .. n * FrameBytes |-> Byte(frames * FrameBytes + i)]
  /\ written' = 0
  /\ writer' = "storing"
  /\ UNCHANGED <<buffers, reader, changes, stop>>

\* One round of pcm_.writeFull or pcm_.writeTimed.
Store ==
  LET n == Least(Len(src), Size - Len(ring))
  IN  /\ writer = "storing"
      /\ ~ringClosed /\ Len(ring) < Size
      /\ ring' = ring \o SubSeq(src, 1, n)
      /\ src' = SubSeq(src, n + 1, Len(src))
      /\ written' = written + n
      /\ writer' = IF n = Len(src) THEN "counting" ELSE "storing"
      /\ UNCHANGED <<rows, pcmLeft, claimed, delivered, frames, reader, changes, stop>>

\* The rest of the block is not stored: the ring was closed, or it was a
\* timed write and took too long.
CutShort ==
  /\ writer = "storing"
  /\ \/ ringClosed
     \/ Skip /\ (Len(ring) = Size \/ written > 0)
  /\ writer' = "counting"
  /\ UNCHANGED <<buffers, reader, block, changes, stop>>

\* Seeded fault: a block that was cut short counts as written.
Counted_Whole == written + Len(src)

\* What writePcm takes for the number of bytes that were written.
Counted == IF Skip            THEN written
           ELSE IF ringClosed THEN written + Len(src)
           ELSE 0

\* Seeded fault: songTail_ for songHead_.
LastRow_First == 1

\* The row before songHead_.
LastRow == Len(rows)

\* The bytes belong to the last track change written, whether it is still
\* queued or has become the current track.
Count ==
  /\ writer = "counting"
  /\ Counted > 0
  /\ MutexFree
  /\ IF rows = <<>> THEN pcmLeft' = pcmLeft + Counted /\ UNCHANGED rows
     ELSE rows' = [rows EXCEPT ![LastRow].bytes = @ + Counted] /\ UNCHANGED pcmLeft
  /\ reader' = Notified
  /\ src' = <<>> /\ written' = 0
  /\ writer' = "idle"
  /\ UNCHANGED <<ring, claimed, delivered, frames, changes, stop>>

CountNothing ==
  /\ writer = "counting"
  /\ Counted = 0
  /\ src' = <<>> /\ written' = 0
  /\ writer' = "idle"
  /\ UNCHANGED <<buffers, reader, frames, changes, stop>>

\* writeTrackChange, unless the buffer is closed.
StartChange ==
  /\ writer = "idle" /\ ~closed
  /\ changes < MaxChanges
  /\ changes' = changes + 1
  /\ writer' = "lockingRow"
  /\ UNCHANGED <<buffers, reader, block, stop>>

\* metadataFull_
Full == Len(rows) = Rows

PushRow ==
  /\ writer \in {"lockingRow", "retryingRow"}
  /\ MutexFree
  /\ ~Full
  /\ rows' = Append(rows, [track |-> changes, bytes |-> 0])
  /\ reader' = Notified
  /\ writer' = "idle"
  /\ UNCHANGED <<ring, pcmLeft, claimed, delivered, block, changes, stop>>

\* No row is free: sleep for a second and try once more.
AwaitRow ==
  /\ writer = "lockingRow"
  /\ MutexFree
  /\ Full
  /\ writer' = "retryingRow"
  /\ UNCHANGED <<buffers, reader, block, changes, stop>>

\* Still none, or try_lock_for timed out: the track change is dropped.
DropChange ==
  /\ writer = "retryingRow"
  /\ Full \/ ~MutexFree
  /\ writer' = "idle"
  /\ UNCHANGED <<buffers, reader, block, changes, stop>>

\* The server joined the job threads.
JobsStopped ==
  /\ writer = "idle"
  /\ writer' = "stopped"
  /\ UNCHANGED <<buffers, reader, block, changes, stop>>

WriterStep ==
  Store \/ CutShort \/ Count \/ CountNothing \/ PushRow \/ AwaitRow \/ DropChange

-----------------------------------------------------------------------------
(* Shutdown.                                                               *)

\* A signal.
Terminate ==
  /\ ~terminating
  /\ terminating' = TRUE
  /\ UNCHANGED <<buffers, reader, writer, block, changes, ringClosed, closed, closer>>

\* close(), after the jobs were joined or because of a signal.  It sets
\* closed_ without the mutex.
Close ==
  /\ closer = "open"
  /\ writer = "stopped" \/ terminating
  /\ closed' = TRUE
  /\ closer' = "closeRing"
  /\ UNCHANGED <<buffers, reader, writer, block, changes, ringClosed, terminating>>

CloseRing ==
  /\ closer = "closeRing"
  /\ ringClosed' = TRUE
  /\ closer' = "notify"
  /\ UNCHANGED <<buffers, reader, writer, block, changes, closed, terminating>>

CloseNotifies ==
  /\ closer = "notify"
  /\ reader' = Notified
  /\ closer' = "done"
  /\ UNCHANGED <<buffers, writer, block, changes, ringClosed, closed, terminating>>

-----------------------------------------------------------------------------
Next ==
  \/ ReaderStep \/ SpuriousWakeup
  \/ \E n \in 1 .. MaxBlock : StartBlock(n)
  \/ StartChange
  \/ WriterStep
  \/ JobsStopped
  \/ Terminate
  \/ Close \/ CloseRing \/ CloseNotifies

\* The encoder's loop, a job inside a method and close() keep going, and who
\* waits for a mutex that is free again and again gets it.
Fairness ==
  /\ WF_vars(ReaderStep)
  /\ SF_vars(WriterStep)
  /\ WF_vars(CloseRing \/ CloseNotifies)

Spec == Init /\ [][Next]_vars /\ Fairness

-----------------------------------------------------------------------------
(* Properties.                                                             *)

\* The ring and the rows stay within their sizes, whole frames are claimed, and
\* every byte and change that is delivered was written.
TypeOK ==
  /\ ring \in Seq({Byte(i) : i \in 1 .. FrameBytes * frames}) /\ Len(ring) <= Size
  /\ rows \in Seq([track : 1 .. changes, bytes : Nat]) /\ Len(rows) <= Rows
  /\ pcmLeft \in Nat
  /\ claimed \in Nat /\ claimed % FrameBytes = 0 /\ (claimed > 0 <=> reader = "reading")
  /\ delivered \in Seq({Byte(i) : i \in 1 .. FrameBytes * frames}
                       \cup {Change(k) : k \in 1 .. changes})
  /\ reader \in ReaderSteps /\ writer \in WriterSteps
  /\ written \in Nat /\ Len(src) + written <= FrameBytes * frames
  /\ frames \in Nat /\ changes \in Nat
  /\ ringClosed \in BOOLEAN /\ closed \in BOOLEAN /\ terminating \in BOOLEAN
  /\ closer \in {"open", "closeRing", "notify", "done"}

\* Where the bytes of row i end in the ring.
EndOf(i) ==
  LET end[j \in 0 .. Len(rows)] ==
        IF j = 0 THEN claimed + pcmLeft ELSE end[j - 1] + rows[j].bytes
  IN  end[i]

\* The ring and the counters are never updated together, yet every byte in
\* the ring is accounted for by exactly one counter or the block being
\* written: the encoder never asks the ring for more than there is, so
\* pcm_.readFull never blocks, and no byte is left without an owner.
CountsMatchRing ==
  /\ TypeOK
  /\ EndOf(Len(rows)) + Uncounted = Len(ring)

\* The stream the buffer stands for: the rows between the bytes that the
\* counters put before and after them.
Pending ==
  LET upTo[j \in 0 .. Len(rows)] ==
        IF j = 0 THEN SubSeq(ring, 1, EndOf(0))
        ELSE upTo[j - 1] \o <<Change(rows[j].track)>>
                         \o SubSeq(ring, EndOf(j - 1) + 1, EndOf(j))
  IN  upTo[Len(rows)] \o SubSeq(ring, EndOf(Len(rows)) + 1, Len(ring))

\* The PCM buffers "encode metadata changes and ensure that they are passed
\* to the encoder at right positions": the bytes that are stored and the
\* changes that are queued reach the encoder in the order of the writes.
Stream == INSTANCE TrackStream WITH pending <- Pending
InRightPositions == Stream!Spec

\* The encoder hears of what is written: while the buffer is open, it
\* empties the ring again and again.
EveryByteIsRead == ring # <<>> ~> (ring = <<>> \/ closed \/ terminating)

\* And it gets to every track change that is queued.
EverythingIsRead ==
  /\ EveryByteIsRead
  /\ rows # <<>> ~> (rows = <<>> \/ closed \/ terminating)

\* close() ends the encoder, unless the encoder is just then about to sleep.
CloseEndsEncoder == (closer = "closeRing" /\ reader # "deciding") ~> reader = "done"

\* An orderly shutdown never cuts a track that is being played.
CurrentTrackFinished == reader = "done" /\ ~terminating => pcmLeft = 0 /\ claimed = 0

=============================================================================
