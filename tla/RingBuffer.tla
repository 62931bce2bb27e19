----------------------------- MODULE RingBuffer -----------------------------
(***************************************************************************)
(* exo::RingBuffer: a bounded FIFO between threads, kept in an array of    *)
(* Size + 1 slots with a head and a tail, guarded by one mutex and two     *)
(* condition variables.                                                    *)
(*                                                                         *)
(* Every pass through a locked region is one action, because the mutex     *)
(* excludes all others; a wait gives the mutex up, so falling asleep ends  *)
(* the action.  The notification comes after the unlock and is an action   *)
(* of its own.  A sleeping thread may wake up spuriously.                  *)
(***************************************************************************)
EXTENDS Naturals, Sequences, FiniteSets

CONSTANTS Readers, Writers,   \* the threads
          NoWaitWriters,      \* the writers that use putNoWait()
          Values,
          Size,               \* the capacity, one less than the slots
          MaxChunk,           \* bound: the longest read or write request
          MaxOffered          \* bound: the values offered by the writers

ASSUME SizeAssumption    == Size \in Nat \ {0}
ASSUME ThreadsAssumption == /\ Readers \cap Writers = {}
                            /\ NoWaitWriters \subseteq Writers
ASSUME ValuesAssumption  == Values # {}
ASSUME BoundAssumption   == MaxChunk \in Nat /\ MaxOffered \in Nat

Threads == Readers \cup Writers

VARIABLES
  buffer, head, tail,   \* buffer_, head_, tail_
  closed,               \* closed_
  pc,                   \* per thread: where it is in its method
  kind,                 \* per thread: the method it is in
  left,                 \* per reader: how many values are still wanted
  src,                  \* per writer: the values still to be written
  closer,               \* close(): "open", "notifyWriters", "notifyReaders", "done"
  offered,              \* how many values the writers offered so far
  taken                 \* history: every value read, in order

ring == <<buffer, head, tail>>
vars == <<ring, closed, pc, kind, left, src, closer, offered, taken>>

Slots == 0 .. Size
Locations == {"idle", "locking", "tryLocking", "asleep", "notify"}
ReadKinds == {"readSome", "readFull"}
WriteKinds == {"writeFull", "writeTimed", "putNoWait"}
Chunks == UNION {[1 .. n -> Values] : n \in 1 .. MaxChunk}

-----------------------------------------------------------------------------
(* The ring.                                                               *)

CanRead == head # tail

ToRead == IF head < tail THEN head + (Size + 1) - tail ELSE head - tail

CanWrite == (head + 1) % (Size + 1) # tail

\* Seeded fault: the free slot is counted as space.
ToWrite_AllSlots == Size + 1 - ToRead

ToWrite == Size - ToRead

Least(a, b) == IF a <= b THEN a ELSE b

\* The slot k places after slot i.
After(i, k) == IF i + k <= Size THEN i + k ELSE i + k - (Size + 1)

\* The values in the ring, oldest first.
Contents == [i \in 1 .. ToRead |-> buffer[After(tail, i - 1)]]

\* lockedMoveFromBuffer_ and lockedSkipFromBuffer_: the tail moves over n
\* values, wrapping at the sliver between it and the end of the array.
MoveFrom(n) ==
  LET sliver == (Size + 1) - tail
  IN  /\ tail' = IF n < sliver THEN tail + n ELSE n - sliver
      /\ taken' = taken \o SubSeq(Contents, 1, n)
      /\ UNCHANGED <<buffer, head>>

\* Seeded fault: a copy that ends at the end of the array leaves the head there.
MoveTo_NoWrap(s, n) ==
  LET sliver == (Size + 1) - head
  IN  /\ buffer' = [i \in Slots |->
                      IF head <= i /\ i < head + n THEN s[i - head + 1]
                      ELSE IF i + sliver < n       THEN s[i + sliver + 1]
                      ELSE buffer[i]]
      /\ head' = IF n <= sliver THEN head + n ELSE n - sliver
      /\ UNCHANGED tail

\* lockedXferToBuffer_: the first n values of s are stored from the head on,
\* in one piece or, past the sliver, in two.
MoveTo(s, n) ==
  LET sliver == (Size + 1) - head
  IN  /\ buffer' = [i \in Slots |->
                      IF head <= i /\ i < head + n THEN s[i - head + 1]
                      ELSE IF i + sliver < n       THEN s[i + sliver + 1]
                      ELSE buffer[i]]
      /\ head' = IF n < sliver THEN head + n ELSE n - sliver
      /\ UNCHANGED tail

-----------------------------------------------------------------------------
Init ==
  /\ \E v \in Values : buffer = [i \in Slots |-> v]     \* whatever T{} is
  /\ head = 0 /\ tail = 0
  /\ closed = FALSE /\ closer = "open"
  /\ pc = [t \in Threads |-> "idle"]
  /\ kind = [t \in Threads |-> IF t \in Readers THEN "readFull" ELSE "writeFull"]
  /\ left = [r \in Readers |-> 0]
  /\ src = [w \in Writers |-> <<>>]
  /\ offered = 0
  /\ taken = <<>>

At(t, l) == pc[t] = l

GoTo(t, l) == pc' = [pc EXCEPT ![t] = l]

Asleep(S) == {t \in S : pc[t] = "asleep"}

\* After its unlock, t wakes one of the sleeping threads in S, if there is
\* one, and goes on to l.
NotifyOne(t, S, l) ==
  \/ /\ Asleep(S) = {}
     /\ GoTo(t, l)
  \/ \E s \in Asleep(S) : pc' = [pc EXCEPT ![t] = l, ![s] = "locking"]

-----------------------------------------------------------------------------
(* Readers.  get() and skipFull() take the same steps as readFull().       *)

StartRead(r, k, n) ==
  /\ At(r, "idle")
  /\ kind' = [kind EXCEPT ![r] = k]
  /\ left' = [left EXCEPT ![r] = n]
  /\ GoTo(r, "locking")
  /\ UNCHANGED <<ring, closed, src, closer, offered, taken>>

Read(r) ==
  LET n == Least(left[r], ToRead)
  IN  /\ At(r, "locking")
      /\ CanRead
      /\ MoveFrom(n)
      /\ left' = [left EXCEPT ![r] = IF kind[r] = "readSome" THEN 0 ELSE @ - n]
      /\ GoTo(r, "notify")
      /\ UNCHANGED <<closed, kind, src, closer, offered>>

\* Seeded fault: a reader tries again although the buffer is closed.
ReadNothing_Again(r) ==
  /\ At(r, "locking")
  /\ ~CanRead
  /\ GoTo(r, IF closed THEN "locking" ELSE "asleep")
  /\ UNCHANGED <<ring, closed, kind, left, src, closer, offered, taken>>

\* Nothing to read: wait, or give up if the buffer is closed.
ReadNothing(r) ==
  /\ At(r, "locking")
  /\ ~CanRead
  /\ GoTo(r, IF closed THEN "idle" ELSE "asleep")
  /\ UNCHANGED <<ring, closed, kind, left, src, closer, offered, taken>>

\* Seeded fault: didRead_() is only called when the request is complete.
DidRead_Late(r) ==
  /\ At(r, "notify")
  /\ IF left[r] > 0 THEN GoTo(r, "locking") ELSE NotifyOne(r, Writers, "idle")
  /\ UNCHANGED <<ring, closed, kind, left, src, closer, offered, taken>>

\* didRead_(), and the end of the loop.
DidRead(r) ==
  /\ At(r, "notify")
  /\ NotifyOne(r, Writers, IF left[r] > 0 THEN "locking" ELSE "idle")
  /\ UNCHANGED <<ring, closed, kind, left, src, closer, offered, taken>>

-----------------------------------------------------------------------------
(* Writers.                                                                *)

StartWrite(w, k, s) ==
  /\ At(w, "idle")
  /\ offered + Len(s) <= MaxOffered
  /\ offered' = offered + Len(s)
  /\ kind' = [kind EXCEPT ![w] = k]
  /\ src' = [src EXCEPT ![w] = s]
  /\ GoTo(w, "locking")
  /\ UNCHANGED <<ring, closed, left, closer, taken>>

\* A writer about to look at the ring in the loop of a waiting method.
InLoop(w) == pc[w] \in {"locking", "tryLocking"} /\ kind[w] # "putNoWait"

\* Seeded fault: closed_ is not looked at before writing.
Write_Unguarded(w) ==
  LET n == Least(Len(src[w]), ToWrite)
  IN  /\ InLoop(w)
      /\ CanWrite
      /\ MoveTo(src[w], n)
      /\ src' = [src EXCEPT ![w] = SubSeq(@, n + 1, Len(@))]
      /\ GoTo(w, "notify")
      /\ UNCHANGED <<closed, kind, left, closer, offered, taken>>

\* writeFull, writeMoveFull and writeTimed, one round of the loop.
Write(w) ==
  LET n == Least(Len(src[w]), ToWrite)
  IN  /\ InLoop(w)
      /\ CanWrite /\ ~closed
      /\ MoveTo(src[w], n)
      /\ src' = [src EXCEPT ![w] = SubSeq(@, n + 1, Len(@))]
      /\ GoTo(w, "notify")
      /\ UNCHANGED <<closed, kind, left, closer, offered, taken>>

\* No space: wait.
WriteWaits(w) ==
  /\ InLoop(w)
  /\ ~CanWrite /\ ~closed
  /\ GoTo(w, "asleep")
  /\ UNCHANGED <<ring, closed, kind, left, src, closer, offered, taken>>

\* The rest of the values is not written: the buffer was closed, or the
\* deadline of a timed write passed, either while it slept without space or
\* while it waited for the mutex after its first round.
WriteGivesUp(w) ==
  /\ \/ InLoop(w) /\ closed
     \/ At(w, "asleep") /\ kind[w] = "writeTimed" /\ ~CanWrite
     \/ At(w, "tryLocking")
  /\ GoTo(w, "idle")
  /\ src' = [src EXCEPT ![w] = <<>>]
  /\ UNCHANGED <<ring, closed, kind, left, closer, offered, taken>>

\* writePartial with one value: it does not look at closed_.
PutNoWait(w) ==
  /\ At(w, "locking") /\ kind[w] = "putNoWait"
  /\ IF ToWrite > 0
       THEN /\ MoveTo(src[w], 1)
            /\ GoTo(w, "notify")
       ELSE /\ UNCHANGED ring
            /\ GoTo(w, "idle")
  /\ src' = [src EXCEPT ![w] = <<>>]
  /\ UNCHANGED <<closed, kind, left, closer, offered, taken>>

\* didWrite_(), and the end of the loop.
DidWrite(w) ==
  /\ At(w, "notify")
  /\ NotifyOne(w, Readers, IF src[w] = <<>> THEN "idle"
                           ELSE IF kind[w] = "writeTimed" THEN "tryLocking"
                           ELSE "locking")
  /\ UNCHANGED <<ring, closed, kind, left, src, closer, offered, taken>>

-----------------------------------------------------------------------------
(* close(), and wakeups nobody asked for.                                  *)

Close ==
  /\ closer = "open"
  /\ closed' = TRUE
  /\ closer' = "notifyWriters"
  /\ UNCHANGED <<ring, pc, kind, left, src, offered, taken>>

NotifyAll(S) ==
  pc' = [t \in Threads |-> IF t \in Asleep(S) THEN "locking" ELSE pc[t]]

CloseNotifiesWriters ==
  /\ closer = "notifyWriters"
  /\ NotifyAll(Writers)
  /\ closer' = "notifyReaders"
  /\ UNCHANGED <<ring, closed, kind, left, src, offered, taken>>

CloseNotifiesReaders ==
  /\ closer = "notifyReaders"
  /\ NotifyAll(Readers)
  /\ closer' = "done"
  /\ UNCHANGED <<ring, closed, kind, left, src, offered, taken>>

SpuriousWakeup(t) ==
  /\ At(t, "asleep")
  /\ GoTo(t, "locking")
  /\ UNCHANGED <<ring, closed, kind, left, src, closer, offered, taken>>

-----------------------------------------------------------------------------
ReaderStep(r) == Read(r) \/ ReadNothing(r) \/ DidRead(r)

WriterStep(w) ==
  Write(w) \/ WriteWaits(w) \/ WriteGivesUp(w) \/ PutNoWait(w) \/ DidWrite(w)

CloserStep == Close \/ CloseNotifiesWriters \/ CloseNotifiesReaders

Next ==
  \/ \E r \in Readers, k \in ReadKinds, n \in 1 .. MaxChunk : StartRead(r, k, n)
  \/ \E w \in Writers \ NoWaitWriters, k \in {"writeFull", "writeTimed"}, s \in Chunks :
       StartWrite(w, k, s)
  \/ \E w \in NoWaitWriters, v \in Values : StartWrite(w, "putNoWait", <<v>>)
  \/ \E r \in Readers : ReaderStep(r)
  \/ \E w \in Writers : WriterStep(w)
  \/ CloserStep
  \/ \E t \in Threads : SpuriousWakeup(t)

\* A thread that is inside a method keeps running, and close() completes
\* once it began; nobody has to call anything.
Fairness ==
  /\ \A r \in Readers : WF_vars(ReaderStep(r))
  /\ \A w \in Writers : WF_vars(WriterStep(w))
  /\ WF_vars(CloseNotifiesWriters \/ CloseNotifiesReaders)

Spec == Init /\ [][Next]_vars /\ Fairness

-----------------------------------------------------------------------------
(* Properties.                                                             *)

\* The indices stay within the array, and every thread is at a step it has a
\* request for.
TypeOK ==
  /\ buffer \in [Slots -> Values] /\ head \in Slots /\ tail \in Slots
  /\ closed \in BOOLEAN
  /\ pc \in [Threads -> Locations]
  /\ kind \in [Threads -> ReadKinds \cup WriteKinds]
  /\ left \in [Readers -> Nat]
  /\ src \in [Writers -> Seq(Values)]
  /\ closer \in {"open", "notifyWriters", "notifyReaders", "done"}
  /\ offered \in Nat
  /\ taken \in Seq(Values)

\* The array with its two indices is a bounded FIFO: the wrapping copies of
\* lockedXferToBuffer_ and lockedMoveFromBuffer_ neither lose, repeat, alter
\* nor reorder a value, whatever the lengths of the requests.
Fifo == INSTANCE BoundedFifo WITH q <- Contents
FifoSpec == Fifo!Spec

\* notify_one() comes after the unlock and wakes a single thread, yet nobody
\* oversleeps: with one reader and one waiting writer, a thread that sleeps
\* although it could go on is about to be notified.
NoLostWakeup ==
  /\ \A r \in Readers : At(r, "asleep") /\ CanRead =>
       (\E w \in Writers : At(w, "notify")) \/ closer \in {"notifyWriters", "notifyReaders"}
  /\ \A w \in Writers : At(w, "asleep") /\ CanWrite =>
       (\E r \in Readers : At(r, "notify")) \/ closer = "notifyWriters"
  /\ \A t \in Threads : At(t, "asleep") /\ closed =>
       closer = "notifyWriters" \/ (t \in Readers /\ closer = "notifyReaders")

\* "Any writes after the buffer is closed fail", whatever round of its loop a
\* waiting or timed write is in.  Only a putNoWait() goes through.
NothingStoredOnceClosed ==
  [][closed /\ ToRead' > ToRead =>
       \E w \in NoWaitWriters : At(w, "locking") /\ pc'[w] # "locking"]_vars

\* And closing gets every thread out of the method it is blocked in.
CloseIsFinal ==
  /\ \A t \in Threads : closed ~> At(t, "idle")
  /\ NothingStoredOnceClosed

=============================================================================
