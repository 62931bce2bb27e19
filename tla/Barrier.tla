------------------------------ MODULE Barrier ------------------------------
(***************************************************************************)
(* exo::Barrier: the encoders that share a barrier call sync() at every    *)
(* track change, with a token that counts their own track changes, and     *)
(* wait there for each other.                                              *)
(*                                                                         *)
(* sync() holds the mutex from its first line to its last, except while it *)
(* waits on the condition variable: a call is one action, or one up to the *)
(* wait and one for every wakeup.                                          *)
(***************************************************************************)
EXTENDS Naturals, FiniteSets

CONSTANTS Encoders,
          Half,        \* half of the range of a token: 2^63 in the program
          MaxSyncs     \* bound: the track changes of one encoder

ASSUME EncodersAssumption == IsFiniteSet(Encoders) /\ Encoders # {}
ASSUME HalfAssumption     == Half \in Nat \ {0}
ASSUME BoundAssumption    == MaxSyncs \in Nat

VARIABLES
  queued, listeners, visited, token,   \* the fields of the same names
  where,     \* per encoder: "out" of sync(), asleep in its "wait", or "woken" from it
  entered,   \* per encoder: the calls of sync() it has made, PcmBuffer's totalAck_
  freed,     \* whether free() was called
  late       \* history: whether an encoder came before all had left a round

barrierVars == <<queued, listeners, visited, token, where, entered, freed, late>>

\* The token of the n-th track change, counted from 0 by a size_t that wraps.
Token(n) == (n - 1) % (2 * Half)

\* isAhead_: the difference, modulo the range, lies in its lower half.
IsAhead(lhs, rhs) == (lhs + 2 * Half - rhs) % (2 * Half) < Half

-----------------------------------------------------------------------------
BarrierInit ==
  /\ queued = 0 /\ visited = 0 /\ token = 0
  /\ listeners = Cardinality(Encoders)     \* every BarrierHolder incremented it
  /\ where = [e \in Encoders |-> "out"]
  /\ entered = [e \in Encoders |-> 0]
  /\ freed = FALSE /\ late = FALSE

\* Seeded fault: one encoder too few is enough.
Complete_OffByOne(q) == q + 1 >= listeners

\* Enough encoders have arrived.
Complete(q) == q >= listeners

\* Seeded fault: nobody is notified.
NotifyAll_NoOne == where

\* notify_all(): the encoders that wait go on to look at the predicate again.
NotifyAll == [e \in Encoders |-> IF where[e] = "wait" THEN "woken" ELSE where[e]]

\* e calls sync().  It seldom does so before all the encoders of the last
\* round have left: tracks are long, wakeups are short.
Enters(e) ==
  /\ where[e] = "out"
  /\ entered[e] < MaxSyncs
  /\ entered' = [entered EXCEPT ![e] = @ + 1]
  /\ late' = (late \/ visited # 0)
  /\ UNCHANGED <<listeners, freed>>

\* sync() meets a round with another token that isAhead_ puts after, or
\* before, its own.
Contested(t) == queued # 0 /\ token # t
Resets(t)    == Contested(t) /\ IsAhead(token, t)
Skips(t)     == Contested(t) /\ ~IsAhead(token, t)

\* The round sync() joins, and who is awake after it.
Queue(t) == IF Resets(t) THEN 1 ELSE queued + 1
Awake(t) == IF Resets(t) THEN NotifyAll ELSE where
Seen(t)  == IF Resets(t) THEN 0 ELSE visited

\* One more encoder leaves a round of q, the last one clears it.
LeaveRound(q, v) ==
  IF v + 1 >= q THEN queued' = 0 /\ visited' = 0
                ELSE queued' = q /\ visited' = v + 1

\* "we have fallen behind. skip."
SyncSkips(e) ==
  LET t == Token(entered[e] + 1)
  IN  /\ Enters(e)
      /\ Skips(t)
      /\ UNCHANGED <<queued, visited, token, where>>

\* Not everyone is here yet: wait.
SyncWaits(e) ==
  LET t == Token(entered[e] + 1)
  IN  /\ Enters(e)
      /\ ~Skips(t) /\ ~Complete(Queue(t))
      /\ token' = t
      /\ queued' = Queue(t) /\ visited' = Seen(t)
      /\ where' = [Awake(t) EXCEPT ![e] = "wait"]

\* The last one to arrive releases the others and is the first one to leave.
SyncReleases(e) ==
  LET t == Token(entered[e] + 1)
  IN  /\ Enters(e)
      /\ ~Skips(t) /\ Complete(Queue(t))
      /\ token' = t
      /\ LeaveRound(Queue(t), Seen(t))
      /\ where' = NotifyAll

\* Awake again: the predicate does not hold, or the token was taken over, or
\* the round is complete.
SleepsAgain(e) ==
  /\ where[e] = "woken"
  /\ ~Complete(queued) /\ token = Token(entered[e])
  /\ where' = [where EXCEPT ![e] = "wait"]
  /\ UNCHANGED <<queued, listeners, visited, token, entered, freed, late>>

GivesUp(e) ==
  /\ where[e] = "woken"
  /\ token # Token(entered[e])
  /\ where' = [where EXCEPT ![e] = "out"]
  /\ UNCHANGED <<queued, listeners, visited, token, entered, freed, late>>

Passes(e) ==
  /\ where[e] = "woken"
  /\ Complete(queued) /\ token = Token(entered[e])
  /\ where' = [where EXCEPT ![e] = "out"]
  /\ LeaveRound(queued, visited)
  /\ UNCHANGED <<listeners, token, entered, freed, late>>

SpuriousWakeup(e) ==
  /\ where[e] = "wait"
  /\ where' = [where EXCEPT ![e] = "woken"]
  /\ UNCHANGED <<queued, listeners, visited, token, entered, freed, late>>

\* free(), once the server has no more tracks to play.
Free ==
  /\ ~freed
  /\ freed' = TRUE
  /\ listeners' = 0
  /\ where' = NotifyAll
  /\ UNCHANGED <<queued, visited, token, entered, late>>

-----------------------------------------------------------------------------
Sync(e) == SyncSkips(e) \/ SyncWaits(e) \/ SyncReleases(e)

Resume(e) == SleepsAgain(e) \/ GivesUp(e) \/ Passes(e)

BarrierNext ==
  \/ \E e \in Encoders : Sync(e) \/ Resume(e) \/ SpuriousWakeup(e)
  \/ Free

\* A woken encoder gets the mutex.  Nobody has to reach another track change:
\* one may be dropped for an encoder alone, whose tokens then lag behind, and
\* an encoder that has ended is waited for all the same.  Nor has anybody to
\* call free().
Fairness == \A e \in Encoders : WF_barrierVars(Resume(e))

BarrierSpec == BarrierInit /\ [][BarrierNext]_barrierVars /\ Fairness

-----------------------------------------------------------------------------
(* Properties.                                                             *)

\* The fields hold what they stand for: a round is never larger than the
\* number of encoders, and the last one to leave has cleared it.
BarrierTypeOK ==
  /\ queued \in 0 .. Cardinality(Encoders)
  /\ visited \in Nat /\ (visited = 0 \/ visited < queued)
  /\ listeners \in {0, Cardinality(Encoders)}
  /\ token \in 0 .. 2 * Half - 1
  /\ where \in [Encoders -> {"out", "wait", "woken"}]
  /\ entered \in [Encoders -> Nat]
  /\ freed \in BOOLEAN /\ late \in BOOLEAN

\* How many track changes e has got past.
PassedBy(e) == IF where[e] = "out" THEN entered[e] ELSE entered[e] - 1

\* The barrier keeps the encoders together: until free(), none gets past a
\* track change that another one has not reached yet.
Lockstep == ~freed => \A e, f \in Encoders : PassedBy(e) <= entered[f]

\* So it does as long as every round was left before the next one began.
LockstepUnlessLate == late \/ Lockstep

\* Whom e waits for in sync(): those that have not come to its track change.
Awaited(e) == {f \in Encoders : entered[f] < entered[e]}

\* An encoder waits in sync() for encoders that are still to come, as it does
\* for good if they never come, but for nothing else: once all of them have
\* come it returns.  And free() gets every encoder out of sync(), whoever it
\* waits for and whatever came before, and keeps it from waiting again.
EveryoneReturns ==
  /\ []BarrierTypeOK
  /\ \A e \in Encoders :
       /\ where[e] # "out" /\ Awaited(e) = {} ~> where[e] = "out" \/ late
       /\ freed ~> [](where[e] = "out")

=============================================================================
