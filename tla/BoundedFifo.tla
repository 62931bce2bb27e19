---------------------------- MODULE BoundedFifo ----------------------------
(***************************************************************************)
(* What a RingBuffer promises: values come out in the order in which they  *)
(* went in, none is lost, repeated or altered, and never more than Size of *)
(* them are kept.  Values are put and taken in batches.  Once the queue is *)
(* closed, it never opens again.                                           *)
(***************************************************************************)
EXTENDS Naturals, Sequences

CONSTANTS Values, Size

VARIABLES q,            \* the values in the queue, oldest first
          taken,        \* every value ever taken out, in order
          closed

vars == <<q, taken, closed>>

Init ==
  /\ q = <<>>
  /\ taken = <<>>
  /\ closed = FALSE

Put(batch) ==
  /\ Len(q) + Len(batch) <= Size
  /\ q' = q \o batch
  /\ UNCHANGED <<taken, closed>>

Take(n) ==
  /\ taken' = taken \o SubSeq(q, 1, n)
  /\ q' = SubSeq(q, n + 1, Len(q))
  /\ UNCHANGED closed

Close ==
  /\ closed' = TRUE
  /\ UNCHANGED <<q, taken>>

Batches == UNION {[1 .. n -> Values] : n \in 1 .. Size}

Next ==
  \/ \E batch \in Batches : Put(batch)
  \/ \E n \in 1 .. Len(q) : Take(n)
  \/ Close

Spec == Init /\ [][Next]_vars

=============================================================================
