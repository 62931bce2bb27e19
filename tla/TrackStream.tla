---------------------------- MODULE TrackStream ----------------------------
(***************************************************************************)
(* What a PCM buffer promises the encoder: one stream in which the track   *)
(* changes stand between the PCM data exactly where they were written.     *)
(***************************************************************************)
EXTENDS Naturals, Sequences

VARIABLES pending,     \* the items in the buffer, oldest first
          delivered    \* every item the encoder got, in order

vars == <<pending, delivered>>

Init == pending = <<>> /\ delivered = <<>>

\* Items are added at the end.
Write ==
  /\ Len(pending') > Len(pending)
  /\ SubSeq(pending', 1, Len(pending)) = pending
  /\ UNCHANGED delivered

\* The encoder gets the first n items.
Deliver(n) ==
  /\ delivered' = delivered \o SubSeq(pending, 1, n)
  /\ pending' = SubSeq(pending, n + 1, Len(pending))

Next == Write \/ \E n \in 1 .. Len(pending) : Deliver(n)

Spec == Init /\ [][Next]_vars

=============================================================================
