---------------------------- MODULE JobPipeline ----------------------------
(***************************************************************************)
(* What the job queue promises to the rest of the server, whatever number  *)
(* of workers it runs: the jobs it accepted are played one at a time and   *)
(* in the order in which they were accepted.  Decoding jobs write into one *)
(* PcmSplitter, so two of them running at once, or a later track running   *)
(* before an earlier one, would be heard on every output.                  *)
(***************************************************************************)
EXTENDS Naturals, Sequences

CONSTANT Jobs           \* the jobs a command can create

VARIABLES accepted,     \* the jobs taken over by the queue, in order
          played,       \* the jobs whose run() was called, in order
          playing       \* whether a run() has not returned yet

vars == <<accepted, played, playing>>

Init ==
  /\ accepted = <<>>
  /\ played = <<>>
  /\ playing = FALSE

Accept(j) ==
  /\ accepted' = Append(accepted, j)
  /\ UNCHANGED <<played, playing>>

Start ==
  /\ ~playing
  /\ Len(played) < Len(accepted)
  /\ played' = Append(played, accepted[Len(played) + 1])
  /\ playing' = TRUE
  /\ UNCHANGED accepted

Finish ==
  /\ playing
  /\ playing' = FALSE
  /\ UNCHANGED <<accepted, played>>

Next ==
  \/ \E j \in Jobs : Accept(j)
  \/ Start
  \/ Finish

Spec == Init /\ [][Next]_vars

=============================================================================
