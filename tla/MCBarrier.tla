----------------------------- MODULE MCBarrier -----------------------------
(* Barrier with two or three encoders.                                     *)
EXTENDS Barrier
=============================================================================
