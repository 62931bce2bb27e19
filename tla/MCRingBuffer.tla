---------------------------- MODULE MCRingBuffer ----------------------------
(* One reader; one waiting writer, one that does not wait, or both. *)
EXTENDS RingBuffer
=============================================================================
