---------------------------- MODULE MCPublisher ----------------------------
(* Publisher, with a broca behind one of the encoders.                     *)
EXTENDS Publisher

CONSTANTS e1, b1

OneBroca == b1 :> e1

=============================================================================
