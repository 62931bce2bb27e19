------------------------------ MODULE MCServer ------------------------------
(* Server with a small number of jobs and encoders.                        *)
EXTENDS Server

CONSTANTS e1, e2

\* An encoder with signals, two that share a barrier with signals, and two
\* without any, with tracks enough for one to wait there while the broca of the
\* other blocks it.
Programs ==
  {[encoders |-> {e1},     shared |-> {},       failing |-> {e1}, signals |-> TRUE,  jobs |-> 2],
   [encoders |-> {e1, e2}, shared |-> {e1, e2}, failing |-> {},   signals |-> TRUE,  jobs |-> 1],
   [encoders |-> {e1, e2}, shared |-> {e1, e2}, failing |-> {e1}, signals |-> FALSE, jobs |-> 3]}

=============================================================================
