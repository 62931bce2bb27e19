------------------------------ MODULE MCPacing ------------------------------
(* Pacing with cards that play and buffers that nobody empties.            *)
EXTENDS Pacing

Tested == {<<>>, <<"card">>, <<"nobody">>, <<"nobody", "card">>, <<"nobody", "nobody">>}
=============================================================================
