---------------------------- MODULE MCPcmBuffer ----------------------------
(* PcmBuffer with small rings, few rows and short streams.                 *)
EXTENDS PcmBuffer
=============================================================================
