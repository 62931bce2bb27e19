-------------------------- MODULE MCPacketPipeline --------------------------
(* PacketPipeline with two brocas and a ring that is shorter than a packet. *)
EXTENDS PacketPipeline, TLC

CONSTANTS a, d

FirstA  == <<a, d>>
AnyKind == {a :> kind @@ d :> "discard" : kind \in {"file", "shout", "portaudio"}}
=============================================================================
