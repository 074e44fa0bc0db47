---------------------------- MODULE MCPacketPipe ----------------------------
(* PacketPipe on a small instance. *)
EXTENDS PacketPipe
=============================================================================
