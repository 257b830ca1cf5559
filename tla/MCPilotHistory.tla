--------------------------- MODULE MCPilotHistory ---------------------------
(* PilotHistory on the packets of MCPackets. *)
EXTENDS PilotHistory, MCPackets
=============================================================================
