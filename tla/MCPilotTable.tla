---------------------------- MODULE MCPilotTable ----------------------------
(* PilotTable on the packets of MCPackets. *)
EXTENDS PilotTable, MCPackets
=============================================================================
