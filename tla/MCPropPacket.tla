---------------------------- MODULE MCPropPacket ----------------------------
(* The packet of raw-log, smaller ones cut in either partition, and one that *)
(* holds the whole table.                                                    *)
EXTENDS PropPacket
=============================================================================
