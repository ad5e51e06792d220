---------------------------- MODULE MCPitrRestore ----------------------------
(* PitrRestore for TLC: GTID numbers as one primary assigns them.            *)
EXTENDS PitrRestore

MCConsecutive == [t \in Trx |-> t]
=============================================================================
