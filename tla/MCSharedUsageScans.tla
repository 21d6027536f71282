-------------------------- MODULE MCSharedUsageScans --------------------------
(* Small instances of SharedUsageScans for TLC. *)
EXTENDS SharedUsageScans

CONSTANTS c1, c2, c3

ThreeCallers == {c1, c2, c3}
=============================================================================
