--------------------------- MODULE MCScanScheduler ---------------------------
(* Two ordinary and three cheap scans, so that every lane can overflow. *)
EXTENDS ScanScheduler, TLC

CONSTANTS a, b, x, y, z

MCKeys == {a, b, x, y, z}
MCCheapKeys == {x, y, z}

(* Keys of one kind are interchangeable. *)
MCSymmetry == Permutations({a, b}) \cup Permutations({x, y, z})

=============================================================================
