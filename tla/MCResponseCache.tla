--------------------------- MODULE MCResponseCache ---------------------------
(* Small instances of ResponseCache for TLC. *)
EXTENDS ResponseCache

CONSTANTS c1, c2, c3, k1

(* Three threads on one key: the loader and two waiters the coalescing     *)
(* code tells apart.                                                       *)
ThreeCallers == {c1, c2, c3}
OneKey == {k1}
OneScope == {{k1}}
=============================================================================
