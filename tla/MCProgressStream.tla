--------------------------- MODULE MCProgressStream ---------------------------
(* Small instances of ProgressStream for TLC. *)
EXTENDS ProgressStream, TLC

CONSTANTS r1, r2, p1

TwoRuns == {r1, r2}
OneLoad == {p1}

(* Run ids are interchangeable. *)
Symmetry == Permutations(Runs)
=============================================================================
