---------------------------- MODULE MCAdminActions ----------------------------
(* Small instances of AdminActions for TLC. *)
EXTENDS AdminActions

CONSTANTS settingsSet, projectDelete, x1, x2, t1, t2

(* One action of each kind; two targets, so that a token can be presented  *)
(* for the wrong one.                                                      *)
OneLocalAction == {settingsSet}
OneRedAction == {projectDelete}
NoAction == {}
OneTarget == {x1}
TwoTargets == {x1, x2}
OneThread == {t1}
TwoThreads == {t1, t2}
=============================================================================
