---------------------------- MODULE MCModuleScans ----------------------------
(* Small instances of ModuleScans for TLC: one store whose scan streams    *)
(* and has a fallback.  Stores meet only in the scheduler's lanes, which   *)
(* MCScanScheduler fills.                                                  *)
EXTENDS ModuleScans
=============================================================================
