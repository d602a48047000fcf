---------------------------- MODULE MC_Semaphore ----------------------------
(* Three threads over one semaphore.  No symmetry reduction: the runs      *)
(* check a liveness property, which symmetry would make unsound.           *)
EXTENDS Semaphore
=============================================================================
