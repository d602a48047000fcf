---------------------------- MODULE MC_MemoryLayout ----------------------------
(***************************************************************************)
(* The layout of MC_PoolPartition followed by the linear trees: DRAM       *)
(* [4, 28) is linear-mapped at virtual [0, 24), so the linear start pair   *)
(* is (4, 0).                                                              *)
(***************************************************************************)
EXTENDS MemoryLayout, MC_PoolPartition
=============================================================================
