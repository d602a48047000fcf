--------------------------- MODULE MC_PoolPartition ---------------------------
(***************************************************************************)
(* A 64-unit space (W = 6).  Physical: DRAM [4, 28), its kernel part       *)
(* [4, 8) and the pool partition region [8, 28).  Virtual: the linear map  *)
(* of DRAM at [0, 24) (virtual = physical - 4), pairs pointing both ways. *)
(* The DRAM midpoint is 16, so an application pool of more than 12 units   *)
(* is split.  Metadata overhead: one unit per 8.                           *)
(***************************************************************************)
EXTENDS PoolPartition

MCTypeBits ==
  {"Dram", "Kernel", "Partition", "Virtual", "LinearMapped",
   "Application", "Applet", "NonSecure", "Metadata", "System"}

MCPhysInitBlocks ==
  { [addr |-> 0,  size |-> 4,  pair |-> 63, attr |-> 0, type |-> {}],
    [addr |-> 4,  size |-> 4,  pair |-> 0,  attr |-> 0, type |-> DramKernelType \cup {"LinearMapped"}],
    [addr |-> 8,  size |-> 20, pair |-> 4,  attr |-> 0, type |-> DramPoolPartitionType],
    [addr |-> 28, size |-> 36,  pair |-> 63, attr |-> 0, type |-> {}] }

MCVirtInitBlocks ==
  { [addr |-> 0,  size |-> 4,  pair |-> 4,  attr |-> 0, type |-> {"Virtual", "Dram", "Kernel"}],
    [addr |-> 4,  size |-> 20, pair |-> 8,  attr |-> 0, type |-> {"Virtual", "Dram", "Partition"}],
    [addr |-> 24, size |-> 40, pair |-> 63, attr |-> 0, type |-> {}] }

MCMetadataOverhead(s) == s \div 8
=============================================================================
