------------------------- MODULE MC_MemoryBlockTree -------------------------
(* An 8-address space (W = 3): a reserved block [0, 2) without pair and a  *)
(* DRAM block [2, 8) paired with [0, 6) of the other space.                *)
EXTENDS MemoryBlockTree

MCTypeBits == {"Dram", "Pool"}

MCInitBlocks ==
  { [addr |-> 0, size |-> 2, pair |-> 7, attr |-> 0, type |-> {}],
    [addr |-> 2, size |-> 6, pair |-> 0, attr |-> 0, type |-> {"Dram"}] }
=============================================================================
