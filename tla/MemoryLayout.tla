---------------------------- MODULE MemoryLayout ----------------------------
(***************************************************************************)
(* KMemoryLayout after the boot builders: SetupPoolPartitionMemoryBlocks   *)
(* (module PoolPartition) partitions DRAM in both trees, then              *)
(* InitializeLinearMemoryBlockTrees (kern_k_memory_layout.cpp) sets the    *)
(* two linear offsets and copies the linear-mapped blocks of each tree     *)
(* into its linear tree, one allocator slot per copy.                      *)
(*                                                                         *)
(* The order of the two calls is the boot sequence's (kern_init_core.cpp, *)
(* not in this repository): the linear trees are built once the            *)
(* partitioning has completed.                                             *)
(***************************************************************************)
EXTENDS PoolPartition

CONSTANTS
  LinearMapped,      \* KMemoryRegionAttr_LinearMapped, a bit of a type
  LinearPhysStart,   \* aligned_linear_phys_start
  LinearVirtStart    \* linear_virtual_start

VARIABLES
  plin,     \* the physical linear tree
  vlin,     \* the virtual linear tree
  p2v,      \* s_linear_phys_to_virt_diff
  v2p,      \* s_linear_virt_to_phys_diff
  linear    \* the linear trees have been built

linearVars == <<plin, vlin, p2v, v2p, linear>>
layoutVars == <<vars, linearVars>>

ASSUME MemoryLayoutAssumption ==
  /\ LinearMapped \in TypeBits
  /\ LinearPhysStart \in Phys!Addr
  /\ LinearVirtStart \in Phys!Addr

LayoutInit ==
  /\ Init
  /\ plin = {}
  /\ vlin = {}
  /\ p2v = 0
  /\ v2p = 0
  /\ linear = FALSE

\* Create(address, size, attributes, type): a block without pair address.
LinearCopy(b) == [b EXCEPT !.pair = Phys!NoPair]

\* The blocks each loop copies: HasTypeAttribute(LinearMapped) in the
\* physical tree, IsDerivedFrom(Dram) in the virtual tree.
PhysLinearBlocks(bs) == {b \in bs : LinearMapped \in b.type}
VirtLinearBlocks(bs) == {b \in bs : Phys!IsDerivedFrom(b.type, DramType)}

\* Mutant: the two differences computed the other way round.
InitializeLinearMemoryBlockTreesSwapped ==
  LET pl == {LinearCopy(b) : b \in PhysLinearBlocks(pblocks)}
      vl == {LinearCopy(b) : b \in VirtLinearBlocks(vblocks)}
  IN  /\ pc = "done"
      /\ ~linear
      /\ IF used + Cardinality(pl) + Cardinality(vl) <= BlockCapacity
           THEN /\ p2v' = Wrap(LinearPhysStart - LinearVirtStart)
                /\ v2p' = Wrap(LinearVirtStart - LinearPhysStart)
                /\ plin' = pl
                /\ vlin' = vl
                /\ used' = used + Cardinality(pl) + Cardinality(vl)
                /\ linear' = TRUE
                /\ UNCHANGED pc
           ELSE /\ pc' = "abort"
                /\ UNCHANGED <<used, linearVars>>
      /\ UNCHANGED <<pblocks, vblocks, ret, conf, todo>>

\* Mutant: the virtual loop's IsDerivedFrom(Dram) test dropped.
InitializeLinearMemoryBlockTreesAllVirtual ==
  LET pl == {LinearCopy(b) : b \in PhysLinearBlocks(pblocks)}
      vl == {LinearCopy(b) : b \in vblocks}
  IN  /\ pc = "done"
      /\ ~linear
      /\ IF used + Cardinality(pl) + Cardinality(vl) <= BlockCapacity
           THEN /\ p2v' = Wrap(LinearVirtStart - LinearPhysStart)
                /\ v2p' = Wrap(LinearPhysStart - LinearVirtStart)
                /\ plin' = pl
                /\ vlin' = vl
                /\ used' = used + Cardinality(pl) + Cardinality(vl)
                /\ linear' = TRUE
                /\ UNCHANGED pc
           ELSE /\ pc' = "abort"
                /\ UNCHANGED <<used, linearVars>>
      /\ UNCHANGED <<pblocks, vblocks, ret, conf, todo>>

(***************************************************************************)
(* InitializeLinearMemoryBlockTrees, lines 114-132: the differences, then  *)
(* one Create per copied block; the allocator aborts the boot when it runs *)
(* out of slots.                                                           *)
(***************************************************************************)
InitializeLinearMemoryBlockTrees ==
  LET pl == {LinearCopy(b) : b \in PhysLinearBlocks(pblocks)}
      vl == {LinearCopy(b) : b \in VirtLinearBlocks(vblocks)}
  IN  /\ pc = "done"
      /\ ~linear
      /\ IF used + Cardinality(pl) + Cardinality(vl) <= BlockCapacity
           THEN /\ p2v' = Wrap(LinearVirtStart - LinearPhysStart)
                /\ v2p' = Wrap(LinearPhysStart - LinearVirtStart)
                /\ plin' = pl
                /\ vlin' = vl
                /\ used' = used + Cardinality(pl) + Cardinality(vl)
                /\ linear' = TRUE
                /\ UNCHANGED pc
           ELSE /\ pc' = "abort"
                /\ UNCHANGED <<used, linearVars>>
      /\ UNCHANGED <<pblocks, vblocks, ret, conf, todo>>

\* The builder's steps leave the linear trees alone; once boot is over (or
\* aborted) nothing changes.
LayoutNext ==
  \/ (Plan \/ PhysInsert \/ VirtInsert) /\ UNCHANGED linearVars
  \/ InitializeLinearMemoryBlockTrees
  \/ /\ pc = "abort" \/ linear
     /\ UNCHANGED layoutVars

LayoutSpec == LayoutInit /\ [][LayoutNext]_layoutVars

-----------------------------------------------------------------------------
(***************************************************************************)
(* Linear translation: once the linear trees are built, the constant       *)
(* offsets translate between them block for block (every physical linear   *)
(* block has a virtual linear block of the same size at physical +         *)
(* phys_to_virt_diff, and back with virt_to_phys_diff), and the offset     *)
(* agrees with the pair address every linear-mapped physical block carries *)
(* after all the pool splits.                                              *)
(***************************************************************************)
LinearTranslation ==
  linear =>
    /\ \A pb \in plin : \E vb \in vlin :
         vb.addr = Wrap(pb.addr + p2v) /\ vb.size = pb.size
    /\ \A vb \in vlin : \E pb \in plin :
         pb.addr = Wrap(vb.addr + v2p) /\ pb.size = vb.size
    /\ \A pb \in PhysLinearBlocks(pblocks) : pb.pair = Wrap(pb.addr + p2v)
=============================================================================
