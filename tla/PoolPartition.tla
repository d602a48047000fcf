---------------------------- MODULE PoolPartition ----------------------------
(***************************************************************************)
(* SetupPoolPartitionMemoryBlocks and InsertPoolPartitionBlockIntoBothTrees *)
(* (kern_k_memory_layout.cpp): the pool sizes are planned backwards from   *)
(* the end of DRAM, then each pool is inserted into the physical tree and, *)
(* at the pair address of the block just inserted, into the virtual tree.  *)
(* Both trees are instances of MemoryBlockTree and draw their slots from   *)
(* the one memory block allocator.  Boot is single-threaded; every Insert  *)
(* is one step and a failed one aborts the boot.                           *)
(*                                                                         *)
(* The pool sizes come from KSystemControl (platform code): the model      *)
(* starts from every configuration of the given sets.                      *)
(***************************************************************************)
EXTENDS Integers, Sequences, FiniteSets

CONSTANTS
  W, TypeBits, Attrs, BlockCapacity,
  PhysInitBlocks,             \* the physical tree before the builder runs
  VirtInitBlocks,             \* the virtual tree before the builder runs
  ApplicationPoolSizes,       \* GetApplicationPoolSize() of the platforms
  AppletPoolSizes,            \* GetAppletPoolSize()
  UnsafeSystemPoolMinSizes,   \* GetMinimumNonSecureSystemPoolSize()
  CarveoutAlignment,          \* CarveoutAlignment
  CarveoutSizeMax,            \* CarveoutSizeMax
  MetadataOverhead(_)         \* KMemoryManager::CalculateMetadataOverheadSize

VARIABLES
  pblocks,  \* the physical tree
  vblocks,  \* the virtual tree
  used,     \* slots of the memory block allocator handed out
  ret,      \* what the last Insert returned
  conf,     \* the pool sizes KSystemControl gives
  pc,       \* where the builder is
  todo      \* the InsertPoolPartitionBlockIntoBothTrees calls still to make

vars == <<pblocks, vblocks, used, ret, conf, pc, todo>>

Phys == INSTANCE MemoryBlockTree
          WITH blocks <- pblocks, InitBlocks <- PhysInitBlocks, MinInsertSize <- 1
Virt == INSTANCE MemoryBlockTree
          WITH blocks <- vblocks, InitBlocks <- VirtInitBlocks, MinInsertSize <- 1

Wrap(x) == Phys!Wrap(x)
AlignDown(x, a) == x - (x % a)
IsAligned(x, a) == x % a = 0
MinOf(a, b) == IF a <= b THEN a ELSE b

ASSUME PoolPartitionAssumption ==
  /\ CarveoutAlignment \in Nat \ {0}
  /\ CarveoutSizeMax \in Nat
  /\ ApplicationPoolSizes \subseteq Nat
  /\ AppletPoolSizes \subseteq Nat
  /\ UnsafeSystemPoolMinSizes \subseteq Nat

(***************************************************************************)
(* Region types (kern_k_memory_region_type.hpp): a pool type derives from  *)
(* the pool partition type by one more bit, in each of the two spaces; the *)
(* pool partition carries the LinearMapped attribute bit and every virtual *)
(* DRAM type derives from Dram.                                            *)
(***************************************************************************)
DramType              == {"Dram"}
DramKernelType        == {"Dram", "Kernel"}
DramPoolPartitionType == {"Dram", "Partition", "LinearMapped"}
Pools == {"Application", "Applet", "NonSecure", "Metadata", "System"}
PhysPoolType(kind) == DramPoolPartitionType \cup {kind}
VirtPoolType(kind) == {"Virtual", "Dram", "Partition", kind}

(***************************************************************************)
(* The lookups of the tree the builder uses.                               *)
(***************************************************************************)
\* GetDerivedRegionExtents: first and last block deriving from type_id.
FirstDerived(bs, type_id) ==
  CHOOSE b \in {x \in bs : Phys!IsDerivedFrom(x.type, type_id)} :
    \A o \in {x \in bs : Phys!IsDerivedFrom(x.type, type_id)} : b.addr <= o.addr
LastDerived(bs, type_id) ==
  CHOOSE b \in {x \in bs : Phys!IsDerivedFrom(x.type, type_id)} :
    \A o \in {x \in bs : Phys!IsDerivedFrom(x.type, type_id)} : o.addr <= b.addr

\* FindFirstBlockByTypeAttr: the first block of exactly this type and attr.
FindFirstBlockByTypeAttr(bs, type_id, attr) ==
  CHOOSE b \in {x \in bs : x.type = type_id /\ x.attr = attr} :
    \A o \in {x \in bs : x.type = type_id /\ x.attr = attr} : b.addr <= o.addr

\* One call InsertPoolPartitionBlockIntoBothTrees(start, size, kind, attr).
Call(start, size, kind, attr) ==
  [start |-> start, size |-> size, kind |-> kind, attr |-> attr]

Init ==
  /\ pblocks = PhysInitBlocks
  /\ vblocks = VirtInitBlocks
  /\ used = Cardinality(PhysInitBlocks) + Cardinality(VirtInitBlocks)
  /\ ret = TRUE
  /\ conf \in [application : ApplicationPoolSizes, applet : AppletPoolSizes,
               unsafe_min : UnsafeSystemPoolMinSizes]
  /\ pc = "plan"
  /\ todo = <<>>

(***************************************************************************)
(* The plan, lines 227-281: every start and size is computed before the    *)
(* first Insert, in uintptr_t / size_t arithmetic.                         *)
(***************************************************************************)
\* Mutant: cur_pool_attr not incremented for the second application block.
ApplicationPoolCallsSameAttr(application_pool_start, application_pool_size, dram_first, dram_end) ==
  LET dram_midpoint == Wrap(dram_first + dram_end) \div 2
  IN  IF dram_end <= dram_midpoint \/ dram_midpoint <= application_pool_start
        THEN << Call(application_pool_start, application_pool_size, "Application", 0) >>
        ELSE << Call(application_pool_start,
                     Wrap(dram_midpoint - application_pool_start), "Application", 0),
                Call(dram_midpoint,
                     Wrap(application_pool_start + application_pool_size - dram_midpoint),
                     "Application", 0) >>

\* Mutant: `<' for `<=' in the midpoint test.
ApplicationPoolCallsStrict(application_pool_start, application_pool_size, dram_first, dram_end) ==
  LET dram_midpoint == Wrap(dram_first + dram_end) \div 2
  IN  IF dram_end <= dram_midpoint \/ dram_midpoint < application_pool_start
        THEN << Call(application_pool_start, application_pool_size, "Application", 0) >>
        ELSE << Call(application_pool_start,
                     Wrap(dram_midpoint - application_pool_start), "Application", 0),
                Call(dram_midpoint,
                     Wrap(application_pool_start + application_pool_size - dram_midpoint),
                     "Application", 1) >>

\* Lines 250-261: the application pool, split at the DRAM midpoint when it
\* straddles it; each block takes the next cur_pool_attr.
ApplicationPoolCalls(application_pool_start, application_pool_size, dram_first, dram_end) ==
  LET dram_midpoint == Wrap(dram_first + dram_end) \div 2
  IN  IF dram_end <= dram_midpoint \/ dram_midpoint <= application_pool_start
        THEN << Call(application_pool_start, application_pool_size, "Application", 0) >>
        ELSE << Call(application_pool_start,
                     Wrap(dram_midpoint - application_pool_start), "Application", 0),
                Call(dram_midpoint,
                     Wrap(application_pool_start + application_pool_size - dram_midpoint),
                     "Application", 1) >>

\* Mutant: the start aligned up instead of down.
UnsafeSystemPoolStartAlignUp(kernel_dram_start, applet_pool_start, unsafe_min) ==
  MinOf(Wrap(kernel_dram_start + CarveoutSizeMax),
        Wrap(AlignDown(Wrap(applet_pool_start - unsafe_min) + CarveoutAlignment - 1,
                       CarveoutAlignment)))

\* Line 245.
UnsafeSystemPoolStart(kernel_dram_start, applet_pool_start, unsafe_min) ==
  MinOf(Wrap(kernel_dram_start + CarveoutSizeMax),
        AlignDown(Wrap(applet_pool_start - unsafe_min), CarveoutAlignment))

\* The sum of the overheads of the pools already planned.
OverheadOf(calls) ==
  LET S[i \in 0 .. Len(calls)] ==
        IF i = 0 THEN 0 ELSE Wrap(S[i - 1] + MetadataOverhead(calls[i].size))
  IN  S[Len(calls)]

\* Lines 227-281: the calls, in the code's order.
PoolCalls(c, bs) ==
  LET dram_first == FirstDerived(bs, DramType).addr
      dram_end   == Phys!EndAddress(LastDerived(bs, DramType))
      kernel_dram_start     == FirstDerived(bs, DramKernelType).addr
      pool_partitions_start == FindFirstBlockByTypeAttr(bs, DramPoolPartitionType, 0).addr
      application_pool_start == Wrap(dram_end - c.application)
      applet_pool_start      == Wrap(application_pool_start - c.applet)
      unsafe_system_pool_start ==
        UnsafeSystemPoolStart(kernel_dram_start, applet_pool_start, c.unsafe_min)
      apps   == ApplicationPoolCalls(application_pool_start, c.application,
                                     dram_first, dram_end)
      before == apps \o << Call(applet_pool_start, c.applet, "Applet", Len(apps)),
                           Call(unsafe_system_pool_start,
                                Wrap(applet_pool_start - unsafe_system_pool_start),
                                "NonSecure", Len(apps) + 1) >>
      overhead == OverheadOf(before)
      total    == Wrap(overhead + MetadataOverhead(
                         Wrap(Wrap(unsafe_system_pool_start - pool_partitions_start)
                              - overhead)))
      metadata_pool_start == Wrap(unsafe_system_pool_start - total)
  IN  before \o << Call(metadata_pool_start, total, "Metadata", 0),
                   Call(pool_partitions_start,
                        Wrap(metadata_pool_start - pool_partitions_start),
                        "System", Len(apps) + 2) >>

\* Lines 229-238 and the plan: abort unless the kernel's DRAM start is
\* aligned to CarveoutAlignment.
Plan ==
  /\ pc = "plan"
  /\ IF IsAligned(FirstDerived(pblocks, DramKernelType).addr, CarveoutAlignment)
       THEN pc' = "phys" /\ todo' = PoolCalls(conf, pblocks)
       ELSE pc' = "abort" /\ todo' = todo
  /\ UNCHANGED <<pblocks, vblocks, used, ret, conf>>

(***************************************************************************)
(* InsertPoolPartitionBlockIntoBothTrees, lines 183-187, one Insert a      *)
(* step; Insert's old_attr is its default, 0.                              *)
(***************************************************************************)
PhysInsert ==
  LET p == Head(todo)
  IN  /\ pc = "phys"
      /\ Phys!Insert(p.start, p.size, PhysPoolType(p.kind), p.attr, 0)
      /\ pc' = IF ret' THEN "virt" ELSE "abort"
      /\ UNCHANGED <<vblocks, conf, todo>>

\* Mutant: the virtual block inserted at the physical address.
VirtInsertAtPhysAddr ==
  LET p == Head(todo)
  IN  /\ pc = "virt"
      /\ Virt!Insert(p.start, p.size, VirtPoolType(p.kind), p.attr, 0)
      /\ todo' = Tail(todo)
      /\ pc' = IF ~ret' THEN "abort" ELSE IF Tail(todo) = <<>> THEN "done" ELSE "phys"
      /\ UNCHANGED <<pblocks, conf>>

\* The virtual block goes at the pair address of the physical block just
\* inserted, found again by (type, attr).
VirtInsert ==
  LET p    == Head(todo)
      pair == FindFirstBlockByTypeAttr(pblocks, PhysPoolType(p.kind), p.attr).pair
  IN  /\ pc = "virt"
      /\ Virt!Insert(pair, p.size, VirtPoolType(p.kind), p.attr, 0)
      /\ todo' = Tail(todo)
      /\ pc' = IF ~ret' THEN "abort" ELSE IF Tail(todo) = <<>> THEN "done" ELSE "phys"
      /\ UNCHANGED <<pblocks, conf>>

\* The builder has returned, or boot aborted.
Finished ==
  /\ pc \in {"done", "abort"}
  /\ UNCHANGED vars

Next == Plan \/ PhysInsert \/ VirtInsert \/ Finished

Spec == Init /\ [][Next]_vars

-----------------------------------------------------------------------------
TypeOK ==
  /\ Phys!TypeOK
  /\ vblocks \subseteq Virt!Block
  /\ pc \in {"plan", "phys", "virt", "done", "abort"}
  /\ todo \in Seq([start : Phys!Addr, size : Phys!Addr \cup {Phys!Space},
                   kind : Pools, attr : Attrs])

\* What the builder reads of the initial physical tree.
InitDramEnd   == Phys!EndAddress(LastDerived(PhysInitBlocks, DramType))
InitPoolStart == FindFirstBlockByTypeAttr(PhysInitBlocks, DramPoolPartitionType, 0).addr
InitKernelStart == FirstDerived(PhysInitBlocks, DramKernelType).addr

\* The pool blocks of the physical tree, and the pool each belongs to.
PoolBlocks == {b \in pblocks : \E k \in Pools : b.type = PhysPoolType(k)}
Kind(b) == CHOOSE k \in Pools : b.type = PhysPoolType(k)
Rank == [System |-> 0, Metadata |-> 1, NonSecure |-> 2, Applet |-> 3, Application |-> 4]

(***************************************************************************)
(* Room: the plan of lines 240-278 in exact integer arithmetic (no         *)
(* wrap-around) leaves every pool a positive size above the start of the   *)
(* pool partition region, and the kernel's DRAM start is aligned.          *)
(***************************************************************************)
Room(c) ==
  LET app_start    == InitDramEnd - c.application
      applet_start == app_start - c.applet
      unsafe_start == MinOf(InitKernelStart + CarveoutSizeMax,
                            AlignDown(applet_start - c.unsafe_min, CarveoutAlignment))
      mid   == (FirstDerived(PhysInitBlocks, DramType).addr + InitDramEnd) \div 2
      app   == IF mid <= app_start THEN MetadataOverhead(c.application)
               ELSE MetadataOverhead(mid - app_start)
                    + MetadataOverhead(app_start + c.application - mid)
      over  == app + MetadataOverhead(c.applet)
                   + MetadataOverhead(applet_start - unsafe_start)
      total == over + MetadataOverhead(unsafe_start - InitPoolStart - over)
  IN  /\ IsAligned(InitKernelStart, CarveoutAlignment)
      /\ c.application > 0 /\ c.applet > 0
      /\ unsafe_start - InitPoolStart - over >= 0
      /\ total > 0
      /\ unsafe_start - total > InitPoolStart

(***************************************************************************)
(* The pool partition scenario of the spec, for every configuration the    *)
(* builder completes: the pools tile the region from the pool partition    *)
(* start to the end of DRAM, ordered system, metadata, non-secure system,  *)
(* applet, application; the application pool is the top                    *)
(* GetApplicationPoolSize() bytes, the applet pool is exactly its size,    *)
(* and the non-secure pool holds at least its minimum.                     *)
(***************************************************************************)
PoolsPartitionDram ==
  pc = "done" =>
    /\ \A b \in PoolBlocks : /\ b.size > 0
                             /\ InitPoolStart <= b.addr
                             /\ b.addr + b.size <= InitDramEnd
    /\ \A a \in InitPoolStart .. InitDramEnd - 1 :
         \E b \in PoolBlocks : Phys!Contains(b, a)
    /\ \A b1, b2 \in PoolBlocks : Rank[Kind(b1)] < Rank[Kind(b2)] => b1.addr < b2.addr
    /\ \A b \in PoolBlocks :
         (Kind(b) = "Application") <=> (b.addr >= InitDramEnd - conf.application)
    /\ \E b \in PoolBlocks : Kind(b) = "Applet" /\ b.size = conf.applet
    /\ \E b \in PoolBlocks : Kind(b) = "NonSecure" /\ b.size >= conf.unsafe_min

(***************************************************************************)
(* The physical and virtual trees stay in lock-step: every physical pool  *)
(* block has, at its pair address, a virtual block of the same size, the  *)
(* same attribute and the matching virtual pool type, whose pair is the   *)
(* physical block.                                                         *)
(***************************************************************************)
TreesInLockStep ==
  pc = "done" =>
    \A pb \in PoolBlocks :
      \E vb \in vblocks : /\ vb.addr = pb.pair
                          /\ vb.size = pb.size
                          /\ vb.type = VirtPoolType(Kind(pb))
                          /\ vb.attr = pb.attr
                          /\ vb.pair = pb.addr

(***************************************************************************)
(* Both trees still tile their spaces with no empty block: the builder    *)
(* never hands Insert a size of 0 (which Insert does not refuse).          *)
(***************************************************************************)
TreesTile == Phys!Coverage /\ Virt!Coverage

(***************************************************************************)
(* The MESOSPHERE_INIT_ABORT_UNLESS of lines 185-186 never fires when the *)
(* pools fit: no wrap-around of the uintptr_t arithmetic and no Insert     *)
(* refused.                                                                *)
(***************************************************************************)
NoAbortWhenRoom == Room(conf) => pc # "abort"
=============================================================================
