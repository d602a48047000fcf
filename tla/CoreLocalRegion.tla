--------------------------- MODULE CoreLocalRegion ---------------------------
(***************************************************************************)
(* The search for the core-local region in the virtual tree and its        *)
(* insertion (kern_k_memory_layout.cpp): SetupCoreLocalRegionMemoryBlocks  *)
(* calls GetCoreLocalRegionVirtualAddress, whose loop calls                *)
(* KMemoryBlockTree::GetRandomAlignedRegion, whose own loop draws random   *)
(* candidates until one fits; the result is then inserted as a CoreLocal   *)
(* block.  Boot is single-threaded, so the tree does not change during the *)
(* search.  Each random draw is one step; the random source is a           *)
(* nondeterministic choice of a value in [first_address, last_address].    *)
(***************************************************************************)
EXTENDS Naturals, FiniteSets

CONSTANTS
  W, TypeBits, Attrs, InitBlocks, BlockCapacity, MinInsertSize,
  NumCores,      \* cpu::NumCores
  PageSize,      \* PageSize, in address units
  BoundsAlign,   \* CoreLocalRegionBoundsAlign (1 GB in the code)
  CoreLocalType  \* KMemoryRegionType_CoreLocal

VARIABLES blocks, used, ret,
  pc,            \* where the builder is
  cand,          \* the candidate GetRandomAlignedRegion is looking at
  region         \* core_local_virt_start once found

Tree == INSTANCE MemoryBlockTree

Wrap(x) == Tree!Wrap(x)
Addr == Tree!Addr

\* KMemoryRegionType_None: the type with no bits, the one of unused space.
NoneType == {}

CoreLocalRegionAlign          == PageSize
CoreLocalRegionSize           == PageSize * (1 + NumCores)
CoreLocalRegionSizeWithGuards == CoreLocalRegionSize + 2 * PageSize

AlignDown(x, a) == x - (x % a)
AlignUp(x, a)   == Wrap(AlignDown(x + a - 1, a))
IsAligned(x, a) == x % a = 0

ASSUME CoreLocalAssumption ==
  /\ NumCores \in Nat \ {0}
  /\ PageSize \in Nat \ {0}
  /\ BoundsAlign \in Nat \ {0}
  /\ CoreLocalType \subseteq TypeBits

\* The tree's own assumptions on the constants this module passes it.
ASSUME TreeAssumption ==
  /\ W \in Nat \ {0} /\ Tree!Space \in Nat /\ Tree!Space >= 2
  /\ InitBlocks \subseteq Tree!Block
  /\ Tree!Tiles(InitBlocks)

\* KMemoryBlockTree::FindContainingBlock.
ContainingBlock(a) == CHOOSE b \in blocks : Tree!Contains(b, a)

\* KMemoryBlockTree::GetDerivedRegionExtents: first and last block (by
\* address) of those whose type derives from type_id.
DerivedBlocks(type_id) == {b \in blocks : Tree!IsDerivedFrom(b.type, type_id)}
FirstDerived(type_id) ==
  CHOOSE b \in DerivedBlocks(type_id) :
    \A o \in DerivedBlocks(type_id) : b.addr <= o.addr
LastDerived(type_id) ==
  CHOOSE b \in DerivedBlocks(type_id) :
    \A o \in DerivedBlocks(type_id) : o.addr <= b.addr

vars == <<blocks, used, ret, pc, cand, region>>

Init ==
  /\ Tree!Init
  /\ pc = "extents"
  /\ cand = 0
  /\ region = 0

(***************************************************************************)
(* GetRandomAlignedRegion(size, alignment, type_id), lines 74-111.         *)
(***************************************************************************)
\* Mutant: the alignment checked on the last address of the extents.
ExtentsLastAligned(alignment, type_id) ==
  /\ pc = "extents"
  /\ pc' = IF IsAligned(Tree!LastAddress(LastDerived(type_id)), alignment)
             THEN "draw" ELSE "abort"
  /\ UNCHANGED <<blocks, used, ret, cand, region>>

\* Lines 76-82: the extents and the alignment abort.
Extents(alignment, type_id) ==
  /\ pc = "extents"
  /\ pc' = IF IsAligned(FirstDerived(type_id).addr, alignment)
             THEN "draw" ELSE "abort"
  /\ UNCHANGED <<blocks, used, ret, cand, region>>

\* The four rejections of one loop iteration (lines 85-107).
CandidateOk(candidate, size, type_id) ==
  LET candidate_last == Wrap(candidate + size - 1)
      last_address   == Tree!LastAddress(LastDerived(type_id))
      candidate_block == ContainingBlock(candidate)
  IN  /\ candidate < Wrap(candidate + size)
      /\ ~(candidate_last > last_address)
      /\ ~(candidate_last > Tree!LastAddress(candidate_block))
      /\ candidate_block.type = type_id

\* One iteration: draw, align down, return or loop.
Draw(r, size, alignment, type_id) ==
  LET candidate == AlignDown(r, alignment)
  IN  /\ pc = "draw"
      /\ r \in FirstDerived(type_id).addr
               .. Tree!LastAddress(LastDerived(type_id))
      /\ cand' = candidate
      /\ pc' = IF CandidateOk(candidate, size, type_id) THEN "bounds" ELSE "draw"
      /\ UNCHANGED <<blocks, used, ret, region>>

(***************************************************************************)
(* GetCoreLocalRegionVirtualAddress, lines 150-181: the checks on the      *)
(* returned candidate; a rejection calls GetRandomAlignedRegion again.     *)
(***************************************************************************)
\* Mutant: the check that the window's end lies inside the block is left out.
BoundsOkNoWindowEnd(candidate_start) ==
  LET candidate_end  == Wrap(candidate_start + CoreLocalRegionSizeWithGuards)
      candidate_last == Wrap(candidate_end - 1)
      containing_block == ContainingBlock(candidate_start)
  IN  /\ ~(candidate_last > Tree!LastAddress(containing_block))
      /\ containing_block.type = NoneType
      /\ AlignDown(candidate_start, BoundsAlign) = AlignDown(candidate_last, BoundsAlign)
      /\ ~(containing_block.addr > AlignDown(candidate_start, BoundsAlign))

BoundsOk(candidate_start) ==
  LET candidate_end  == Wrap(candidate_start + CoreLocalRegionSizeWithGuards)
      candidate_last == Wrap(candidate_end - 1)
      containing_block == ContainingBlock(candidate_start)
  IN  /\ ~(candidate_last > Tree!LastAddress(containing_block))
      /\ containing_block.type = NoneType
      /\ AlignDown(candidate_start, BoundsAlign) = AlignDown(candidate_last, BoundsAlign)
      /\ ~(containing_block.addr > AlignDown(candidate_start, BoundsAlign))
      /\ ~(Wrap(AlignUp(candidate_last, BoundsAlign) - 1)
             > Tree!LastAddress(containing_block))

CheckBounds ==
  /\ pc = "bounds"
  /\ IF BoundsOk(cand)
       THEN pc' = "insert" /\ region' = Wrap(cand + PageSize)
       ELSE pc' = "extents" /\ region' = region
  /\ UNCHANGED <<blocks, used, ret, cand>>

\* Line 193: Insert(core_local_virt_start, CoreLocalRegionSize, CoreLocal)
\* with the default attributes 0; the abort on failure is checked as a
\* property.  Lines 195-222 (pages, page tables, boot arguments) only touch
\* external state.
\* Mutant: the size with the guard pages passed to Insert.
InsertCoreLocalWithGuards ==
  /\ pc = "insert"
  /\ Tree!Insert(region, CoreLocalRegionSizeWithGuards, CoreLocalType, 0, 0)
  /\ pc' = "done"
  /\ UNCHANGED <<cand, region>>

InsertCoreLocal ==
  /\ pc = "insert"
  /\ Tree!Insert(region, CoreLocalRegionSize, CoreLocalType, 0, 0)
  /\ pc' = "done"
  /\ UNCHANGED <<cand, region>>

\* The builder has returned (or boot aborted): nothing more happens here.
Finished ==
  /\ pc \in {"done", "abort"}
  /\ UNCHANGED vars

Next ==
  \/ Extents(CoreLocalRegionAlign, NoneType)
  \/ \E r \in Addr : Draw(r, CoreLocalRegionSizeWithGuards,
                          CoreLocalRegionAlign, NoneType)
  \/ CheckBounds
  \/ InsertCoreLocal
  \/ Finished

\* A draw whose candidate passes the checks of both loops.
FittingDraw ==
  \E r \in Addr : /\ Draw(r, CoreLocalRegionSizeWithGuards,
                           CoreLocalRegionAlign, NoneType)
                 /\ pc' = "bounds"
                 /\ BoundsOk(cand')

\* Every value of the random source has a positive probability on every
\* draw, so with probability 1 a fitting value is drawn eventually while the
\* loop keeps drawing: strong fairness of the fitting draw.  The rest is
\* straight-line code.
Fairness ==
  /\ SF_vars(FittingDraw)
  /\ WF_vars(Extents(CoreLocalRegionAlign, NoneType))
  /\ WF_vars(CheckBounds)
  /\ WF_vars(InsertCoreLocal)

Spec == Init /\ [][Next]_vars /\ Fairness

-----------------------------------------------------------------------------
TypeOK ==
  /\ Tree!TypeOK
  /\ pc \in {"extents", "draw", "bounds", "insert", "done", "abort"}
  /\ cand \in Addr
  /\ region \in Addr

(***************************************************************************)
(* The region handed to Insert, with its guard pages, lies inside one      *)
(* unused (None) block and inside one BoundsAlign window that is itself    *)
(* wholly inside that block, and is page aligned.                          *)
(***************************************************************************)
RegionPlaced ==
  pc = "insert" =>
    LET start == region - PageSize
        last  == start + CoreLocalRegionSizeWithGuards - 1
        win   == AlignDown(start, BoundsAlign)
    IN  /\ IsAligned(start, CoreLocalRegionAlign)
        /\ \E b \in blocks :
             /\ b.type = NoneType
             /\ b.addr <= win
             /\ last < win + BoundsAlign
             /\ win + BoundsAlign <= b.addr + b.size

(***************************************************************************)
(* The MESOSPHERE_INIT_ABORT_UNLESS of line 193 never fires: the Insert of *)
(* the region the search found succeeds, the tree then holds it as one     *)
(* CoreLocal block, and the guard page on either side of it is still       *)
(* unused (None) space.                                                    *)
(***************************************************************************)
CoreLocalInserted ==
  pc = "done" =>
    /\ ret = TRUE
    /\ \E b \in blocks : /\ b.addr = region
                        /\ b.size = CoreLocalRegionSize
                        /\ b.type = CoreLocalType
    /\ ContainingBlock(Wrap(region - PageSize)).type = NoneType
    /\ ContainingBlock(Wrap(region + CoreLocalRegionSize)).type = NoneType

(***************************************************************************)
(* The search terminates and the region gets inserted (with probability 1, *)
(* when the layout has room for it).                                       *)
(***************************************************************************)
SearchTerminates == <>(pc = "done")
=============================================================================
