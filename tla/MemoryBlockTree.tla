--------------------------- MODULE MemoryBlockTree ---------------------------
(***************************************************************************)
(* KMemoryBlockTree of kern_k_memory_layout.cpp: an ordered set of         *)
(* non-overlapping blocks [address, address + size) over a W-bit address   *)
(* space, each tagged with a type, an attribute word and a pair address    *)
(* in the complementary (physical <-> virtual) space.  The operation that  *)
(* changes it is Insert, the compare-and-swap split of one block into up   *)
(* to three.  Block storage comes from a fixed-capacity arena (the memory  *)
(* block allocator): Insert reuses the erased block's slot and draws one   *)
(* fresh slot per extra piece.                                             *)
(*                                                                         *)
(* A region type is a bitmask; a type is modelled as its set of bits, so   *)
(* that CanDerive and IsDerivedFrom are subset tests.                      *)
(***************************************************************************)
EXTENDS Naturals, FiniteSets

CONSTANTS
  W,             \* width in bits of uintptr_t (addresses wrap modulo 2^W)
  TypeBits,      \* the bits a KMemoryRegionType is made of
  Attrs,         \* the attribute words callers pass
  InitBlocks,    \* the tree before the first Insert (a tiling of the space)
  BlockCapacity, \* number of slots of the memory block allocator
  MinInsertSize  \* the smallest size a caller passes to Insert

Space == 2 ^ W
ASSUME WAssumption == W \in Nat \ {0} /\ Space \in Nat /\ Space >= 2
Addr  == 0 .. (Space - 1)
\* std::numeric_limits<uintptr_t>::max(), the "no pair address" sentinel.
NoPair == Space - 1
\* Arithmetic on uintptr_t / size_t.
Wrap(x) == x % Space

Block == [addr : Addr, size : 0 .. Space, pair : Addr,
          attr : Attrs, type : SUBSET TypeBits]

\* KMemoryBlock::GetLastAddress and GetEndAddress, computed as the code does.
LastAddress(b) == Wrap(b.addr + b.size - 1)
EndAddress(b)  == Wrap(b.addr + b.size)

\* The tree's comparator: address a lies in block b.
Contains(b, a) == b.addr <= a /\ a <= LastAddress(b)

\* KMemoryBlock::CanDerive / IsDerivedFrom: every bit of the old type is
\* kept by the new one.
CanDerive(old_type, new_type) == old_type \subseteq new_type
IsDerivedFrom(type, base) == base \subseteq type

\* The pieces are a tiling of the address space: every address is in
\* exactly one non-empty block that does not run past the top.
Tiles(bs) ==
  /\ \A b \in bs : b.size > 0 /\ b.addr + b.size <= Space
  /\ \A a \in Addr : \E b \in bs : Contains(b, a)
  /\ \A b1, b2 \in bs : b1 # b2 =>
        b1.addr + b1.size <= b2.addr \/ b2.addr + b2.size <= b1.addr

ASSUME CapacityAssumption == BlockCapacity \in Nat
ASSUME MinSizeAssumption == MinInsertSize \in {0, 1}
ASSUME InitBlocksAssumption ==
  /\ InitBlocks \subseteq Block
  /\ IsFiniteSet(InitBlocks)
  /\ Tiles(InitBlocks)
  /\ Cardinality(InitBlocks) <= BlockCapacity

VARIABLES
  blocks,  \* the blocks in the tree
  used,    \* allocator slots handed out and never given back
  ret      \* the value the last Insert returned

vars == <<blocks, used, ret>>

Init ==
  /\ blocks = InitBlocks
  /\ used = Cardinality(InitBlocks)
  /\ ret = TRUE

(***************************************************************************)
(* KMemoryBlockTree::Insert(address, size, type_id, new_attr, old_attr).   *)
(* `it' is the block FindContainingBlock returns.                          *)
(***************************************************************************)
\* Mutants of InsertAllowed: the containment check or the CanDerive check
\* left out.
InsertAllowedNoFit(it, address, size, type_id, old_attr) ==
  it.attr = old_attr /\ CanDerive(it.type, type_id)
InsertAllowedNoDerive(it, address, size, type_id, old_attr) ==
  LET inserted_block_last == Wrap(address + size - 1)
  IN  it.attr = old_attr /\ ~(LastAddress(it) < inserted_block_last)

\* The three early returns of Insert, in the code's order.
InsertAllowed(it, address, size, type_id, old_attr) ==
  LET inserted_block_last == Wrap(address + size - 1)
  IN  /\ it.attr = old_attr
      /\ ~(LastAddress(it) < inserted_block_last)
      /\ CanDerive(it.type, type_id)

\* The pair address of the piece that starts `offset' bytes into `it'.
PairAt(it, offset) ==
  IF it.pair # NoPair THEN Wrap(it.pair + offset) ELSE it.pair

\* Mutant of SplitPieces: the after block's pair shifted by the offset of
\* the new block instead of its own.
SplitPiecesAfterPair(it, address, size, type_id, new_attr) ==
  LET inserted_block_end  == Wrap(address + size)
      inserted_block_last == Wrap(inserted_block_end - 1)
      new   == [addr |-> address, size |-> size,
                pair |-> PairAt(it, address - it.addr),
                attr |-> new_attr, type |-> type_id]
      after == [addr |-> inserted_block_end,
                size |-> Wrap(EndAddress(it) - inserted_block_end),
                pair |-> PairAt(it, address - it.addr),
                attr |-> it.attr, type |-> it.type]
      before == [it EXCEPT !.size = address - it.addr]
  IN  {new} \cup (IF it.addr # address THEN {before} ELSE {})
            \cup (IF LastAddress(it) # inserted_block_last THEN {after} ELSE {})

\* Mutant of SplitPieces: the after block constructed with new_attr.
SplitPiecesAfterAttr(it, address, size, type_id, new_attr) ==
  LET inserted_block_end  == Wrap(address + size)
      inserted_block_last == Wrap(inserted_block_end - 1)
      before == [it EXCEPT !.size = address - it.addr]
      new    == [addr |-> address, size |-> size,
                 pair |-> PairAt(it, address - it.addr),
                 attr |-> new_attr, type |-> type_id]
      after  == [addr |-> inserted_block_end,
                 size |-> Wrap(EndAddress(it) - inserted_block_end),
                 pair |-> PairAt(it, Wrap(inserted_block_end - it.addr)),
                 attr |-> new_attr, type |-> it.type]
  IN  {new} \cup (IF it.addr # address THEN {before} ELSE {})
            \cup (IF LastAddress(it) # inserted_block_last THEN {after} ELSE {})

\* The blocks that replace `it': before, new and after, the outer two only
\* when non-empty.
SplitPieces(it, address, size, type_id, new_attr) ==
  LET inserted_block_end  == Wrap(address + size)
      inserted_block_last == Wrap(inserted_block_end - 1)
      old_end             == EndAddress(it)
      before == [addr |-> it.addr, size |-> address - it.addr,
                 pair |-> it.pair, attr |-> it.attr, type |-> it.type]
      new    == [addr |-> address, size |-> size,
                 pair |-> PairAt(it, address - it.addr),
                 attr |-> new_attr, type |-> type_id]
      after  == [addr |-> inserted_block_end,
                 size |-> Wrap(old_end - inserted_block_end),
                 pair |-> PairAt(it, Wrap(inserted_block_end - it.addr)),
                 attr |-> it.attr, type |-> it.type]
  IN  {new} \cup (IF it.addr # address THEN {before} ELSE {})
            \cup (IF LastAddress(it) # inserted_block_last THEN {after} ELSE {})

\* Slots drawn from the allocator: the erased block's slot is reconstructed
\* in place for the first piece, every further piece is a fresh slot.
\* Mutant: the erased slot is not reused, every piece is allocated.
FreshSlotsNoReuse(pieces) == Cardinality(pieces)

FreshSlots(pieces) == Cardinality(pieces) - 1

\* Mutant: the allocator hands out slots past its capacity.
InsertOkNoCapacity(it, address, size, type_id, new_attr) ==
  LET pieces == SplitPieces(it, address, size, type_id, new_attr)
  IN  /\ blocks' = (blocks \ {it}) \cup pieces
      /\ used' = used + FreshSlots(pieces)
      /\ ret' = TRUE

InsertOk(it, address, size, type_id, new_attr) ==
  LET pieces == SplitPieces(it, address, size, type_id, new_attr)
  IN  /\ used + FreshSlots(pieces) <= BlockCapacity
      /\ blocks' = (blocks \ {it}) \cup pieces
      /\ used' = used + FreshSlots(pieces)
      /\ ret' = TRUE

InsertFail ==
  /\ ret' = FALSE
  /\ UNCHANGED <<blocks, used>>

Insert(address, size, type_id, new_attr, old_attr) ==
  \E it \in blocks :
    /\ Contains(it, address)
    /\ IF InsertAllowed(it, address, size, type_id, old_attr)
         THEN InsertOk(it, address, size, type_id, new_attr)
         ELSE InsertFail

\* Callers pass ranges that do not run past the top of the space.
Next ==
  \E address \in Addr, type_id \in SUBSET TypeBits, new_attr, old_attr \in Attrs :
    \E size \in MinInsertSize .. (Space - address) :
      Insert(address, size, type_id, new_attr, old_attr)

Spec == Init /\ [][Next]_vars

-----------------------------------------------------------------------------
TypeOK ==
  /\ blocks \subseteq Block
  /\ used \in 0 .. BlockCapacity
  /\ ret \in BOOLEAN

(***************************************************************************)
(* Coverage: after every Insert, the blocks still tile the address space   *)
(* with no gap, no overlap and no empty block.  This is what               *)
(* FindContainingBlock relies on; Insert's containment check and the       *)
(* before/after remainder arithmetic must get it right.                    *)
(***************************************************************************)
Coverage == Tiles(blocks)

(***************************************************************************)
(* Pair propagation: the pair address every block carries is the one its   *)
(* first byte had in the initial layout, however many splits produced it.  *)
(***************************************************************************)
InitPairOf(a) ==
  LET b0 == CHOOSE b \in InitBlocks : Contains(b, a)
  IN  PairAt(b0, a - b0.addr)

PairPropagation == \A b \in blocks : b.pair = InitPairOf(b.addr)

(***************************************************************************)
(* Slot accounting: every block in the tree holds exactly one allocator    *)
(* slot and no slot leaks; the in-place reuse of the erased block is what  *)
(* keeps the arena's fixed capacity enough.                                *)
(***************************************************************************)
SlotAccounting == used = Cardinality(blocks)

(***************************************************************************)
(* Reclassification only along the type lattice: in every step the type   *)
(* of every address keeps all its bits (CanDerive of Insert).              *)
(***************************************************************************)
Overlap(b1, b2) == b1.addr < b2.addr + b2.size /\ b2.addr < b1.addr + b1.size

TypeOnlyDerives ==
  [][\A b \in blocks, nb \in blocks' :
       Overlap(b, nb) => IsDerivedFrom(nb.type, b.type)]_vars
(***************************************************************************)
(* The tree as the address map it stands for: each address takes the type *)
(* and attribute of the block that contains it, and the pair address at   *)
(* its offset in that block.                                               *)
(***************************************************************************)
MemOf(bs) ==
  [a \in Addr |->
     LET b == CHOOSE b \in bs : Contains(b, a)
     IN  [type |-> b.type, attr |-> b.attr, pair |-> PairAt(b, a - b.addr)]]

Abstract == INSTANCE AddressMap WITH mem <- MemOf(blocks), InitMem <- MemOf(InitBlocks)

(***************************************************************************)
(* Insert implements the address map: a successful Insert reclassifies     *)
(* exactly its range, which carried old_attr and a derivable type at every *)
(* address, and the before/after remainders and the new block keep every  *)
(* address's type, attribute and pair address outside it; a failed Insert *)
(* changes no address.                                                     *)
(***************************************************************************)
ImplementsAddressMap == Abstract!Spec
=============================================================================
