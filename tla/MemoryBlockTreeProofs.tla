------------------------ MODULE MemoryBlockTreeProofs ------------------------
(***************************************************************************)
(* Proofs about KMemoryBlockTree::Insert (module MemoryBlockTree) that     *)
(* hold for every address width, type lattice, attribute set, initial      *)
(* layout and allocator capacity.                                          *)
(***************************************************************************)
EXTENDS MemoryBlockTree, FiniteSetTheorems, TLAPS

\* uintptr_t arithmetic stays in the address space.
LEMMA WrapType ==
  ASSUME NEW x \in Int
  PROVE  Wrap(x) \in Addr
BY WAssumption DEF Wrap, Addr

\* Wrap is the identity on the address space and adds Space to a value
\* just below it.
LEMMA WrapId ==
  ASSUME NEW x \in Int, 0 <= x, x < Space
  PROVE  Wrap(x) = x
BY WAssumption DEF Wrap

LEMMA WrapBelow ==
  ASSUME NEW x \in Int, -Space <= x, x < 0
  PROVE  Wrap(x) = x + Space
BY WAssumption DEF Wrap

LEMMA WrapSpace == Wrap(Space) = 0
BY WAssumption DEF Wrap

\* A split yields between one and three pieces, so the allocator is asked
\* for at most two fresh slots and never gives one back.
LEMMA PiecesCount ==
  ASSUME NEW x, NEW y, NEW z, NEW c1 \in BOOLEAN, NEW c2 \in BOOLEAN
  PROVE  LET P == {x} \cup (IF c1 THEN {y} ELSE {}) \cup (IF c2 THEN {z} ELSE {})
         IN  /\ IsFiniteSet(P)
             /\ Cardinality(P) \in 1 .. 3
<1> DEFINE A == IF c1 THEN {y} ELSE {}
           B == IF c2 THEN {z} ELSE {}
<1>1. IsFiniteSet({x}) /\ Cardinality({x}) = 1
  BY FS_Singleton
<1>2. IsFiniteSet({x} \cup A) /\ Cardinality({x} \cup A) \in 1 .. 2
  <2>1. CASE c1
    BY <1>1, <2>1, FS_AddElement
  <2>2. CASE ~c1
    BY <1>1, <2>2
  <2>3. QED BY <2>1, <2>2
<1>3. IsFiniteSet({x} \cup A \cup B) /\ Cardinality({x} \cup A \cup B) \in 1 .. 3
  <2>1. CASE c2
    BY <1>2, <2>1, FS_AddElement
  <2>2. CASE ~c2
    BY <1>2, <2>2
  <2>3. QED BY <2>1, <2>2
<1>4. QED BY <1>3

\* The pieces of a permitted split are blocks.
LEMMA PiecesType ==
  ASSUME NEW it \in Block, NEW address \in Addr, Contains(it, address),
         NEW size \in 0 .. (Space - address),
         NEW type_id \in SUBSET TypeBits, NEW new_attr \in Attrs
  PROVE  LET P == SplitPieces(it, address, size, type_id, new_attr)
         IN  /\ P \subseteq Block
             /\ IsFiniteSet(P)
             /\ Cardinality(P) \in 1 .. 3
<1> USE WAssumption
<1>1. it.addr <= address
  BY DEF Contains
<1>2. \A o \in Int : PairAt(it, o) \in Addr
  BY WrapType DEF PairAt, Block, Addr
<1>3. SplitPieces(it, address, size, type_id, new_attr) \subseteq Block
  BY <1>1, <1>2, WrapType DEF SplitPieces, Block, Addr, EndAddress
<1>4. QED
  BY <1>3, PiecesCount DEF SplitPieces

-----------------------------------------------------------------------------
(***************************************************************************)
(* Type correctness of the tree, the allocator count and the return value. *)
(***************************************************************************)
\* Every step of Insert keeps the types.
LEMMA TypeStep == TypeOK /\ [Next]_vars => TypeOK'
<1> SUFFICES ASSUME TypeOK, [Next]_vars PROVE TypeOK'
  OBVIOUS
<1>1. ASSUME NEW address \in Addr, NEW type_id \in SUBSET TypeBits,
             NEW new_attr \in Attrs, NEW old_attr \in Attrs,
             NEW size \in MinInsertSize .. (Space - address),
             Insert(address, size, type_id, new_attr, old_attr)
      PROVE  TypeOK'
  <2>1. PICK it \in blocks :
          /\ Contains(it, address)
          /\ IF InsertAllowed(it, address, size, type_id, old_attr)
               THEN InsertOk(it, address, size, type_id, new_attr)
               ELSE InsertFail
    BY <1>1 DEF Insert
  <2>2. it \in Block
    BY DEF TypeOK
  <2>3. size \in 0 .. (Space - address)
    BY MinSizeAssumption, WAssumption
  <2>4. CASE InsertAllowed(it, address, size, type_id, old_attr)
    <3> DEFINE P == SplitPieces(it, address, size, type_id, new_attr)
    <3>1. P \subseteq Block /\ Cardinality(P) \in 1 .. 3
      BY <2>1, <2>2, <2>3, PiecesType
    <3>2. /\ used + FreshSlots(P) <= BlockCapacity
          /\ blocks' = (blocks \ {it}) \cup P
          /\ used' = used + FreshSlots(P)
          /\ ret' = TRUE
      BY <2>1, <2>4 DEF InsertOk
    <3>3. QED
      BY <3>1, <3>2, CapacityAssumption DEF TypeOK, FreshSlots
  <2>5. CASE ~InsertAllowed(it, address, size, type_id, old_attr)
    BY <2>1, <2>5 DEF InsertFail, TypeOK
  <2>6. QED BY <2>4, <2>5
<1>2. CASE UNCHANGED vars
  BY <1>2 DEF vars, TypeOK
<1>3. QED BY <1>1, <1>2 DEF Next

THEOREM TypeCorrect == Spec => []TypeOK
<1>1. Init => TypeOK
  <2>1. Cardinality(InitBlocks) \in Nat
    BY InitBlocksAssumption, FS_CardinalityType
  <2>2. QED BY <2>1, InitBlocksAssumption, CapacityAssumption DEF Init, TypeOK
<1>2. TypeOK /\ [Next]_vars => TypeOK'
  BY TypeStep
<1>3. QED BY <1>1, <1>2, PTL DEF Spec

-----------------------------------------------------------------------------
(***************************************************************************)
(* Coverage.  Inside a tiling, Contains (which compares against the        *)
(* wrapped last address) is plain interval membership; Insert replaces one *)
(* tile by pieces that tile exactly the same interval.                     *)
(***************************************************************************)
Span(b, a) == b.addr <= a /\ a < b.addr + b.size

LEMMA ContainsSpan ==
  ASSUME NEW b \in Block, b.size > 0, b.addr + b.size <= Space, NEW a \in Addr
  PROVE  Contains(b, a) <=> Span(b, a)
BY WAssumption DEF Contains, Span, LastAddress, Wrap, Block, Addr

\* Replacing one tile by pieces that tile the same interval keeps a tiling.
LEMMA TilesReplace ==
  ASSUME NEW bs \in SUBSET Block, Tiles(bs), NEW it \in bs,
         NEW P \in SUBSET Block,
         \A p \in P : /\ p.size > 0
                      /\ it.addr <= p.addr
                      /\ p.addr + p.size <= it.addr + it.size,
         \A p, q \in P : p # q =>
             p.addr + p.size <= q.addr \/ q.addr + q.size <= p.addr,
         \A a \in Addr : Span(it, a) => \E p \in P : Span(p, a)
  PROVE  Tiles((bs \ {it}) \cup P)
<1> DEFINE nbs == (bs \ {it}) \cup P
<1>1. it.size > 0 /\ it.addr + it.size <= Space
  BY DEF Tiles
<1>2. \A b \in nbs : b.size > 0 /\ b.addr + b.size <= Space
  <2>1. \A b \in bs \ {it} : b.size > 0 /\ b.addr + b.size <= Space
    BY DEF Tiles
  <2>2. \A p \in P : p.size > 0 /\ p.addr + p.size <= Space
    BY <1>1, WAssumption DEF Block, Addr
  <2>3. QED BY <2>1, <2>2
<1>3. \A a \in Addr : \E b \in nbs : Contains(b, a)
  <2> TAKE a \in Addr
  <2>1. PICK c \in bs : Contains(c, a)
    BY DEF Tiles
  <2>2. CASE c = it
    <3>1. Span(it, a)
      BY <2>1, <2>2, <1>1, ContainsSpan
    <3>2. PICK p \in P : Span(p, a)
      BY <3>1
    <3>3. Contains(p, a)
      BY <3>2, <1>2, ContainsSpan
    <3>4. QED BY <3>3
  <2>3. CASE c # it
    BY <2>1, <2>3
  <2>4. QED BY <2>2, <2>3
<1>4. \A b1, b2 \in nbs : b1 # b2 =>
        b1.addr + b1.size <= b2.addr \/ b2.addr + b2.size <= b1.addr
  <2> TAKE b1, b2 \in nbs
  <2>1. \A p \in P, c \in bs \ {it} :
          p.addr + p.size <= c.addr \/ c.addr + c.size <= p.addr
    BY WAssumption DEF Tiles, Block, Addr
  <2>2. QED BY <2>1 DEF Tiles
<1>5. QED BY <1>2, <1>3, <1>4 DEF Tiles

\* The pieces of a permitted Insert of a non-empty range tile the interval
\* of the block they replace.
LEMMA SplitTiles ==
  ASSUME NEW it \in Block, it.size > 0, it.addr + it.size <= Space,
         NEW address \in Addr, Contains(it, address),
         NEW size \in 1 .. (Space - address),
         NEW type_id \in SUBSET TypeBits, NEW new_attr \in Attrs, NEW old_attr,
         InsertAllowed(it, address, size, type_id, old_attr)
  PROVE  LET P == SplitPieces(it, address, size, type_id, new_attr)
         IN  /\ \A p \in P : /\ p.size > 0
                             /\ it.addr <= p.addr
                             /\ p.addr + p.size <= it.addr + it.size
             /\ \A p, q \in P : p # q =>
                   p.addr + p.size <= q.addr \/ q.addr + q.size <= p.addr
             /\ \A a \in Addr : Span(it, a) => \E p \in P : Span(p, a)
             /\ \A p \in P : p.pair = PairAt(it, p.addr - it.addr)
             /\ \A p \in P :
                   \/ /\ p.addr = address /\ p.size = size
                      /\ p.type = type_id /\ p.attr = new_attr
                   \/ /\ p.addr + p.size <= address \/ address + size <= p.addr
                      /\ p.type = it.type /\ p.attr = it.attr
<1> USE WAssumption DEF Addr, Block
<1> DEFINE oldEnd == it.addr + it.size
           insEnd == address + size
           bef == [addr |-> it.addr, size |-> address - it.addr,
                   pair |-> it.pair, attr |-> it.attr, type |-> it.type]
           nw  == [addr |-> address, size |-> size,
                   pair |-> PairAt(it, address - it.addr),
                   attr |-> new_attr, type |-> type_id]
           aft == [addr |-> insEnd, size |-> oldEnd - insEnd,
                   pair |-> PairAt(it, Wrap(insEnd - it.addr)),
                   attr |-> it.attr, type |-> it.type]
           Q == {nw} \cup (IF it.addr # address THEN {bef} ELSE {})
                    \cup (IF insEnd # oldEnd THEN {aft} ELSE {})
<1>1. it.addr <= address /\ address < oldEnd
  BY ContainsSpan DEF Span
<1>2. LastAddress(it) = oldEnd - 1
  BY DEF LastAddress, Wrap, Block, Addr
<1>3. Wrap(address + size - 1) = insEnd - 1
  BY DEF Wrap, Addr
<1>4. insEnd <= oldEnd
  BY <1>2, <1>3 DEF InsertAllowed, Addr, Block
<1>5. SplitPieces(it, address, size, type_id, new_attr) = Q
  <2>1. CASE insEnd < oldEnd
    <3>1. Wrap(insEnd) = insEnd /\ Wrap(Wrap(insEnd) - 1) = insEnd - 1
      BY <2>1, WrapId
    <3>2. Wrap(EndAddress(it) - Wrap(insEnd)) = oldEnd - insEnd
      <4>1. CASE oldEnd < Space
        BY <2>1, <3>1, <4>1, WrapId DEF EndAddress
      <4>2. CASE oldEnd = Space
        <5>1. EndAddress(it) = 0
          BY <4>2, WrapSpace DEF EndAddress
        <5>2. QED BY <2>1, <3>1, <4>2, <5>1, WrapBelow
      <4>3. QED BY <4>1, <4>2
    <3>3. QED
      BY <1>2, <2>1, <3>1, <3>2 DEF SplitPieces
  <2>2. CASE insEnd = oldEnd
    <3>1. Wrap(Wrap(insEnd) - 1) = oldEnd - 1
      <4>1. CASE insEnd < Space
        BY <2>2, <4>1, WrapId
      <4>2. CASE insEnd = Space
        BY <2>2, <4>2, WrapSpace, WrapBelow
      <4>3. QED BY <4>1, <4>2
    <3>2. QED
      BY <1>2, <2>2, <3>1 DEF SplitPieces
  <2>3. QED BY <1>4, <2>1, <2>2 DEF Block, Addr
<1>6. \A p \in Q : /\ p.size > 0
                   /\ it.addr <= p.addr
                   /\ p.addr + p.size <= oldEnd
  BY <1>1, <1>4
<1>7. \A p, q \in Q : p # q =>
        p.addr + p.size <= q.addr \/ q.addr + q.size <= p.addr
  BY <1>1, <1>4
<1>8. \A a \in Addr : Span(it, a) => \E p \in Q : Span(p, a)
  <2> SUFFICES ASSUME NEW a \in Addr, Span(it, a)
               PROVE  \E p \in Q : Span(p, a)
    OBVIOUS
  <2>1. CASE a < address
    <3>1. bef \in Q /\ Span(bef, a)
      BY <2>1, <1>1 DEF Span, Addr
    <3>2. QED BY <3>1
  <2>2. CASE address <= a /\ a < insEnd
    <3>1. nw \in Q
      OBVIOUS
    <3>2. Span(nw, a)
      BY <2>2 DEF Span
    <3>3. QED BY <3>1, <3>2
  <2>3. CASE insEnd <= a
    <3>1. insEnd < oldEnd
      BY <2>3 DEF Span
    <3>2. aft \in Q
      BY <3>1
    <3>3. Span(aft, a)
      BY <2>3 DEF Span
    <3>4. QED BY <3>2, <3>3
  <2>4. QED BY <2>1, <2>2, <2>3 DEF Addr
<1>9. \A p \in Q : p.pair = PairAt(it, p.addr - it.addr)
  <2>1. PairAt(it, 0) = it.pair
    BY WrapId DEF PairAt
  <2>2. insEnd # oldEnd => Wrap(insEnd - it.addr) = insEnd - it.addr
    BY <1>1, <1>4, WrapId
  <2>3. QED BY <2>1, <2>2
<1>10. \A p \in Q :
         \/ /\ p.addr = address /\ p.size = size
            /\ p.type = type_id /\ p.attr = new_attr
         \/ /\ p.addr + p.size <= address \/ address + size <= p.addr
            /\ p.type = it.type /\ p.attr = it.attr
  OBVIOUS
<1>11. QED BY <1>5, <1>6, <1>7, <1>8, <1>9, <1>10

(***************************************************************************)
(* Coverage holds for every layout when callers never pass an empty range  *)
(* (MinInsertSize = 1).  It is not inductive alone: the step needs the     *)
(* types of TypeOK, so the inductive invariant is TypeOK /\ Coverage.      *)
(***************************************************************************)
IInv == TypeOK /\ Coverage

\* Every Insert of a non-empty range keeps the tiling.
LEMMA CoverageStep ==
  ASSUME MinInsertSize = 1, IInv, [Next]_vars
  PROVE  IInv'
<1>1. TypeOK'
  BY TypeStep DEF IInv
<1>2. ASSUME NEW address \in Addr, NEW type_id \in SUBSET TypeBits,
             NEW new_attr \in Attrs, NEW old_attr \in Attrs,
             NEW size \in MinInsertSize .. (Space - address),
             Insert(address, size, type_id, new_attr, old_attr)
      PROVE  Coverage'
  <2>1. PICK it \in blocks :
          /\ Contains(it, address)
          /\ IF InsertAllowed(it, address, size, type_id, old_attr)
               THEN InsertOk(it, address, size, type_id, new_attr)
               ELSE InsertFail
    BY <1>2 DEF Insert
  <2>2. it \in Block /\ it.size > 0 /\ it.addr + it.size <= Space
    BY DEF IInv, TypeOK, Coverage, Tiles
  <2>3. CASE InsertAllowed(it, address, size, type_id, old_attr)
    <3> DEFINE P == SplitPieces(it, address, size, type_id, new_attr)
    <3>1. blocks' = (blocks \ {it}) \cup P
      BY <2>1, <2>3 DEF InsertOk
    <3>2. size \in 1 .. (Space - address)
      OBVIOUS
    <3>3. P \subseteq Block
      BY <2>1, <2>2, <3>2, PiecesType, WAssumption
    <3>4. /\ \A p \in P : /\ p.size > 0
                          /\ it.addr <= p.addr
                          /\ p.addr + p.size <= it.addr + it.size
          /\ \A p, q \in P : p # q =>
                p.addr + p.size <= q.addr \/ q.addr + q.size <= p.addr
          /\ \A a \in Addr : Span(it, a) => \E p \in P : Span(p, a)
      BY <2>1, <2>2, <2>3, <3>2, SplitTiles
    <3>5. QED
      BY <3>1, <3>3, <3>4, TilesReplace DEF IInv, TypeOK, Coverage
  <2>4. CASE ~InsertAllowed(it, address, size, type_id, old_attr)
    BY <2>1, <2>4 DEF InsertFail, IInv, Coverage
  <2>5. QED BY <2>3, <2>4
<1>3. CASE UNCHANGED vars
  BY <1>3 DEF vars, IInv, Coverage, TypeOK
<1>4. QED BY <1>1, <1>2, <1>3 DEF Next, IInv

THEOREM CoverageInvariant ==
  ASSUME MinInsertSize = 1
  PROVE  Spec => []Coverage
<1>1. Init => IInv
  BY TypeCorrect, InitBlocksAssumption, CapacityAssumption, FS_CardinalityType
     DEF IInv, Init, TypeOK, Coverage
<1>2. IInv /\ [Next]_vars => IInv'
  BY CoverageStep
<1>3. IInv => Coverage
  BY DEF IInv
<1>4. QED BY <1>1, <1>2, <1>3, PTL DEF Spec


-----------------------------------------------------------------------------
(***************************************************************************)
(* Slot accounting.  The pieces of a split lie inside the block they       *)
(* replace, so none of them is a block the tree already holds: the tree    *)
(* grows by exactly the fresh slots Insert draws.                          *)
(***************************************************************************)
\* A set of pieces inside one tile shares no element with the other tiles.
LEMMA PiecesFresh ==
  ASSUME NEW bs \in SUBSET Block, Tiles(bs), NEW it \in bs,
         NEW P,
         \A p \in P : /\ p.size > 0
                      /\ it.addr <= p.addr
                      /\ p.addr + p.size <= it.addr + it.size
  PROVE  P \cap (bs \ {it}) = {}
<1> SUFFICES ASSUME NEW c \in bs \ {it}, c \in P PROVE FALSE
  OBVIOUS
<1>1. c.addr + c.size <= it.addr \/ it.addr + it.size <= c.addr
  BY DEF Tiles
<1>2. QED
  BY <1>1 DEF Block, Addr

\* The allocator count and the tree's size move together.
SlotInv == TypeOK /\ Coverage /\ IsFiniteSet(blocks) /\ SlotAccounting

(***************************************************************************)
(* Slot accounting holds for every layout and capacity when callers never  *)
(* pass an empty range: every block of the tree holds exactly one slot of  *)
(* the block allocator, through the in-place reuse of the erased block's   *)
(* slot by the first piece.  It needs Coverage (a piece is never a block   *)
(* already in the tree) and the finiteness of the tree.                    *)
(***************************************************************************)
THEOREM SlotAccountingInvariant ==
  ASSUME MinInsertSize = 1
  PROVE  Spec => []SlotAccounting
<1>1. Init => SlotInv
  BY TypeCorrect, InitBlocksAssumption, CapacityAssumption, FS_CardinalityType
     DEF SlotInv, Init, TypeOK, Coverage, SlotAccounting
<1>2. SlotInv /\ [Next]_vars => SlotInv'
  <2> SUFFICES ASSUME SlotInv, [Next]_vars PROVE SlotInv'
    OBVIOUS
  <2>1. TypeOK' /\ Coverage'
    BY CoverageStep DEF SlotInv, IInv
  <2>2. ASSUME NEW address \in Addr, NEW type_id \in SUBSET TypeBits,
               NEW new_attr \in Attrs, NEW old_attr \in Attrs,
               NEW size \in MinInsertSize .. (Space - address),
               Insert(address, size, type_id, new_attr, old_attr)
        PROVE  IsFiniteSet(blocks') /\ SlotAccounting'
    <3>1. PICK it \in blocks :
            /\ Contains(it, address)
            /\ IF InsertAllowed(it, address, size, type_id, old_attr)
                 THEN InsertOk(it, address, size, type_id, new_attr)
                 ELSE InsertFail
      BY <2>2 DEF Insert
    <3>2. it \in Block /\ it.size > 0 /\ it.addr + it.size <= Space
      BY DEF SlotInv, TypeOK, Coverage, Tiles
    <3>3. CASE InsertAllowed(it, address, size, type_id, old_attr)
      <4> DEFINE P == SplitPieces(it, address, size, type_id, new_attr)
                 R == blocks \ {it}
      <4>1. blocks' = R \cup P /\ used' = used + Cardinality(P) - 1
        BY <3>1, <3>3 DEF InsertOk, FreshSlots
      <4>2. size \in 1 .. (Space - address) /\ size \in 0 .. (Space - address)
        BY WAssumption
      <4>3. IsFiniteSet(P) /\ Cardinality(P) \in 1 .. 3
        BY <3>1, <3>2, <4>2, PiecesType
      <4>4. \A p \in P : /\ p.size > 0
                         /\ it.addr <= p.addr
                         /\ p.addr + p.size <= it.addr + it.size
        BY <3>1, <3>2, <3>3, <4>2, SplitTiles
      <4>5. P \cap R = {}
        BY <4>4, PiecesFresh DEF SlotInv, TypeOK, Coverage
      <4>6. IsFiniteSet(R) /\ Cardinality(R) = Cardinality(blocks) - 1
        BY FS_RemoveElement DEF SlotInv
      <4>7. IsFiniteSet(R \cup P)
            /\ Cardinality(R \cup P) = Cardinality(R) + Cardinality(P)
        BY <4>3, <4>5, <4>6, FS_Union, FS_EmptySet
      <4>8. Cardinality(blocks) \in Nat
        BY FS_CardinalityType DEF SlotInv
      <4>9. QED
        BY <4>1, <4>3, <4>6, <4>7, <4>8 DEF SlotInv, SlotAccounting
    <3>4. CASE ~InsertAllowed(it, address, size, type_id, old_attr)
      BY <3>1, <3>4 DEF InsertFail, SlotInv, SlotAccounting
    <3>5. QED BY <3>3, <3>4
  <2>3. CASE UNCHANGED vars
    <3>1. IsFiniteSet(blocks') /\ SlotAccounting'
      BY <2>3 DEF vars, SlotInv, SlotAccounting
    <3>2. QED BY <2>1, <3>1 DEF SlotInv
  <2>4. QED BY <2>1, <2>2, <2>3 DEF Next, SlotInv
<1>3. SlotInv => SlotAccounting
  BY DEF SlotInv
<1>4. QED BY <1>1, <1>2, <1>3, PTL DEF Spec


-----------------------------------------------------------------------------
(***************************************************************************)
(* Pair propagation.  Every address keeps the pair address it had in the   *)
(* initial layout: a piece's pair is its parent's shifted by the piece's   *)
(* offset (new_pair, after_pair of Insert), and the shifts compose.  They  *)
(* compose only while no pair range runs past the top of the address      *)
(* space: a piece whose shifted pair lands on the all-ones word would be   *)
(* read as "no pair" by the next split.                                    *)
(***************************************************************************)
\* In a tiling, the block FindContainingBlock picks for an address is the
\* tile whose interval holds it.
LEMMA TileUnique ==
  ASSUME NEW bs \in SUBSET Block, Tiles(bs), NEW b \in bs, NEW a \in Addr,
         Span(b, a)
  PROVE  (CHOOSE c \in bs : Contains(c, a)) = b
<1> DEFINE c == CHOOSE c \in bs : Contains(c, a)
<1>1. c \in bs /\ Contains(c, a)
  BY DEF Tiles
<1>2. Span(c, a)
  BY <1>1, ContainsSpan DEF Tiles
<1>3. QED
  BY <1>1, <1>2 DEF Tiles, Span, Block, Addr

\* A pair range that does not wrap past the top of the space.
PairInRange(b) == b.pair # NoPair => b.pair + b.size <= Space

\* A piece inside `it' whose pair is `it''s shifted by the piece's offset
\* gives every one of its addresses the pair `it' gave it, and its own
\* pair range does not wrap either.
LEMMA PairShift ==
  ASSUME NEW it \in Block, PairInRange(it),
         NEW p \in Block, it.addr <= p.addr, p.addr + p.size <= it.addr + it.size,
         p.pair = PairAt(it, p.addr - it.addr),
         NEW a \in Int, p.addr <= a, a < p.addr + p.size
  PROVE  /\ PairAt(p, a - p.addr) = PairAt(it, a - it.addr)
         /\ PairInRange(p)
<1> USE WAssumption DEF Block, Addr, PairInRange
<1>1. CASE it.pair = NoPair
  BY <1>1 DEF PairAt
<1>2. CASE it.pair # NoPair
  <2>1. it.pair + it.size <= Space
    BY <1>2
  <2>2. p.pair = it.pair + (p.addr - it.addr)
    BY <1>2, <2>1, WrapId DEF PairAt
  <2>3. PairAt(it, a - it.addr) = it.pair + (a - it.addr)
    BY <1>2, <2>1, WrapId DEF PairAt
  <2>4. CASE p.pair # NoPair
    <3>1. PairAt(p, a - p.addr) = Wrap(it.pair + (a - it.addr))
      BY <2>2, <2>4 DEF PairAt
    <3>2. Wrap(it.pair + (a - it.addr)) = it.pair + (a - it.addr)
      BY <2>1, WrapId
    <3>3. QED BY <2>1, <2>2, <2>3, <2>4, <3>1, <3>2
  <2>5. CASE p.pair = NoPair
    <3>1. it.pair + (p.addr - it.addr) = Space - 1
      BY <2>2, <2>5 DEF NoPair
    <3>2. it.pair + (a - it.addr) = Space - 1
      BY <2>1, <3>1
    <3>3. QED BY <2>3, <2>5, <3>2 DEF PairAt, NoPair
  <2>6. QED BY <2>4, <2>5
<1>3. QED BY <1>1, <1>2

\* The initial layout: no paired block's pair range wraps past the top.
InitPairsInRange == \A b \in InitBlocks : PairInRange(b)

\* Every address of every block has the pair address of the initial layout.
PairsAgree ==
  \A b \in blocks : \A a \in Addr :
    Span(b, a) => InitPairOf(a) = PairAt(b, a - b.addr)

PairInv == TypeOK /\ Coverage /\ (\A b \in blocks : PairInRange(b)) /\ PairsAgree


\* The initial layout agrees with itself.
LEMMA PairInit ==
  ASSUME InitPairsInRange
  PROVE  Init => PairInv
<1> SUFFICES ASSUME Init PROVE PairInv
  OBVIOUS
<1>1. TypeOK /\ Coverage
  BY InitBlocksAssumption, CapacityAssumption, FS_CardinalityType
     DEF Init, TypeOK, Coverage
<1>2. \A b \in blocks : PairInRange(b)
  BY DEF Init, InitPairsInRange
<1>3. PairsAgree
  <2> SUFFICES ASSUME NEW b \in blocks, NEW a \in Addr, Span(b, a)
               PROVE  InitPairOf(a) = PairAt(b, a - b.addr)
    BY DEF PairsAgree
  <2>1. (CHOOSE c \in InitBlocks : Contains(c, a)) = b
    BY TileUnique, InitBlocksAssumption DEF Init
  <2>2. QED BY <2>1 DEF InitPairOf
<1>4. QED BY <1>1, <1>2, <1>3 DEF PairInv

\* Every Insert of a non-empty range keeps every address's pair.
LEMMA PairStep ==
  ASSUME MinInsertSize = 1, PairInv, [Next]_vars
  PROVE  PairInv'
<1>1. TypeOK' /\ Coverage'
  BY CoverageStep DEF PairInv, IInv
<1>2. ASSUME NEW address \in Addr, NEW type_id \in SUBSET TypeBits,
             NEW new_attr \in Attrs, NEW old_attr \in Attrs,
             NEW size \in MinInsertSize .. (Space - address),
             Insert(address, size, type_id, new_attr, old_attr)
      PROVE  (\A b \in blocks' : PairInRange(b)) /\ PairsAgree'
  <2>1. PICK it \in blocks :
          /\ Contains(it, address)
          /\ IF InsertAllowed(it, address, size, type_id, old_attr)
               THEN InsertOk(it, address, size, type_id, new_attr)
               ELSE InsertFail
    BY <1>2 DEF Insert
  <2>2. it \in Block /\ it.size > 0 /\ it.addr + it.size <= Space /\ PairInRange(it)
    BY DEF PairInv, TypeOK, Coverage, Tiles
  <2>3. CASE InsertAllowed(it, address, size, type_id, old_attr)
    <3> DEFINE P == SplitPieces(it, address, size, type_id, new_attr)
    <3>1. blocks' = (blocks \ {it}) \cup P
      BY <2>1, <2>3 DEF InsertOk
    <3>2. size \in 1 .. (Space - address) /\ size \in 0 .. (Space - address)
      BY WAssumption
    <3>3. P \subseteq Block
      BY <2>1, <2>2, <3>2, PiecesType
    <3>4. \A p \in P : /\ p.size > 0
                       /\ it.addr <= p.addr
                       /\ p.addr + p.size <= it.addr + it.size
                       /\ p.pair = PairAt(it, p.addr - it.addr)
      <4>1. /\ \A p \in P : /\ p.size > 0
                            /\ it.addr <= p.addr
                            /\ p.addr + p.size <= it.addr + it.size
            /\ \A p \in P : p.pair = PairAt(it, p.addr - it.addr)
        BY <2>1, <2>2, <2>3, <3>2, SplitTiles
      <4>2. QED BY <4>1
    <3>5. \A p \in P : PairInRange(p)
      <4> SUFFICES ASSUME NEW p \in P PROVE PairInRange(p)
        OBVIOUS
      <4>1. p.addr \in Int /\ p.addr <= p.addr /\ p.addr < p.addr + p.size
        BY <3>3, <3>4 DEF Block, Addr
      <4>2. QED BY <2>2, <3>3, <3>4, <4>1, PairShift
    <3>6. ASSUME NEW p \in P, NEW a \in Addr, Span(p, a)
          PROVE  InitPairOf(a) = PairAt(p, a - p.addr)
      <4>1. Span(it, a)
        BY <2>2, <3>3, <3>4, <3>6 DEF Span, Block, Addr
      <4>2. InitPairOf(a) = PairAt(it, a - it.addr)
        BY <4>1 DEF PairInv, PairsAgree
      <4>3. PairAt(p, a - p.addr) = PairAt(it, a - it.addr)
        BY <2>2, <3>3, <3>4, <3>6, PairShift DEF Span, Addr
      <4>4. QED BY <4>2, <4>3
    <3>7. QED
      BY <3>1, <3>5, <3>6 DEF PairInv, PairsAgree
  <2>4. CASE ~InsertAllowed(it, address, size, type_id, old_attr)
    BY <2>1, <2>4 DEF InsertFail, PairInv, PairsAgree
  <2>5. QED BY <2>3, <2>4
<1>3. CASE UNCHANGED vars
  <2>1. (\A b \in blocks' : PairInRange(b)) /\ PairsAgree'
    BY <1>3 DEF vars, PairInv, PairsAgree
  <2>2. QED BY <1>1, <2>1 DEF PairInv
<1>4. QED BY <1>1, <1>2, <1>3 DEF Next, PairInv

(***************************************************************************)
(* Pair propagation holds for every layout whose pair ranges do not wrap   *)
(* past the top of the address space, when callers never pass an empty    *)
(* range: however many Inserts split it, every block carries the pair      *)
(* address its first byte had initially (new_pair and after_pair of        *)
(* Insert shift the old pair by the piece's offset).  Without the          *)
(* hypothesis on the initial layout it is false: a shifted pair that lands *)
(* on the all-ones word is taken by the next split for "no pair".          *)
(***************************************************************************)
THEOREM PairPropagationInvariant ==
  ASSUME MinInsertSize = 1, InitPairsInRange
  PROVE  Spec => []PairPropagation
<1>1. Init => PairInv
  BY PairInit
<1>2. PairInv /\ [Next]_vars => PairInv'
  BY PairStep
<1>3. PairInv => PairPropagation
  <2> SUFFICES ASSUME PairInv, NEW b \in blocks PROVE b.pair = InitPairOf(b.addr)
    BY DEF PairPropagation
  <2>1. b \in Block /\ b.size > 0 /\ b.addr + b.size <= Space
    BY DEF PairInv, TypeOK, Coverage, Tiles
  <2>2. Span(b, b.addr) /\ b.addr \in Addr /\ b.addr - b.addr = 0
    BY <2>1, WAssumption DEF Span, Block, Addr
  <2>3. InitPairOf(b.addr) = PairAt(b, b.addr - b.addr)
    BY <2>2 DEF PairInv, PairsAgree
  <2>4. PairAt(b, 0) = b.pair
    BY <2>1, WrapId, WAssumption DEF PairAt, Block, Addr
  <2>5. QED BY <2>2, <2>3, <2>4
<1>4. QED BY <1>1, <1>2, <1>3, PTL DEF Spec


-----------------------------------------------------------------------------
(***************************************************************************)
(* Refinement: the tree implements the address map AddressMap under the    *)
(* mapping MemOf.  In a tiling, MemOf reads an address off the tile that   *)
(* holds it; an Insert changes the tiles only inside the replaced block,   *)
(* and there the pieces give every address outside the range the type,     *)
(* attribute and pair it had and every address inside it the new type and *)
(* attribute with its old pair (PairShift).                                *)
(***************************************************************************)
\* The abstract view of an address is read off the tile that holds it.
LEMMA MemOfAt ==
  ASSUME NEW bs \in SUBSET Block, Tiles(bs), NEW b \in bs, NEW a \in Addr,
         Span(b, a)
  PROVE  MemOf(bs)[a] = [type |-> b.type, attr |-> b.attr,
                         pair |-> PairAt(b, a - b.addr)]
<1>1. (CHOOSE c \in bs : Contains(c, a)) = b
  BY TileUnique
<1>2. QED BY <1>1 DEF MemOf

\* The abstract address space is the tree's.
LEMMA AbstractAddr == Abstract!Addr = Addr /\ Abstract!Space = Space
BY DEF Abstract!Addr, Abstract!Space, Addr, Space


\* Every step of the tree is a step of the address map or leaves it alone.
LEMMA RefineStep ==
  ASSUME MinInsertSize = 1, PairInv, [Next]_vars
  PROVE  [Abstract!Next]_Abstract!vars
<1>1. CASE UNCHANGED vars
  BY <1>1 DEF vars, Abstract!vars
<1>2. ASSUME NEW address \in Addr, NEW type_id \in SUBSET TypeBits,
             NEW new_attr \in Attrs, NEW old_attr \in Attrs,
             NEW size \in MinInsertSize .. (Space - address),
             Insert(address, size, type_id, new_attr, old_attr)
      PROVE  [Abstract!Next]_Abstract!vars
  <2>1. PICK it \in blocks :
          /\ Contains(it, address)
          /\ IF InsertAllowed(it, address, size, type_id, old_attr)
               THEN InsertOk(it, address, size, type_id, new_attr)
               ELSE InsertFail
    BY <1>2 DEF Insert
  <2>2. it \in Block /\ it.size > 0 /\ it.addr + it.size <= Space /\ PairInRange(it)
    BY DEF PairInv, TypeOK, Coverage, Tiles
  <2>3. CASE ~InsertAllowed(it, address, size, type_id, old_attr)
    <3>1. ret' = FALSE /\ blocks' = blocks
      BY <2>1, <2>3 DEF InsertFail
    <3>2. Abstract!Refuse
      BY <3>1 DEF Abstract!Refuse
    <3>3. QED BY <3>2 DEF Abstract!Next
  <2>4. CASE InsertAllowed(it, address, size, type_id, old_attr)
    <3> DEFINE P == SplitPieces(it, address, size, type_id, new_attr)
               R == blocks \ {it}
               Rng == Abstract!Range(address, size)
               mem == MemOf(blocks)
               mem2 == MemOf(blocks')
    <3>1. blocks' = R \cup P /\ ret' = TRUE
      BY <2>1, <2>4 DEF InsertOk
    <3>2. size \in 1 .. (Space - address) /\ size \in 0 .. (Space - address)
      BY WAssumption
    <3>3. P \subseteq Block
      BY <2>1, <2>2, <3>2, PiecesType
    <3>4. /\ \A p \in P : /\ p.size > 0
                          /\ it.addr <= p.addr
                          /\ p.addr + p.size <= it.addr + it.size
          /\ \A a \in Addr : Span(it, a) => \E p \in P : Span(p, a)
          /\ \A p \in P : p.pair = PairAt(it, p.addr - it.addr)
          /\ \A p \in P :
                \/ /\ p.addr = address /\ p.size = size
                   /\ p.type = type_id /\ p.attr = new_attr
                \/ /\ p.addr + p.size <= address \/ address + size <= p.addr
                   /\ p.type = it.type /\ p.attr = it.attr
      BY <2>1, <2>2, <2>4, <3>2, SplitTiles
    <3>5. blocks' \subseteq Block /\ Tiles(blocks')
      BY CoverageStep DEF PairInv, IInv, TypeOK, Coverage
    <3>6. blocks \subseteq Block /\ Tiles(blocks)
      BY DEF PairInv, TypeOK, Coverage
    <3>7. it.addr <= address /\ address + size <= it.addr + it.size
      <4>1. Span(it, address)
        BY <2>1, <2>2, ContainsSpan
      <4>2. PICK p \in P : Span(p, address)
        BY <3>4, <4>1
      <4>3. p.addr = address /\ p.size = size
        BY <3>2, <3>3, <3>4, <4>2 DEF Span, Block, Addr
      <4>4. QED BY <3>4, <4>3
    <3>8. Rng = {a \in Addr : address <= a /\ a < address + size}
      BY AbstractAddr DEF Abstract!Range
    <3>9. ASSUME NEW a \in Addr
          PROVE  mem2[a] = IF a \in Rng
                             THEN [type |-> type_id, attr |-> new_attr, pair |-> mem[a].pair]
                             ELSE mem[a]
      <4>1. CASE Span(it, a)
        <5>1. PICK p \in P : Span(p, a)
          BY <3>4, <4>1
        <5>2. mem[a] = [type |-> it.type, attr |-> it.attr,
                        pair |-> PairAt(it, a - it.addr)]
          BY <3>6, <4>1, MemOfAt
        <5>3. p \in blocks' /\ p \in Block
          BY <3>1, <3>3
        <5>4. mem2[a] = [type |-> p.type, attr |-> p.attr,
                         pair |-> PairAt(p, a - p.addr)]
          BY <3>5, <5>1, <5>3, MemOfAt
        <5>5. PairAt(p, a - p.addr) = PairAt(it, a - it.addr)
          BY <2>2, <3>4, <5>1, <5>3, PairShift DEF Span, Addr, Block
        <5>6. CASE a \in Rng
          <6>1. p.type = type_id /\ p.attr = new_attr
            BY <3>4, <3>8, <5>1, <5>3, <5>6 DEF Span, Block, Addr
          <6>2. [type |-> type_id, attr |-> new_attr, pair |-> mem[a].pair]
                = [type |-> type_id, attr |-> new_attr,
                   pair |-> PairAt(it, a - it.addr)]
            BY <5>2
          <6>3. QED BY <5>4, <5>5, <5>6, <6>1, <6>2
        <5>7. CASE a \notin Rng
          <6>1. p.type = it.type /\ p.attr = it.attr
            BY <3>4, <3>8, <5>1, <5>3, <5>7 DEF Span, Block, Addr
          <6>2. QED BY <5>2, <5>4, <5>5, <5>7, <6>1
        <5>8. QED BY <5>6, <5>7
      <4>2. CASE ~Span(it, a)
        <5>1. PICK c \in blocks : Contains(c, a)
          BY <3>6 DEF Tiles
        <5>2. Span(c, a)
          BY <3>6, <5>1, ContainsSpan DEF Tiles
        <5>3. c # it /\ c \in blocks'
          BY <3>1, <4>2, <5>2
        <5>4. a \notin Rng
          BY <2>2, <3>7, <3>8, <4>2 DEF Span, Addr, Block
        <5>5. mem2[a] = mem[a]
          BY <3>5, <3>6, <5>2, <5>3, MemOfAt
        <5>6. QED BY <5>4, <5>5
      <4>3. QED BY <4>1, <4>2
    <3>10. mem2 = [a \in Addr |-> IF a \in Rng
                                    THEN [type |-> type_id, attr |-> new_attr, pair |-> mem[a].pair]
                                    ELSE mem[a]]
      <4>1. mem2 = [a \in Addr |-> mem2[a]]
        BY DEF MemOf
      <4>2. QED BY <3>9, <4>1
    <3>11. \A a \in Rng : mem[a].attr = old_attr /\ mem[a].type \subseteq type_id
      <4> SUFFICES ASSUME NEW a \in Rng
                   PROVE  mem[a].attr = old_attr /\ mem[a].type \subseteq type_id
        OBVIOUS
      <4>1. a \in Addr /\ Span(it, a)
        BY <2>2, <3>7, <3>8 DEF Span, Addr, Block
      <4>2. mem[a] = [type |-> it.type, attr |-> it.attr,
                      pair |-> PairAt(it, a - it.addr)]
        BY <3>6, <4>1, MemOfAt
      <4>3. QED BY <2>4, <4>2 DEF InsertAllowed, CanDerive
    <3>12. address \in Rng
      BY <3>2, <3>8 DEF Addr
    <3>13. mem2[address].type = type_id /\ mem2[address].attr = new_attr
           /\ mem[address].attr = old_attr
      <4>1. mem[address].attr = old_attr
        BY <3>11, <3>12
      <4>2. mem2[address] = [type |-> type_id, attr |-> new_attr, pair |-> mem[address].pair]
        BY <3>9, <3>12
      <4>3. mem[address] = [type |-> it.type, attr |-> it.attr,
                            pair |-> PairAt(it, address - it.addr)]
        BY <2>2, <3>6, <3>7, MemOfAt DEF Span, Block, Addr
      <4>4. QED BY <4>1, <4>2, <4>3
    <3>14. Abstract!Reclassify(address, size, mem2[address].type,
                               mem2[address].attr, mem[address].attr)
      <4>1. MemOf(blocks)' = mem2
        OBVIOUS
      <4>2. mem2 = [a \in Abstract!Addr |->
                      IF a \in Abstract!Range(address, size)
                        THEN [type |-> mem2[address].type,
                              attr |-> mem2[address].attr, pair |-> mem[a].pair]
                        ELSE mem[a]]
        BY <3>10, <3>13, AbstractAddr
      <4>3. \A a \in Abstract!Range(address, size) :
              mem[a].attr = mem[address].attr /\ mem[a].type \subseteq mem2[address].type
        BY <3>11, <3>13
      <4>4. QED BY <3>1, <4>1, <4>2, <4>3 DEF Abstract!Reclassify
    <3>15. address \in Abstract!Addr /\ size \in 1 .. (Abstract!Space - address)
      BY <3>2, AbstractAddr
    <3>16. QED BY <3>14, <3>15 DEF Abstract!Next
  <2>5. QED BY <2>3, <2>4
<1>3. QED BY <1>1, <1>2 DEF Next


(***************************************************************************)
(* KMemoryBlockTree::Insert implements the address map, for every layout   *)
(* whose pair ranges do not wrap past the top of the space and callers     *)
(* that never pass an empty range: every Insert either changes no          *)
(* address's type, attribute or pair and reports failure, or reclassifies  *)
(* exactly its range, which carried old_attr and a type the new one        *)
(* derives from, and keeps every address's pair.  The mapping is only      *)
(* functional on tilings, and the pairs only compose when they do not      *)
(* wrap, so the proof runs over the invariant PairInv.                     *)
(***************************************************************************)
THEOREM RefinesAddressMap ==
  ASSUME MinInsertSize = 1, InitPairsInRange
  PROVE  Spec => ImplementsAddressMap
<1>1. Init => Abstract!Init
  BY DEF Init, Abstract!Init
<1>2. Spec => []PairInv
  BY PairInit, PairStep, PTL DEF Spec
<1>3. PairInv /\ [Next]_vars => [Abstract!Next]_Abstract!vars
  BY RefineStep
<1>4. QED
  BY <1>1, <1>2, <1>3, PTL DEF Spec, ImplementsAddressMap, Abstract!Spec

-----------------------------------------------------------------------------
(***************************************************************************)
(* Types only derive.  In a tiling two blocks that overlap are the same    *)
(* block, so an Insert step can only compare a block with itself (a tile   *)
(* it leaves alone) or the replaced block with one of its pieces, whose    *)
(* type is the old one or the new type that passed CanDerive.             *)
(***************************************************************************)
LEMMA OverlapSame ==
  ASSUME NEW bs \in SUBSET Block, Tiles(bs), NEW b \in bs, NEW c \in bs,
         Overlap(b, c)
  PROVE  b = c
BY DEF Tiles, Overlap, Block, Addr

\* The step form of TypeOnlyDerives.
DerivesStep ==
  \A b \in blocks, nb \in blocks' : Overlap(b, nb) => IsDerivedFrom(nb.type, b.type)

LEMMA DerivesOnStep ==
  ASSUME MinInsertSize = 1, IInv, [Next]_vars
  PROVE  DerivesStep
<1>1. blocks \subseteq Block /\ Tiles(blocks)
  BY DEF IInv, TypeOK, Coverage
\* A block compared with itself.
<1>2. ASSUME blocks' = blocks PROVE DerivesStep
  BY <1>1, <1>2, OverlapSame DEF DerivesStep, IsDerivedFrom
<1>3. ASSUME NEW address \in Addr, NEW type_id \in SUBSET TypeBits,
             NEW new_attr \in Attrs, NEW old_attr \in Attrs,
             NEW size \in MinInsertSize .. (Space - address),
             Insert(address, size, type_id, new_attr, old_attr)
      PROVE  DerivesStep
  <2>1. PICK it \in blocks :
          /\ Contains(it, address)
          /\ IF InsertAllowed(it, address, size, type_id, old_attr)
               THEN InsertOk(it, address, size, type_id, new_attr)
               ELSE InsertFail
    BY <1>3 DEF Insert
  <2>2. it \in Block /\ it.size > 0 /\ it.addr + it.size <= Space
    BY <1>1 DEF Tiles
  <2>3. CASE InsertAllowed(it, address, size, type_id, old_attr)
    <3> DEFINE P == SplitPieces(it, address, size, type_id, new_attr)
    <3>1. blocks' = (blocks \ {it}) \cup P
      BY <2>1, <2>3 DEF InsertOk
    <3>2. size \in 1 .. (Space - address)
      OBVIOUS
    <3>3. /\ \A p \in P : /\ p.size > 0
                          /\ it.addr <= p.addr
                          /\ p.addr + p.size <= it.addr + it.size
          /\ \A p \in P : p.type = type_id \/ p.type = it.type
      <4>1. /\ \A p \in P : /\ p.size > 0
                            /\ it.addr <= p.addr
                            /\ p.addr + p.size <= it.addr + it.size
            /\ \A p, q \in P : p # q =>
                  p.addr + p.size <= q.addr \/ q.addr + q.size <= p.addr
            /\ \A a \in Addr : Span(it, a) => \E p \in P : Span(p, a)
            /\ \A p \in P : p.pair = PairAt(it, p.addr - it.addr)
            /\ \A p \in P :
                  \/ /\ p.addr = address /\ p.size = size
                     /\ p.type = type_id /\ p.attr = new_attr
                  \/ /\ p.addr + p.size <= address \/ address + size <= p.addr
                     /\ p.type = it.type /\ p.attr = it.attr
        BY <2>1, <2>2, <2>3, <3>2, SplitTiles
      <4>. QED
        BY <4>1
    <3>4. it.type \subseteq type_id
      BY <2>3 DEF InsertAllowed, CanDerive
    <3>5. P \subseteq Block
      BY <2>1, <2>2, <3>2, PiecesType, WAssumption
    <3>6. SUFFICES ASSUME NEW b \in blocks, NEW nb \in blocks', Overlap(b, nb)
                   PROVE  IsDerivedFrom(nb.type, b.type)
      BY DEF DerivesStep
    <3>7. CASE nb \in blocks \ {it}
      BY <1>1, <3>6, <3>7, OverlapSame DEF IsDerivedFrom
    <3>8. CASE nb \in P /\ b # it
      <4>1. b.addr + b.size <= it.addr \/ it.addr + it.size <= b.addr
        BY <1>1, <3>8 DEF Tiles
      <4>2. nb \in Block /\ b \in Block
        BY <1>1, <3>5, <3>8
      <4>. QED
        BY <2>2, <3>3, <3>6, <3>8, <4>1, <4>2 DEF Overlap, Block, Addr
    <3>9. CASE nb \in P /\ b = it
      BY <3>3, <3>4, <3>9 DEF IsDerivedFrom
    <3>. QED
      BY <3>1, <3>7, <3>8, <3>9
  <2>4. CASE ~InsertAllowed(it, address, size, type_id, old_attr)
    BY <1>2, <2>1, <2>4 DEF InsertFail
  <2>. QED
    BY <2>3, <2>4
<1>4. CASE UNCHANGED vars
  BY <1>2, <1>4 DEF vars
<1>. QED
  BY <1>3, <1>4 DEF Next

(***************************************************************************)
(* When callers never pass size 0, no Insert ever takes a bit away from    *)
(* the type of any address: every step compares only a tile with itself   *)
(* or a replaced block with a piece whose type passed CanDerive.           *)
(***************************************************************************)
THEOREM TypeOnlyDerivesProperty ==
  ASSUME MinInsertSize = 1
  PROVE  Spec => TypeOnlyDerives
<1>1. Init => IInv
  BY TypeCorrect, InitBlocksAssumption, CapacityAssumption, FS_CardinalityType
     DEF IInv, Init, TypeOK, Coverage
<1>2. IInv /\ [Next]_vars => IInv'
  BY CoverageStep
<1>3. IInv /\ [Next]_vars => [DerivesStep]_vars
  BY DerivesOnStep
<1>. QED
  BY <1>1, <1>2, <1>3, PTL DEF Spec, TypeOnlyDerives, DerivesStep
=============================================================================
