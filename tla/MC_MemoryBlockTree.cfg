CONSTANTS
  W = 3
  TypeBits <- MCTypeBits
  Attrs = {0, 1}
  InitBlocks <- MCInitBlocks
  BlockCapacity = 4
  MinInsertSize = 1
SPECIFICATION Spec
INVARIANTS TypeOK Coverage PairPropagation SlotAccounting
PROPERTIES TypeOnlyDerives
