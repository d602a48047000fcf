CONSTANTS
  W = 3
  TypeBits <- MCTypeBits
  Attrs = {0, 1}
  InitBlocks <- MCInitBlocks
  BlockCapacity = 4
  MinInsertSize = 0
SPECIFICATION Spec
INVARIANTS Coverage
