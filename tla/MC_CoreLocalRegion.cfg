CONSTANTS
  W = 7
  TypeBits <- MCTypeBits
  Attrs = {0}
  InitBlocks <- MCInitBlocks
  BlockCapacity = 8
  MinInsertSize = 1
  NumCores = 2
  PageSize = 2
  BoundsAlign = 32
  CoreLocalType = {"CoreLocal"}
SPECIFICATION Spec
INVARIANTS RegionPlaced CoreLocalInserted
PROPERTIES SearchTerminates
