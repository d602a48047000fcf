CONSTANTS
  W = 6
  TypeBits <- MCTypeBits
  Attrs = {0, 1, 2, 3, 4}
  BlockCapacity = 31
  PhysInitBlocks <- MCPhysInitBlocks
  VirtInitBlocks <- MCVirtInitBlocks
  ApplicationPoolSizes = {2, 4, 8, 12, 14, 18}
  AppletPoolSizes = {0, 2, 3}
  UnsafeSystemPoolMinSizes = {1, 2, 4}
  CarveoutAlignment = 2
  CarveoutSizeMax = 6
  MetadataOverhead <- MCMetadataOverhead
  LinearMapped = "LinearMapped"
  LinearPhysStart = 4
  LinearVirtStart = 0
SPECIFICATION LayoutSpec
INVARIANTS PoolsPartitionDram TreesInLockStep TreesTile NoAbortWhenRoom LinearTranslation
