CONSTANTS
  W = 3
  TypeBits = {"Dram"}
  Attrs = {0, 1}
  InitBlocks <- MCInitBlocks
  BlockCapacity = 4
  MinInsertSize = 1
SPECIFICATION Spec
PROPERTIES ImplementsAddressMap
