CONSTANTS
  Threads = {t1, t2}
  Sizes = {1, 2}
  InitSize = 2
  Accesses <- MCAccesses
  SerializedResize = FALSE
  NoThread = NoThread
SPECIFICATION Spec
INVARIANTS GetSizeReturnsFileSize
