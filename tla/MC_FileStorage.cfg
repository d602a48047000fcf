CONSTANTS
  Threads = {t1, t2}
  Sizes = {1, 2}
  InitSize = 2
  Accesses <- MCAccesses
  SerializedResize = TRUE
  NoThread = NoThread
SPECIFICATION Spec
INVARIANTS CacheCoherent AccessInRange GetSizeReturnsFileSize
