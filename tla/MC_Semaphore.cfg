CONSTANTS
  Threads = {t1, t2, t3}
  MaxCount = 2
  InitCount = 0
  ReleaseAmounts = {1}
SPECIFICATION Spec
INVARIANTS TypeOK NoStrandedCount
PROPERTIES StrandedWaiterResolved
