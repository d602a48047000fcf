CONSTANTS
  Threads = {t1, t2, t3}
  MaxCount = 2
  InitCount = 0
  ReleaseAmounts = {1, 2}
SPECIFICATION Spec
PROPERTIES StrandedWaiterResolved
