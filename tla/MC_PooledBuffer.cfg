CONSTANTS
  Threads = {t1, t2, t3}
  HeapOrder = 3
  HeapOrderTrim = 0
  HeapOrderMax = 2
  HeapOrderMaxForLarge = 3
  Requests <- MCRequests
  NoBuffer = NoBuffer
SPECIFICATION Spec
SYMMETRY MCSymmetry
INVARIANTS
  HeapAccounted
  HeapCallsValid
  AllocatedEnough
