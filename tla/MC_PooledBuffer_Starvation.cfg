CONSTANTS
  Threads = {t1, t2}
  HeapOrder = 2
  HeapOrderTrim = 0
  HeapOrderMax = 1
  HeapOrderMaxForLarge = 2
  Requests <- MCStarveRequests
  NoBuffer = NoBuffer
SPECIFICATION Spec
PROPERTIES
  AllocationCompletes
