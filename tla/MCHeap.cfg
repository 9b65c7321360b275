CONSTANTS
  Start = 16
  End = 240
  Request = {1, 23, 34}
SPECIFICATION FairSpec
INVARIANTS HeapOK
PROPERTIES CallReturns HeapIsAllocator
