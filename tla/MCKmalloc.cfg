SPECIFICATION Spec
CONSTANTS
  Header = 1
  NEW_ALLOC_SIZE = 4
  Page = 2
  U32 = 100
  MUL_NO_OVERFLOW = 4
  Requests <- MCRequests
  Arrays <- MCArrays
  Gaps = {0, 1}
  MaxHeap = 18
  MaxLive = 3
INVARIANTS BlocksDisjoint HeapMapped OwnedExactly RetrySucceeds
PROPERTY CallsReturn
