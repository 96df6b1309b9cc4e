SPECIFICATION Spec
CONSTANTS
  Header = 1
  NEW_ALLOC_SIZE = 4
  Page = 2
  U32 = 32
  MUL_NO_OVERFLOW = 4
  Requests <- WideRequests
  Arrays <- MCArrays
  Gaps = {0, 1}
  MaxHeap = 64
  MaxLive = 3
INVARIANTS HeapMapped
