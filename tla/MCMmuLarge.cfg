SPECIFICATION Spec
CONSTANTS
  P = 12
  NPT = 6
  KernelEnd = 3
  BrkSizes = {1, 14}
  MapSizes = {1, 2}
  StackPages = 1
  Budget = 40
  MaxCalls = 5
INVARIANTS WasFree
CHECK_DEADLOCK FALSE
