SPECIFICATION Spec
CONSTANTS
  P = 12
  NPT = 6
  KernelEnd = 3
  BrkSizes = {1, 3, 10}
  MapSizes = {1, 2}
  StackPages = 1
  Budget = 11
  MaxCalls = 5
INVARIANTS AssertsHold Slack RegionsOwned
CHECK_DEADLOCK FALSE
