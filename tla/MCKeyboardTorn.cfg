SPECIFICATION MachineSpec
CONSTANTS
  Lines = {1, 3, 8}
  Drivers = {1, 2, 3, 8}
  Keys = {30, 58}
  Table = 58
  Room = 5
  MaxTyped = 2
INVARIANT ReleaseIsBit
CHECK_DEADLOCK FALSE
