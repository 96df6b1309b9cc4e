SPECIFICATION MachineSpec
CONSTANTS
  Lines = {1, 3, 8}
  Drivers = {1, 2, 3, 8}
  Keys = {30}
  Table = 58
  Room = 8
  MaxTyped = 3
INVARIANTS UnmaskedIsReady ServiceEnds RequestsKept TypedIsBuffered
PROPERTY KeyTaken
CHECK_DEADLOCK FALSE
CONSTRAINTS Untorn FewHeld
