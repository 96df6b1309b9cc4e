SPECIFICATION Spec
CONSTANTS
  Words = 3
  Half = 3
  PageUnits = 2
  AddrMod = 64
  Entries <- MCEntries
  BootFrames <- MCBootFrames
  MaxCount = 5
  MaxEntries = 3
INVARIANTS NoDoubleAllocation BootFramesKept OnlyReleasedCells ScanIsFirstRun
CHECK_DEADLOCK FALSE
