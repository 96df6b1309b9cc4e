SPECIFICATION DevicesSpec
CONSTANTS
  NumPorts = 2
  CapSlots = {1, 2}
  Counts = {1, 8, 9}
  Buffers = {8, 12}
  MaxCmds = 3
  Buses = 4
  Devs = 2
  SlotValues = 8
  BarValues = 256
  Devices <- PciDevices
  MaxDevices = 2
  Keys <- PciKeys
  BitOr <- BitsOr
  Depth = 4
  MaxChars = 7
  MaxMessages = 3
INVARIANTS TransferIsBuffer SlotsApart SuccessIsDone ScanComplete ConfigKept NothingLost
PROPERTY DriversReturn
CHECK_DEADLOCK FALSE
