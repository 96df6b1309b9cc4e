SPECIFICATION Spec
CONSTANTS
  Data = {0, 1}
  Size = 4
  MaxLen = 3
  Mod = 256
INVARIANTS NoOverlap RoomForCommit UnusedIsHonest
PROPERTIES ImplementsFifo CallsReturn
