SPECIFICATION LibrarySpec
CONSTANTS
  CountMax = 3
  PoolMod = 8
  Threshold = 3
  MaxAdd = 4
  MaxBlocks = 2
  MaxKeys = 7
  BLOCK_BYTES = 6
  LenBytes = 2
  SHA1_LEN = 3
  MaxMsg = 13
  MaxKey = 8
  Chars = {"%", "0", "3", "-", ".", "*", "l", "d", "u", "s", "x", "o"}
  Ints = 16
  Longs = 32
  Args = {5, 13, 18}
  Strings <- FormatStrings
  Sizes = {0, 2}
  MaxFmt = 5
INVARIANTS NoRepeat KeysKept EntropyUsed DigestIsHash HmacIsRight OwnOptions NumberReads BufferIsPrefix
CHECK_DEADLOCK FALSE
