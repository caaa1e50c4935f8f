SPECIFICATION LiveSpec
CONSTANTS
  MaxInt = 5
  ChunkBytes = 3
  BufferBytes = 3
  BufferRecords = 2
  Sizes = {1, 3}
  MaxFaults = 2
INVARIANTS
  AccountIsExact OnlyOverflowRejects ResultSettles
PROPERTY OutputSettles
CHECK_DEADLOCK FALSE
