SPECIFICATION BufferFairSpec
CONSTANTS
  Durations = {2, 4}
  Lengths = {5}
  Skips = {0}
  MayFail = FALSE
  MaxSeeks = 1
  Chunk = 2
  MaxOverrun = 2
PROPERTIES
  ReadAssertionHolds
CHECK_DEADLOCK FALSE
