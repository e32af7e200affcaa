SPECIFICATION SpoolSpec
CONSTANTS
  Output = 7
  PipeSize = 3
  Chunk = 2
  Cap = 3
CHECK_DEADLOCK FALSE
INVARIANT NothingLost
PROPERTIES NeverBlocked
