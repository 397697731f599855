SPECIFICATION FairSpec
CONSTANTS
  Files <- AllFiles
  Chunk = 3
  MaxOpens = 2
  MaxRows = 4
CHECK_DEADLOCK FALSE
PROPERTY LoopEnds
