SPECIFICATION FairSpec
CONSTANTS
  NBlocks = 3
  SPLIT_ALIGN = 2
  MIN_SEGMENT = 1
  MaxConns = 2
  Adaptive = TRUE
  MaxSpawn = 3
  MaxChunk = 1
  UseRange = TRUE
  Worker = {1, 2, 3}
INVARIANTS TypeOK CapRespected VerdictIsTrue
PROPERTY CancelEnds
CHECK_DEADLOCK FALSE
