SPECIFICATION Spec
CONSTANTS
  NBlocks = 4
  SPLIT_ALIGN = 1
  MIN_SEGMENT = 2
  MaxConns = 2
  Adaptive = TRUE
  MaxSpawn = 2
  MaxChunk = 1
  UseRange = TRUE
  Worker = {1, 2}
INVARIANT OneSurvives
CHECK_DEADLOCK FALSE
