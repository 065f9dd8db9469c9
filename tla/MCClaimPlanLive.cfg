CONSTANTS
  NBlocks = 4
  SPLIT_ALIGN = 1
  MIN_SEGMENT = 2
  Worker = {w1, w2}
  MaxChunk = 2
  MaxAttempts = 1
  UseRange = TRUE
SPECIFICATION ServedSpec
PROPERTIES Terminates ImplementsClaims
CHECK_DEADLOCK FALSE
