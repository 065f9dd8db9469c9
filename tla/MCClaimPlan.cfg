CONSTANTS
  NBlocks = 4
  SPLIT_ALIGN = 1
  MIN_SEGMENT = 2
  Worker = {w1, w2, w3}
  MaxChunk = 2
  MaxAttempts = 0
  UseRange = TRUE
SPECIFICATION Spec
SYMMETRY Workers
INVARIANTS TypeOK NoByteLost ExhaustedMeansDone
CHECK_DEADLOCK FALSE
