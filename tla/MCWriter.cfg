CONSTANTS
  NBlocks = 3
  WRITER_QUEUE = 2
  MAX_COALESCE = 2
  CHECKPOINT_BYTES = 2
  PARANOID_REWIND = 1
  MaxSessions = 2
  MaxOverlaps = 0
SPECIFICATION FairSpec
INVARIANTS TypeOK ClaimIsDurable DoneIsInFile FinishIsComplete ProgressKept NothingDropped
PROPERTIES ImplementsProgress FinishAnswered BackpressureEnds
CHECK_DEADLOCK FALSE
