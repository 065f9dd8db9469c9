CONSTANTS
  WINDOW = 2
  WINDOW_COUNT = 3
  N = 7
  Claims <- OnePrefix
  OldLinks <- NoRanges
  NewLinks <- NoRanges
  PARANOID_REWIND = 2
  MaxRedirects = 2
  MaxAttempts = 1
  Thieves = FALSE
  MaxTurns = 0
SPECIFICATION Spec
INVARIANTS BytesBelong
CHECK_DEADLOCK FALSE
