CONSTANTS
  WINDOW = 2
  WINDOW_COUNT = 3
  N = 7
  Claims <- MCClaims
  OldLinks <- MCOldLinks
  NewLinks <- MCNewLinks
  PARANOID_REWIND = 2
  MaxRedirects = 2
  MaxAttempts = 1
  Thieves = TRUE
  MaxTurns = 1
SPECIFICATION FairSpec
INVARIANTS TypeOK SegmentsBelong AcceptedIsSame NoFalseRefusal
PROPERTY CommandEnds
CHECK_DEADLOCK FALSE
