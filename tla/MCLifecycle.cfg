CONSTANTS
  NVersions = 2
  MaxSize = 2
  Sizes <- ShorterVersion
  PARANOID_REWIND = 1
  MaxRows = 2
  MaxNames = 5
  MaxCrashes = 1
  MaxFaults = 1
  MaxRefreshes = 1
  AllowTamper = TRUE
SPECIFICATION FairSpec
INVARIANTS TypeOK ClaimIsBacked HolesNeedStaleTrust PublishedOnce StrandedOnlyByCrash CrashIsNoticed HistoryComplete
PROPERTIES ImplementsShelf Completes
CHECK_DEADLOCK FALSE
