CONSTANTS
  NVersions = 1
  MaxSize = 2
  Sizes <- OneVersion
  PARANOID_REWIND = 1
  MaxRows = 1
  MaxNames = 3
  MaxCrashes = 2
  MaxFaults = 1
  MaxRefreshes = 0
  AllowTamper = FALSE
SPECIFICATION Spec
INVARIANT PublishedIsComplete
CHECK_DEADLOCK FALSE
