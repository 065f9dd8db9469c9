CONSTANTS
  NVersions = 2
  MaxSize = 2
  Sizes <- TwoVersions
  PARANOID_REWIND = 1
  MaxRows = 1
  MaxNames = 2
  MaxCrashes = 0
  MaxFaults = 1
  MaxRefreshes = 0
  AllowTamper = FALSE
SPECIFICATION Spec
INVARIANT PublishedIsOneVersion
CHECK_DEADLOCK FALSE
