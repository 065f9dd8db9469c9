CONSTANTS
  NBytes = 8
  BASE = 2
  MAX_DIGITS = 4
SPECIFICATION Spec
INVARIANTS Canonical DenotesCovered QueriesAreExact ReloadIsFaithful
