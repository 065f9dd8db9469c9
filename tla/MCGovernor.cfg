SPECIFICATION Spec
CONSTANTS
  MaxConns = 8
  StartConns = 4
  Rate <- Rates
  GainPercent = 15
  SaturationPercent = 60
  SustainedStalls = 3
INVARIANT TypeOK
PROPERTIES KeepsPromise Settles LimitsAreFinal
