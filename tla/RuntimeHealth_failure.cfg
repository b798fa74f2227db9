SPECIFICATION HealthSpec
CONSTANTS
  HealthModels = {ma}
  Versions = {10}
  MaxStamp = 1
INVARIANT FailureShownUntilReconverted
CHECK_DEADLOCK FALSE
