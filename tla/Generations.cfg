SPECIFICATION Spec
CONSTANTS
  NumWorkers = 1
  Capacity = 1
  MaxGenerations = 2
  MaxUpdates = 2
INVARIANT TypeOK
INVARIANT SwitchLosesNothing
INVARIANT OnlyStartupLingers
PROPERTY RelaysAcrossSwitches
CHECK_DEADLOCK FALSE
