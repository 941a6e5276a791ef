SPECIFICATION Spec
CONSTANTS
  e1 = e1
  e2 = e2
  Exchanges = {e1, e2}
  Prices = {1, 2}
  Second = 2
  Retention = 4
  CleanupEvery = 2
  RoundLimit = 1
  Periods = {4}
  Delay = 0
  MaxTime = 5
  MaxWrites = 3
INVARIANT AverageRight
CHECK_DEADLOCK FALSE
