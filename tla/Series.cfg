SPECIFICATION Spec
CONSTANTS
  e1 = e1
  e2 = e2
  Exchanges = {e1, e2}
  Prices = {1, 2}
  Second = 2
  Retention = 2
  CleanupEvery = 3
  RoundLimit = 1
  Periods = {2}
  Delay = 1
  MaxTime = 10
  MaxWrites = 2
SYMMETRY Symmetry
INVARIANTS
  TypeOK
  PricesAreOfPeriod
  ExtremesRight
  SeriesBounded
CHECK_DEADLOCK FALSE
