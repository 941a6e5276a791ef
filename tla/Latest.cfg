SPECIFICATION Spec
CONSTANTS
  Exchanges = {e1, e2}
  Second = 2
  Retention = 3
  CleanupEvery = 2
  Delay = 1
  MaxTime = 7
  MaxWrites = 2
SYMMETRY Symmetry
INVARIANTS
  TypeOK
  LatestIsMostRecent
  AnswersAreRecent
  FreshIsKept
CHECK_DEADLOCK FALSE
