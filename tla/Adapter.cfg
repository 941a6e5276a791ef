SPECIFICATION FairSpec
CONSTANTS
  MaxStarts = 2
  MaxStops = 1
  MaxDials = 3
INVARIANT TypeOK
INVARIANT AtMostOneReads
INVARIANT OneConnection
INVARIANT HealthMatchesReader
PROPERTY StopDrains
PROPERTY Recovers
CHECK_DEADLOCK FALSE
