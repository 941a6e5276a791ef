SPECIFICATION FairSpec
CONSTANTS
  Conns = {c1, c2}
  Broadcasters = {b1, b2}
INVARIANT TypeOK
INVARIANT ClosedIsLeaving
PROPERTY IterationStable
PROPERTY GoneIsForgotten
PROPERTY BroadcastsEnd
CHECK_DEADLOCK FALSE
