SPECIFICATION FairSpec
CONSTANTS
  Handlers = {h1, h2}
  Observers = {o1}
  Processor = processor
  Free = free
  NumAdapters = 1
  MaxRequests = 3
INVARIANT TypeOK
INVARIANT StatsCoherent
INVARIANT StartupNeverPanics
INVARIANT NoDeadlock
PROPERTY EveryCallReturns
CHECK_DEADLOCK FALSE
