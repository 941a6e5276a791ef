SPECIFICATION Spec
CONSTANTS
  Exchanges = {e1}
  NumWorkers = 2
  MaxUpdates = 2
  AdapterCap = 1
  AggregatedCap = 1
  WorkerCap = 1
  ResultCap = 1
  Malformed <- MCMalformed
  Unstamped <- MCUnstamped
PROPERTY LatestNeverRegresses
CHECK_DEADLOCK FALSE
