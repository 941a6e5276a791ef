SPECIFICATION FairSpec
CONSTANTS
  Exchanges = {e1}
  NumWorkers = 2
  MaxUpdates = 3
  AdapterCap = 1
  AggregatedCap = 1
  WorkerCap = 1
  ResultCap = 1
  Malformed <- MCMalformed
  Unstamped <- MCUnstamped
INVARIANT TypeOK
INVARIANT UpstreamOrdered
INVARIANT Accounted
INVARIANT StoredAreStamped
PROPERTY DrainsWhenCancelled
PROPERTY IsLossyRelay
CHECK_DEADLOCK FALSE
