SPECIFICATION Spec
CONSTANTS
  Handlers = {h1}
  Observers = {}
  Processor = processor
  Free = free
  NumAdapters = 2
  MaxRequests = 4
INVARIANT OnlyActiveAdaptersRunAfterStartup
INVARIANT RunningHasAdapter
PROPERTY FailedRestartIsFinal
CHECK_DEADLOCK FALSE
