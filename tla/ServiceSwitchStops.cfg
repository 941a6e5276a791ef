SPECIFICATION Spec
CONSTANTS
  Handlers = {h1}
  Observers = {o1}
  Processor = processor
  Free = free
  NumAdapters = 2
  MaxRequests = 1
INVARIANT SwitchKeepsProcessing
CHECK_DEADLOCK FALSE
