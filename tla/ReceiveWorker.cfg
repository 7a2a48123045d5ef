SPECIFICATION Spec
CONSTANTS
  Calls = {c1, c2}
  PoolSizes = {1, 2}
  Timeouts <- MCTimeouts
  MaxArrivals = 2
INVARIANTS
  NoMessageLost
  WorkerMemoryKept
PROPERTIES
  TimedCallSettles
  CloseEndsWaiting
