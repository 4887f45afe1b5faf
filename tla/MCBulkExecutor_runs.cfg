CONSTANTS
  N = 4
  Parallelism = 2
  Async = TRUE
  MaxFaults = 2
SPECIFICATION FairSpec
INVARIANTS EmittedIsDurable CancelStopsDispatch NothingExecutedTwice
PROPERTIES RunEnds
