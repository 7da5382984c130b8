SPECIFICATION Spec
CONSTANTS
  Producers = {p1}
  Flushers = {}
  Buckets = {1}
  Offered <- AllKinds
  QueueMax = 1
  BatchRows = 2
  BusyRetries = 1
  MaxArrivals = 3
  MaxFaults = 3
  CanStop = TRUE
  CanCrash = TRUE
INVARIANTS QueueSound EveryDropCounted CommitWhole StopDrains
PROPERTY ImplementsCountedLog
CHECK_DEADLOCK FALSE
