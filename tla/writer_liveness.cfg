SPECIFICATION FairSpec
CONSTANTS
  Producers = {p1}
  Flushers = {f1}
  Buckets = {1}
  Offered <- FirmKinds
  QueueMax = 1
  BatchRows = 1
  BusyRetries = 0
  MaxArrivals = 2
  MaxFaults = 2
  CanStop = TRUE
  CanCrash = TRUE
INVARIANT FlushPromise
PROPERTIES FlushAnswered NobodyStuck
CHECK_DEADLOCK FALSE
