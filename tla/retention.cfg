SPECIFICATION FairSpec
CONSTANTS
  Width = 2
  Late = 1
  AgeAfter = 2
  RollAfter = 4
  Cap = 1
  Chunk = 1
  MaxNow = 5
  MaxArrivals = 2
  MaxFaults = 2
INVARIANTS CountsExact ParentsAgree
PROPERTIES RolledBeforePruned AgedGo
CHECK_DEADLOCK FALSE
