SPECIFICATION Spec
CONSTANTS
  k1 = k1
  s1 = s1
  s2 = s2
  s3 = s3
  Ids = {k1}
  Secrets = {s1, s2, s3}
  NoSecret = NoSecret
  Threads = {t1, t2}
  Grace = 1
  MaxTime = 1
  MaxHits = 1
  Server = Server
  Tool = Tool
  Newest = 2
  Legacy <- OneKey
  Enabled = TRUE
  MaxStarts = 2
INVARIANTS StartSound RenamedIsImported LatestTwoVerify
PROPERTY RowsKept
CHECK_DEADLOCK FALSE
SYMMETRY Alike
