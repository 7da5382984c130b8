SPECIFICATION FairSpec
CONSTANTS
  Engines = {e1}
  Plays = {p1}
  Admins = {a1}
  Workers = {w1, w2}
  Nobody = Nobody
  RingSize = 1
  Cap = 1
  Uploads <- Shapes
  Letters = {"a", "b"}
  Methods = {"GET", "HEAD", "OPTIONS", "POST"}
  MaxPath = 2
INVARIANTS TraceSound OwnSpansStay
PROPERTIES SentIsRecorded CallsEnd FinishedIsFinal
CHECK_DEADLOCK FALSE
