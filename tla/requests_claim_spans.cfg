SPECIFICATION Spec
CONSTANTS
  Engines = {e1}
  Plays = {p1}
  Admins = {a1}
  Workers = {w1, w2}
  Nobody = Nobody
  RingSize = 1
  Cap = 1
  Uploads <- Shapes
  Letters = {"a", "b"}
  Methods = {"GET", "HEAD", "OPTIONS", "POST"}
  MaxPath = 2
INVARIANT NoForeignSpans
CHECK_DEADLOCK FALSE
