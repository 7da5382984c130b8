SPECIFICATION FairSpec
CONSTANTS
  Clients = {c1, c2}
  Admins = {a1}
  Workers = {w1}
  english = english
  multilingual = multilingual
  Models <- Both
  Names <- Staging
  EnglishOnly = FALSE
  Multilingual <- multilingual
  NoOne = NoOne
  MaxCalls = 2
INVARIANTS ForwardSound StagedOnce
PROPERTIES OnlyUnloadEvicts CallsReturn
CHECK_DEADLOCK FALSE
