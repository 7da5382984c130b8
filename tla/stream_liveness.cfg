SPECIFICATION FairSpec
CONSTANTS
  Browsers = {b1}
  Slots = {s1, s2}
  Timers = {t1}
  NoBrowser = NoBrowser
  NoTimer = NoTimer
  MaxClients = 2
  Replay = 1
  Room = 1
  MaxTraces = 0
  MaxFaults = 2
  CanStop = TRUE
  CanStall = TRUE
PROPERTIES Recovers StopEnds
CHECK_DEADLOCK FALSE
