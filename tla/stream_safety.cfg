SPECIFICATION Spec
CONSTANTS
  Browsers = {b1}
  Slots = {s1, s2}
  Timers = {t1}
  NoBrowser = NoBrowser
  NoTimer = NoTimer
  MaxClients = 2
  Replay = 1
  Room = 1
  MaxTraces = 3
  MaxFaults = 2
  CanStop = FALSE
  CanStall = FALSE
INVARIANTS HubSound
PROPERTIES InOrderOnce NoGap
CONSTRAINT FewEvents
SYMMETRY StreamSymmetry
CHECK_DEADLOCK FALSE
