SPECIFICATION Spec
CONSTANTS
  Period = 3
  Rates = {1, 2}
  Bursts = {0, 1, 2}
  Span = 4
  Owners = {o1, o2}
  Top = 1
  Floor = 1
  Numbers = {0, 1, 2}
  Ips = {i1, i2}
  Emails = {m1}
  NoSubject = NoSubject
  Threads = {t1, t2}
  Admins = {a1, a2}
  LoginLimits = {1}
  LoginWindows = {2, 3}
  Boot <- Strict
  SweepAt = 1
  MaxTime = 3
  MaxLogins = 3
  MaxUpdates = 2
INVARIANTS LockoutSound GuessesBounded
CHECK_DEADLOCK FALSE
SYMMETRY Alike
