SPECIFICATION AccountsSpec
CONSTANTS
  Requests = {r1, r2}
  Users = {u1, u2}
  Sessions = {s1, s2}
  Nobody = Nobody
  NoSession = NoSession
  Offered <- Edits
  MaxCalls = 3
INVARIANTS TablesSound
PROPERTIES OwnerGuarded PrivilegeRotates SetupOnce
SYMMETRY AccountsSymmetry
CHECK_DEADLOCK FALSE
