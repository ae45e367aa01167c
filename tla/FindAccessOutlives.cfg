SPECIFICATION Spec
CONSTANTS
  None = None
  Owner = Owner
  Grants = {g1}
  Workers = {w1}
  Invites = {i1, i2, i3}
  FirstWindow <- MCFirstWindow
  Windows <- MCWindows
  InviteLife = 3
  FaultKinds = {"db"}
  MaxFaults = 1
  MaxChanges = 0
  MaxTime = 3
SYMMETRY Symmetry
INVARIANTS
  RevokedEndsAccess
CHECK_DEADLOCK FALSE
