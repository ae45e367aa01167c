SPECIFICATION Spec
CONSTANTS
  None = None
  Owner = Owner
  Grants = {g1}
  Workers = {w1}
  Invites = {i1, i2, i3}
  FirstWindow <- MCFirstWindow
  Windows = {}
  InviteLife = 3
  FaultKinds = {"crash", "reauth", "post", "url", "list", "byhand", "leaves"}
  MaxFaults = 3
  MaxChanges = 2
  MaxTime = 3
SYMMETRY Symmetry
INVARIANTS
  NeverRetriesAmbiguousCreate
  RevokedEndsAccess
CHECK_DEADLOCK FALSE
