SPECIFICATION Spec
CONSTANTS
  None = None
  Owner = Owner
  Grants = {g1}
  Workers = {w1, w2}
  Invites = {i1, i2}
  FirstWindow <- MCFirstWindow
  Windows <- MCWindows
  InviteLife = 3
  FaultKinds = {"crash", "tesla", "refresh", "reauth", "post", "url", "list", "db", "byhand", "leaves"}
  MaxFaults = 1
  MaxChanges = 1
  MaxTime = 3
SYMMETRY Symmetry
INVARIANTS
  SessionExclusive
  PublishedMatches
  IssuingIsRecoverable
  RevokedIsGone
PROPERTIES
  ImplementsGuestLink
CHECK_DEADLOCK FALSE
