SPECIFICATION FairSpec
CONSTANTS
  None = None
  Owner = Owner
  Grants = {g1}
  Workers = {w1}
  Invites = {i1, i2}
  FirstWindow <- MCFirstWindow
  Windows <- MCWindows
  InviteLife = 1
  FaultKinds = {"crash", "tesla", "refresh", "reauth", "post", "url", "list", "db", "byhand", "leaves"}
  MaxFaults = 2
  MaxChanges = 1
  MaxTime = 3
INVARIANTS
  KnownLiveIsWatched
PROPERTIES
  EndedAccessIsWithdrawn
CHECK_DEADLOCK FALSE
