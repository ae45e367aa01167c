SPECIFICATION Spec
CONSTANTS
  Syncers = {s1}
  Times = {"t1"}
  MaxMoves = 1
  MaxConsents = 1
  MaxUpsets = 0
PROPERTIES
  NeverSilentlyCancelled
CHECK_DEADLOCK FALSE
