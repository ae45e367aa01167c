CONSTANTS
  Emails = {1, 2}
  Event <- BookThenCancel
  Applied = {1}
  Workers = {w1, w2}
  None = None
  Brake = 1
  Reports <- SomeReports
  FaultKinds = {"crash", "refused", "silence", "config", "parse"}
  MaxFaults = 1
  MaxChanges = 1
  MaxTime = 2
SPECIFICATION Spec
INVARIANTS AlertedOnce ApplyingIsInFlight DestroysOnlyAfterBrake
PROPERTIES ImplementsOwnerBrake
SYMMETRY Symmetry
CHECK_DEADLOCK FALSE
