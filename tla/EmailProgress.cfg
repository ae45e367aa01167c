CONSTANTS
  Emails = {1, 2}
  Event <- BookThenChange
  Applied = {}
  Workers = {w1, w2}
  None = None
  Brake = 1
  Reports <- SomeReports
  FaultKinds = {"crash", "parse"}
  MaxFaults = 1
  MaxChanges = 1
  MaxTime = 0
SPECIFICATION FairSpec
PROPERTIES ConfirmedComesToRest
CHECK_DEADLOCK FALSE
