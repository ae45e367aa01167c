SPECIFICATION FairSpec
CONSTANTS
  Vehicles = {v1}
  Jobs = {j1, j2}
  Charging = charging
  Failures = {"retryable"}
  MaxAttempts = 2
  MaxEdits = 1
  MaxFaults = 0
PROPERTIES
  DisconnectCompletes
CHECK_DEADLOCK FALSE
