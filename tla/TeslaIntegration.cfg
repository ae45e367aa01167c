SPECIFICATION FairSpec
CONSTANTS
  Vehicles = {v1}
  Jobs = {j1, j2}
  Charging = charging
  Failures = {"retryable", "refused", "hardware"}
  MaxAttempts = 2
  MaxEdits = 2
  MaxFaults = 1
INVARIANTS
  TokenKept
  NoForgottenStream
PROPERTIES
  RetiredVehicleLeaves
CHECK_DEADLOCK FALSE
