SPECIFICATION Spec
CONSTANTS
  Requests = {r1, r2, r3}
  Emails = {e1}
  MaxAttempts = 2
  Window = 1
  LockoutPeriod = 2
  Retention = 2
  MaxInFlight = 2
  Faults = FALSE
  MaxTime = 4
SYMMETRY Symmetry
PROPERTIES
  LockHolds
CHECK_DEADLOCK FALSE
