SPECIFICATION Spec
CONSTANTS
  Requests = {r1, r2, r3}
  Emails = {e1}
  MaxAttempts = 2
  Window = 2
  LockoutPeriod = 3
  Retention = 2
  MaxInFlight = 1
  Faults = FALSE
  MaxTime = 4
SYMMETRY Symmetry
PROPERTIES
  LockIsConsecutive
CHECK_DEADLOCK FALSE
