SPECIFICATION Spec
CONSTANTS
  Requests = {r1, r2, r3}
  Emails = {e1, e2}
  MaxAttempts = 2
  Window = 1
  LockoutPeriod = 2
  Retention = 1
  MaxInFlight = 1
  Faults = FALSE
  MaxTime = 3
INVARIANTS
  WindowBudget
PROPERTIES
  LockHolds
  ImplementsPolicy
CHECK_DEADLOCK FALSE
