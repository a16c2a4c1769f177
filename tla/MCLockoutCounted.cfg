SPECIFICATION FairSpec
CONSTANTS
  Requests = {r1, r2}
  Emails = {e1}
  MaxAttempts = 2
  Window = 1
  LockoutPeriod = 2
  Retention = 1
  MaxInFlight = 2
  Faults = TRUE
  MaxTime = 3
PROPERTIES
  RejectionIsCounted
CHECK_DEADLOCK FALSE
