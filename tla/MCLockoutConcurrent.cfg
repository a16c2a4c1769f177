SPECIFICATION Spec
CONSTANTS
  Requests = {r1, r2, r3}
  Emails = {e1}
  MaxAttempts = 2
  Window = 1
  LockoutPeriod = 2
  Retention = 1
  MaxInFlight = 2
  Faults = TRUE
  MaxTime = 3
SYMMETRY Symmetry
INVARIANTS
  TypeOK
  LockIsEarned
  WindowSurvivesPurge
  OnlyStragglersUnderLock
  AuditMatchesReply
  RejectionIsKept
CHECK_DEADLOCK FALSE
