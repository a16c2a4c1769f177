SPECIFICATION BothSpec
CONSTANTS
  MaxId = 3
  MaxLimit = 2
  Retention = 1
  MaxTime = 3
INVARIANTS
  TypeOK
  NobodyTwice
  NobodyMissed
PROPERTIES
  AuditWalkAdvances
CHECK_DEADLOCK FALSE
