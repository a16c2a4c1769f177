SPECIFICATION Spec
CONSTANTS
  MaxId = 3
  MaxLimit = 1
  Retention = 4
  MaxTime = 2
INVARIANTS
  NothingMissed
CHECK_DEADLOCK FALSE
