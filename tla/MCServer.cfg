SPECIFICATION Spec
CONSTANTS
  Processes = {p1, p2}
  Requests = {r1, r2}
  PoolMax = 1
  Limit <- MCLimit
  Routes <- MCRoutes
  MaxStarts = 2
INVARIANTS
  TypeOK
  SignUpAnswerIsTrue
  PoolDrained
  BudgetPerStart
PROPERTIES
  EveryRequestEnds
  ShutdownEnds
CHECK_DEADLOCK FALSE
