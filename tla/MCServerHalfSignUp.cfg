SPECIFICATION Spec
CONSTANTS
  Processes = {p1, p2}
  Requests = {r1, r2}
  PoolMax = 1
  Limit <- MCLimit
  Routes <- MCRoutes
  MaxStarts = 2
INVARIANTS
  CreatedIsNotAnError
CHECK_DEADLOCK FALSE
