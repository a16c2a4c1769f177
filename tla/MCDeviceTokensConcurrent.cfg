SPECIFICATION Spec
CONSTANTS
  Requests = {r1, r2, r3, r4}
  Users = {u1, u2}
  Devices = {d1, d2}
  MaxInFlight = 3
  Faults = TRUE
SYMMETRY Symmetry
INVARIANTS
  TypeOK
  TableIsExplained
PROPERTIES
  OnlyPastOwnersDelete
CHECK_DEADLOCK FALSE
