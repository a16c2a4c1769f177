SPECIFICATION Spec
CONSTANTS
  Requests = {r1, r2, r3}
  Users = {u1, u2}
  Devices = {d1}
  MaxInFlight = 1
  Faults = FALSE
SYMMETRY Symmetry
PROPERTIES
  RemovalRemoves
CHECK_DEADLOCK FALSE
