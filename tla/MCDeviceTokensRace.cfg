SPECIFICATION Spec
CONSTANTS
  Requests = {r1, r2, r3, r4}
  Users = {u1, u2}
  Devices = {d1}
  MaxInFlight = 2
  Faults = FALSE
SYMMETRY Symmetry
PROPERTIES
  OnlyOwnerDeletes
CHECK_DEADLOCK FALSE
