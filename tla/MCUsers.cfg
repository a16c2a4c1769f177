SPECIFICATION Spec
CONSTANTS
  Users = {u1, u2}
  Uploads = {f1, f2}
  Processes = {q1, q2}
  Milliseconds = {0, 1}
  MaxCalls = 1
  MaxCrashes = 1
  None = None
  u1 = u1
  Given <- OnesKey
SYMMETRY Symmetric
INVARIANTS
  TypeOK
  ImageIsOwnUpload
  PrivateForACause
CHECK_DEADLOCK FALSE
