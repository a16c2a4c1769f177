SPECIFICATION Spec
CONSTANTS
  Requests = {r1, r2}
  Tokens = {t1}
  u1 = u1
  Users = {u1}
  UserOf <- OneUser
  AdminOnly = {r1, r2}
  CacheTTL = 2
  CookieMaxAge = 2
  ExpiresIn = 2
  UpdateAge = 1
  PurgeAge = 0
  MaxLatency = 1
  MaxTime = 5
SYMMETRY Symmetry
INVARIANTS
  TypeOK
PROPERTIES
  ImplementsStaleView
  LiveSessionKept
CHECK_DEADLOCK FALSE
