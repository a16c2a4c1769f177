SPECIFICATION Spec
CONSTANTS
  Requests = {r1, r2}
  Tokens = {t1}
  u1 = u1
  Users = {u1}
  UserOf <- OneUser
  AdminOnly = {r1, r2}
  CacheTTL = 2
  CookieMaxAge = 1
  ExpiresIn = 4
  UpdateAge = 2
  PurgeAge = 1
  MaxLatency = 1
  MaxTime = 4
SYMMETRY Symmetry
INVARIANTS
  CacheInvalidatedOnSignOut
CHECK_DEADLOCK FALSE
