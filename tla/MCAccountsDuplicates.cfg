SPECIFICATION Spec
CONSTANTS
  admin = admin
  alice = alice
  p1 = p1
  Users = {admin, alice}
  Runs = {s1, s2}
  Passwords = {p1, p2}
  NoPassword = NoPassword
  NoRow = NoRow
  SeedUsers <- MCSeedUsers
  SeedRole <- MCSeedRole
  Staff <- MCStaff
  SeedPassword = p1
  Changes = {c1}
  OrgRequests = {r1}
  MaxCalls = 3
SYMMETRY RunSymmetry
INVARIANTS
  OneCredentialOnly
CHECK_DEADLOCK FALSE
