SPECIFICATION Spec
CONSTANTS
  Tenant = {t1}
  User = {u1}
  Role = {role1, role2}
  Permission = {manage}
  ManageUsers = manage
  NoRow = NoRow
  Request = {r1}
SYMMETRY Symmetry
INVARIANT StrongestGrantResolved
CHECK_DEADLOCK FALSE
