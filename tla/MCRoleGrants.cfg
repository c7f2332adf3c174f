SPECIFICATION Spec
CONSTANTS
  Tenant = {t1, t2}
  User = {u1}
  Role = {role1}
  Permission = {manage, other}
  ManageUsers = manage
  NoRow = NoRow
  Request = {r1, r2}
SYMMETRY Symmetry
INVARIANT TypeOK
INVARIANT AssignedWithinTenant
PROPERTY EditLeavesSelection
CHECK_DEADLOCK FALSE
