SPECIFICATION Spec
CONSTANTS
  Tenant = {t1, t2}
  User = {u1}
  Area = {a1}
  Department = {d1}
  Report = {i1}
  Request = {r1, r2}
  None = None
SYMMETRY Symmetry
CONSTRAINT Bounds
INVARIANT TypeOK
INVARIANT WorksForMembers
INVARIANT SwitchSticks
INVARIANT RoutedWithin
PROPERTY SuspensionSticks
CHECK_DEADLOCK FALSE
