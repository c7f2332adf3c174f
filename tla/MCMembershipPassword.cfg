SPECIFICATION CommandSpec
CONSTANTS
  Tenant = {t1, t2}
  User = {u1}
  Invitation = {i1, i2, i3}
  Request = {r1, r2}
  MaxUses = 2
SYMMETRY Symmetry
INVARIANT AcceptedSetsPassword
CHECK_DEADLOCK FALSE
