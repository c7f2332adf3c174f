SPECIFICATION Spec
CONSTANTS
  Tenant = {t1}
  User = {u1}
  Invitation = {i1, i2, i3}
  Request = {r1, r2}
  MaxUses = 2
SYMMETRY Symmetry
INVARIANT TypeOK
INVARIANT AtMostOnePending
INVARIANT DatesFollowStatus
PROPERTY InvitationFinal
PROPERTY PasswordKept
PROPERTY SuspensionKept
CHECK_DEADLOCK FALSE
