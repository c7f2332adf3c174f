SPECIFICATION CommandSpec
CONSTANTS
  Tenant = {t1, t2}
  User = {u1}
  Invitation = {i1, i2, i3}
  Request = {r1, r2}
  MaxUses = 2
SYMMETRY Symmetry
INVARIANT PendingIsInvited
INVARIANT AtMostOneAccepted
INVARIANT InvitedHasInvitation
PROPERTY MembersFollowLifecycle
CHECK_DEADLOCK FALSE
