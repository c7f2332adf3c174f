------------------------- MODULE MCMembershipLocks --------------------------
(* MembershipLocks for TLC: three requests and three links.                *)
EXTENDS MembershipLocks
=============================================================================
