---------------------------- MODULE MCMembership ----------------------------
(* Membership for TLC: symmetric organizations, links and requests.        *)
EXTENDS Membership, TLC

Symmetry ==
  Permutations(Tenant) \cup Permutations(Invitation) \cup Permutations(Request)
=============================================================================
