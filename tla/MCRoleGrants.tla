---------------------------- MODULE MCRoleGrants ----------------------------
(* RoleGrants for TLC.                                                     *)
EXTENDS RoleGrants, TLC

Symmetry ==
  Permutations(Tenant) \cup Permutations(User) \cup Permutations(Role)
    \cup Permutations(Request)
=============================================================================
