--------------------------- MODULE MCOrganizations ---------------------------
(* Organizations for TLC.                                                  *)
EXTENDS Organizations, Naturals, FiniteSets, TLC

Symmetry == Permutations(Tenant) \cup Permutations(Request)

(* Nothing reads a project, so nothing is explored beyond one.  A          *)
(* department that is not in use is as good as none.                       *)
Bounds ==
  /\ projects = {}
  /\ \A d \in DOMAIN units \cap Department : units[d].enabled
  /\ Cardinality({r \in DOMAIN requests : requests[r].at = "unit"}) <= 1
=============================================================================
