--------------------------- MODULE MCIssueWorkflow --------------------------
(* IssueWorkflow for TLC: the requests are alike.                          *)
EXTENDS IssueWorkflow, TLC

Symmetry == Permutations(Issue) \cup Permutations(Reference) \cup Permutations(Request)
=============================================================================
