---------------------------- MODULE MCProcurement ---------------------------
(* Procurement for TLC.                                                    *)
EXTENDS Procurement, TLC

Symmetry ==
  Permutations(Tender) \cup Permutations(Contractor) \cup Permutations(Application)
    \cup Permutations(Bid) \cup Permutations(Request)
=============================================================================
