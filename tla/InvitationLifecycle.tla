------------------------- MODULE InvitationLifecycle ------------------------
(***************************************************************************)
(* What the services of apps/accounts/services.py promise about ONE        *)
(* membership and the invitations issued for it: four commands, each in    *)
(* one step, and what each does to the status and to every link.           *)
(***************************************************************************)
CONSTANT Invitation

VARIABLES status,   \* of the membership; "absent" before its row exists
          outcome   \* of each invitation; "none" before its row exists

lifecycle == <<status, outcome>>

Outcome == {"none", "pending", "accepted", "revoked"}

(* Every pending link is revoked. *)
Revoked == [i \in Invitation |-> IF outcome[i] = "pending" THEN "revoked" ELSE outcome[i]]

Init ==
  /\ status = "absent"
  /\ outcome = [i \in Invitation |-> "none"]

Create ==
  /\ status = "absent"
  /\ status' = "invited"
  /\ UNCHANGED outcome

Issue(i) ==
  /\ status = "invited"
  /\ outcome[i] = "none"
  /\ outcome' = [Revoked EXCEPT ![i] = "pending"]
  /\ UNCHANGED status

Accept(i) ==
  /\ status = "invited"
  /\ outcome[i] = "pending"
  /\ status' = "active"
  /\ outcome' = [Revoked EXCEPT ![i] = "accepted"]

Suspend ==
  /\ status \in {"invited", "active"}
  /\ status' = "suspended"
  /\ outcome' = Revoked

Activate ==
  /\ status # "absent"
  /\ status' = "active"
  /\ outcome' = Revoked

Next ==
  \/ Create \/ Suspend \/ Activate
  \/ \E i \in Invitation : Issue(i) \/ Accept(i)

Spec == Init /\ [][Next]_lifecycle
=============================================================================
