----------------------------- MODULE RoleGrants -----------------------------
(***************************************************************************)
(* Who may do what in an organization: permission_for                      *)
(* (apps/accounts/policies.py) over the rows that the role form and the    *)
(* membership form replace.  Neither form opens a transaction of its own,  *)
(* so every commit is an action.  Module Membership says how a membership  *)
(* comes to be active, and what its form does to the other columns.        *)
(***************************************************************************)
EXTENDS Naturals, FiniteSets, Tables

CONSTANTS Tenant, User, Role, Permission, Request,
          ManageUsers,    \* the permission users.manage
          NoRow           \* a membership form: its row is in Membership

ASSUME ManageUsersAssumption == ManageUsers \in Permission
ASSUME OwnersAssumption == Role \cap (Tenant \X User) = {}

VARIABLES members,    \* memberships that are active in an active organization
          roles,      \* table Role -> RoleRow
          grants,     \* table Role \X Permission -> scope
          assigned,   \* rows of MembershipRole
          requests,   \* table Request -> Edit
          moved       \* history: roles that changed their organization

vars == <<members, roles, grants, assigned, requests, moved>>

Membership == Tenant \X User
Owner      == Role \cup Membership

RoleRow == [tenant : Tenant, enabled : BOOLEAN]

(* Only whether a scope is one of AccessPermission.Scope matters. *)
Scope == {"default", "blank"}

(***************************************************************************)
(* An edit in progress: where it stands, whose selection it replaces, the  *)
(* row that a role is saved with, the selected permissions or roles, the   *)
(* permissions that set() read and the items left to look up.              *)
(* For the property: did no other edit of the owner overlap with it?       *)
(***************************************************************************)
Edit ==
  [at : {"save", "read", "replace", "delete", "create"}, owner : Owner,
   row : RoleRow \cup {NoRow}, selection : SUBSET (Permission \cup Role),
   old : SUBSET Permission, todo : SUBSET (Permission \cup Role), alone : BOOLEAN]

(* The rows permission_for compares: one for each enabled role that u has in t. *)
RolesGranting(u, t, permission) ==
  {role \in DOMAIN roles : /\ <<<<t, u>>, role>> \in assigned
                           /\ roles[role].enabled
                           /\ <<role, permission>> \in DOMAIN grants}

(* max() compares the scopes through scope_order.get, which knows no rank  *)
(* for a blank one; a single scope is not compared.                        *)
Comparable(granting, permission) ==
  \/ Cardinality(granting) <= 1
  \/ \A role \in granting : grants[<<role, permission>>] = "default"

Can(u, t, permission) ==
  LET granting == RolesGranting(u, t, permission)
  IN /\ <<t, u>> \in members
     /\ granting # {}
     /\ Comparable(granting, permission)

Init ==
  /\ members = {}
  /\ roles = Empty
  /\ grants = Empty
  /\ assigned = {}
  /\ requests = Empty
  /\ moved = {}

-----------------------------------------------------------------------------
(* An organization or a membership is activated or suspended, by a form or *)
(* a service of the other modules.                                         *)
SetActive(m) ==
  /\ \E status \in SUBSET {m} : members' = (members \ {m}) \cup status
  /\ UNCHANGED <<roles, grants, assigned, requests, moved>>

EditsOf(owner) == {q \in DOMAIN requests : requests[q].owner = owner}

StartEdit(r, at, owner, row, selection) ==
  /\ r \notin DOMAIN requests
  /\ requests' = Put([q \in DOMAIN requests |->
                        IF q \in EditsOf(owner) THEN [requests[q] EXCEPT !.alone = FALSE]
                                                ELSE requests[q]],
                     r, [at |-> at, owner |-> owner, row |-> row, selection |-> selection,
                         old |-> {}, todo |-> selection, alone |-> EditsOf(owner) = {}])
  /\ UNCHANGED <<members, roles, grants, assigned, moved>>

Editing(r, at) == r \in DOMAIN requests /\ requests[r].at = at

(* The edit goes on at its next write. *)
Proceed(r, at, old, todo) ==
  requests' = Put(requests, r, [requests[r] EXCEPT !.at = at, !.old = old, !.todo = todo])

-----------------------------------------------------------------------------
(* The platform's role form has the organization of the role as a field.   *)
EditRoleAsPlatform(r, role, row, selection) == StartEdit(r, "save", role, row, selection)

(* An organization's own form finds its own roles only and fixes the field. *)
EditRoleAsManager(r, role, row, selection) ==
  /\ \E u \in User : Can(u, row.tenant, ManageUsers)
  /\ role \in DOMAIN roles => roles[role].tenant = row.tenant
  /\ StartEdit(r, "save", role, row, selection)

(* TenantRoleForm.save: the whole row, with the organization of the form. *)
SaveRole(r) ==
  /\ Editing(r, "save")
  /\ LET role == requests[r].owner
         row  == requests[r].row
     IN /\ roles' = Put(roles, role, row)
        /\ moved' = IF role \in DOMAIN roles /\ roles[role].tenant # row.tenant
                    THEN moved \cup {role} ELSE moved
  /\ Proceed(r, "read", {}, requests[r].todo)
  /\ UNCHANGED <<members, grants, assigned>>

(***************************************************************************)
(* ModelForm.save goes on with the many-to-many fields of the form: set()  *)
(* reads the permissions of the role, and removes and adds the difference  *)
(* in one transaction.  It is given no scope for the rows it adds.         *)
(***************************************************************************)
PermissionsOf(role) == {p \in Permission : <<role, p>> \in DOMAIN grants}

ReadGrants(r) ==
  /\ Editing(r, "read")
  /\ Proceed(r, "replace", PermissionsOf(requests[r].owner), requests[r].todo)
  /\ UNCHANGED <<members, roles, grants, assigned, moved>>

ReplaceGrants(r) ==
  /\ Editing(r, "replace")
  /\ LET edit    == requests[r]
         removed == {edit.owner} \X (edit.old \ edit.selection)
         added   == {edit.owner} \X (edit.selection \ edit.old)
     IN grants' = [g \in (DOMAIN grants \ removed) \cup added |->
                     IF g \in DOMAIN grants THEN grants[g] ELSE "blank"]
  /\ Proceed(r, "delete", {}, requests[r].todo)
  /\ UNCHANGED <<members, roles, assigned, moved>>

-----------------------------------------------------------------------------
(* The roles a form offers for a membership of t. *)
AnyEnabled(t) == {role \in DOMAIN roles : roles[role].enabled}
Offered(t) == {role \in DOMAIN roles : roles[role].tenant = t /\ roles[role].enabled}

EditMemberAsPlatform(r, m, selection) ==
  /\ selection \subseteq Offered(m[1])
  /\ StartEdit(r, "delete", m, NoRow, selection)

EditMemberAsManager(r, m, selection) ==
  /\ \E u \in User : Can(u, m[1], ManageUsers)
  /\ selection \subseteq Offered(m[1])
  /\ StartEdit(r, "delete", m, NoRow, selection)

-----------------------------------------------------------------------------
OnlyProceed(r) ==
  /\ Editing(r, "delete")
  /\ Proceed(r, "create", {}, requests[r].todo)
  /\ UNCHANGED <<members, roles, grants, assigned, moved>>

(***************************************************************************)
(* What is not selected is deleted.  The selected roles of a member are a  *)
(* subquery here, so one that is no longer offered is deleted as well.     *)
(***************************************************************************)
DeleteOthers(r) ==
  /\ Editing(r, "delete")
  /\ LET owner    == requests[r].owner
         selected == requests[r].selection
     IN \/ /\ owner \in Role
           /\ grants' = [g \in {g \in DOMAIN grants : g[1] = owner => g[2] \in selected}
                           |-> grants[g]]
           /\ UNCHANGED assigned
        \/ /\ owner \in Membership
           /\ assigned' = {a \in assigned : a[1] = owner => a[2] \in selected \cap Offered(owner[1])}
           /\ UNCHANGED grants
  /\ Proceed(r, "create", {}, requests[r].todo)
  /\ UNCHANGED <<members, roles, moved>>

SwapKeys(r, item) ==
  /\ Editing(r, "create")
  /\ item \in requests[r].todo
  /\ assigned' = assigned \cup {<<item, requests[r].owner>>}
  /\ Proceed(r, "create", {}, requests[r].todo \ {item})
  /\ UNCHANGED <<members, roles, grants, moved>>

(***************************************************************************)
(* get_or_create, for one selected item after the other.  A role assigned  *)
(* here is the instance the form read: MembershipRole.clean compares the   *)
(* organization that Offered compared.                                     *)
(***************************************************************************)
CreateSelected(r, item) ==
  /\ Editing(r, "create")
  /\ item \in requests[r].todo
  /\ LET row == <<requests[r].owner, item>>
     IN \/ /\ row[1] \in Role
           /\ grants' = IF row \in DOMAIN grants THEN grants ELSE Put(grants, row, "default")
           /\ UNCHANGED assigned
        \/ /\ row[1] \in Membership
           /\ assigned' = assigned \cup {row}
           /\ UNCHANGED grants
  /\ Proceed(r, "create", {}, requests[r].todo \ {item})
  /\ UNCHANGED <<members, roles, moved>>

Finish(r) ==
  /\ Editing(r, "create")
  /\ requests[r].todo = {}
  /\ requests' = Delete(requests, r)
  /\ UNCHANGED <<members, roles, grants, assigned, moved>>

(* An error, or the death of a worker: what was committed stays. *)
Abort(r) ==
  /\ r \in DOMAIN requests
  /\ requests' = Delete(requests, r)
  /\ UNCHANGED <<members, roles, grants, assigned, moved>>

Next ==
  \/ \E m \in Membership : SetActive(m)
  \/ \E r \in Request, role \in Role, row \in RoleRow, s \in SUBSET Permission :
        EditRoleAsPlatform(r, role, row, s) \/ EditRoleAsManager(r, role, row, s)
  \/ \E r \in Request, m \in Membership, s \in SUBSET Role :
        EditMemberAsPlatform(r, m, s) \/ EditMemberAsManager(r, m, s)
  \/ \E r \in Request, item \in Permission \cup Role : CreateSelected(r, item)
  \/ \E r \in Request : \/ SaveRole(r) \/ ReadGrants(r) \/ ReplaceGrants(r)
                        \/ DeleteOthers(r) \/ Finish(r) \/ Abort(r)

Spec == Init /\ [][Next]_vars

-----------------------------------------------------------------------------
TypeOK ==
  /\ members \subseteq Membership
  /\ IsTable(roles, Role, RoleRow)
  /\ IsTable(grants, Role \X Permission, Scope)
  /\ assigned \subseteq Membership \X Role
  /\ IsTable(requests, Request, Edit)
  /\ moved \subseteq Role

SelectionOf(owner) ==
  IF owner \in Role THEN PermissionsOf(owner)
                    ELSE {role \in Role : <<owner, role>> \in assigned}

(***************************************************************************)
(* An edit that overlapped with no other edit of the same role or member   *)
(* leaves exactly what it selected, whatever edits that died half-way left *)
(* before, and whatever happens to the offered roles meanwhile             *)
(* (TenantRoleForm.save, TenantMembershipForm.save).                       *)
(***************************************************************************)
EditLeavesSelection ==
  [][\A r \in DOMAIN requests :
       Finish(r) /\ requests[r].alone => SelectionOf(requests[r].owner) = requests[r].selection]_vars

(***************************************************************************)
(* A member holds roles of the own organization only, unless the platform  *)
(* form moved the role: the forms read the roles long before they assign   *)
(* them (MembershipRole.clean).                                            *)
(***************************************************************************)
AssignedWithinTenant ==
  \A a \in assigned : a[2] \in moved \/ roles[a[2]].tenant = a[1][1]

(***************************************************************************)
(* permission_for "resolves a user's strongest active grant": it never     *)
(* meets scopes that it cannot compare.  Violated by two roles that were   *)
(* saved through the role form.                                            *)
(***************************************************************************)
StrongestGrantResolved ==
  \A u \in User, t \in Tenant, p \in Permission :
    <<t, u>> \in members => Comparable(RolesGranting(u, t, p), p)
=============================================================================
