-------------------------- MODULE RoleGrantsProofs --------------------------
(***************************************************************************)
(* Theorems about RoleGrants for every set of organizations, people,       *)
(* roles, permissions and requests.                                        *)
(***************************************************************************)
EXTENDS RoleGrants, TLAPS

(* What an edit still has to write fits its owner.  TypeOK is inductive    *)
(* only together with this.                                                *)
RoleEdit(e) ==
  /\ e.owner \in Role
  /\ e.at = "save" => e.row \in RoleRow
  /\ e.selection \subseteq Permission
  /\ e.todo \subseteq Permission

MemberEdit(e) ==
  /\ e.owner \in Membership
  /\ e.at \in {"delete", "create"}
  /\ e.todo \subseteq Role

EditsFit == \A r \in DOMAIN requests : RoleEdit(requests[r]) \/ MemberEdit(requests[r])

Typed == TypeOK /\ EditsFit

(* A role that m may hold: it exists, and is of the organization of m or   *)
(* was moved.                                                              *)
Within(role, m) ==
  /\ role \in DOMAIN roles
  /\ role \in moved \/ roles[role].tenant = m[1]

(* The roles that an edit has read and not yet assigned are within the     *)
(* organization as well, although the platform may move them meanwhile.    *)
Confined ==
  /\ \A a \in assigned : Within(a[2], a[1])
  /\ \A r \in DOMAIN requests :
       requests[r].owner \in Membership =>
         \A role \in requests[r].todo : Within(role, requests[r].owner)

-----------------------------------------------------------------------------
(* A row written into a typed table leaves it typed. *)
LEMMA PutTyped ==
  ASSUME NEW table, NEW Key, NEW Row, IsTable(table, Key, Row),
         NEW key \in Key, NEW row \in Row
  PROVE  IsTable(Put(table, key, row), Key, Row)
  BY DEF IsTable, Put

LEMMA DeleteTyped ==
  ASSUME NEW table, NEW Key, NEW Row, IsTable(table, Key, Row), NEW key
  PROVE  IsTable(Delete(table, key), Key, Row)
  BY DEF IsTable, Delete

(* The rows of the tables of requests. *)
LEMMA EditTypes ==
  ASSUME Typed, NEW r \in DOMAIN requests
  PROVE  /\ r \in Request
         /\ requests[r] \in Edit
         /\ RoleEdit(requests[r]) \/ MemberEdit(requests[r])
  BY DEF Typed, TypeOK, IsTable, EditsFit

-----------------------------------------------------------------------------
(* A request that goes on leaves the other requests alone, keeps its owner *)
(* and selection, and has no more to do than before.                       *)
LEMMA ProceedKeeps ==
  ASSUME Typed, NEW r \in DOMAIN requests,
         NEW at \in {"read", "replace", "delete", "create"}, NEW old \in SUBSET Permission,
         NEW todo \in SUBSET requests[r].todo,
         MemberEdit(requests[r]) => at \in {"delete", "create"},
         Proceed(r, at, old, todo)
  PROVE  /\ IsTable(requests', Request, Edit)
         /\ EditsFit'
         /\ \A q \in DOMAIN requests' : /\ q \in DOMAIN requests
                                        /\ requests'[q].owner = requests[q].owner
                                        /\ requests'[q].todo \subseteq requests[q].todo
  <1> DEFINE next == [requests[r] EXCEPT !.at = at, !.old = old, !.todo = todo]
  <1>1. r \in Request /\ requests[r] \in Edit
    BY EditTypes
  <1>2. todo \in SUBSET (Permission \cup Role)
    BY <1>1 DEF Edit
  <1>3. next \in Edit
    BY <1>1, <1>2 DEF Edit
  <1>4. /\ next.owner = requests[r].owner /\ next.at = at /\ next.todo = todo
        /\ next.selection = requests[r].selection
    BY <1>1 DEF Edit
  <1>5. RoleEdit(next) \/ MemberEdit(next)
    BY <1>4, EditTypes DEF RoleEdit, MemberEdit
  <1> HIDE DEF next
  <1>6. requests' = Put(requests, r, next)
    BY DEF Proceed, next
  <1>7. IsTable(requests, Request, Edit)
    BY DEF Typed, TypeOK
  <1>8. IsTable(requests', Request, Edit)
    BY <1>1, <1>3, <1>6, <1>7, PutTyped
  <1>9. /\ DOMAIN requests' = DOMAIN requests
        /\ requests'[r] = next
        /\ \A q \in DOMAIN requests : q # r => requests'[q] = requests[q]
    BY <1>6 DEF Put
  <1>10. EditsFit'
    BY <1>5, <1>9, EditTypes DEF EditsFit
  <1>11. QED
    BY <1>4, <1>8, <1>9, <1>10

(* So does one that ends. *)
LEMMA EndKeeps ==
  ASSUME Typed, NEW r, requests' = Delete(requests, r)
  PROVE  /\ IsTable(requests', Request, Edit)
         /\ EditsFit'
         /\ \A q \in DOMAIN requests' : q \in DOMAIN requests /\ requests'[q] = requests[q]
  <1>1. IsTable(requests, Request, Edit)
    BY DEF Typed, TypeOK
  <1>2. IsTable(requests', Request, Edit)
    BY <1>1, DeleteTyped
  <1>3. \A q \in DOMAIN requests' : q \in DOMAIN requests /\ requests'[q] = requests[q]
    BY DEF Delete
  <1>4. EditsFit'
    BY <1>3, EditTypes DEF EditsFit
  <1>5. QED
    BY <1>2, <1>3, <1>4

(* A request that starts leaves those before it as they are, but for alone. *)
LEMMA StartKeeps ==
  ASSUME Typed, NEW r \in Request, NEW at \in {"save", "delete"}, NEW owner \in Owner,
         NEW row \in RoleRow \cup {NoRow}, NEW selection \in SUBSET (Permission \cup Role),
         \/ (owner \in Role /\ row \in RoleRow /\ selection \subseteq Permission)
         \/ (owner \in Membership /\ at = "delete" /\ selection \subseteq Role),
         StartEdit(r, at, owner, row, selection)
  PROVE  /\ IsTable(requests', Request, Edit)
         /\ EditsFit'
         /\ requests'[r].owner = owner /\ requests'[r].todo = selection
         /\ \A q \in DOMAIN requests' : \/ q = r
                                        \/ /\ q \in DOMAIN requests
                                           /\ requests'[q].owner = requests[q].owner
                                           /\ requests'[q].todo = requests[q].todo
  <1> DEFINE before == [q \in DOMAIN requests |->
                          IF q \in EditsOf(owner) THEN [requests[q] EXCEPT !.alone = FALSE]
                                                  ELSE requests[q]]
             new == [at |-> at, owner |-> owner, row |-> row, selection |-> selection,
                     old |-> {}, todo |-> selection, alone |-> EditsOf(owner) = {}]
  <1>1. ASSUME NEW q \in DOMAIN requests
        PROVE  /\ before[q] \in Edit
               /\ before[q].owner = requests[q].owner
               /\ before[q].todo = requests[q].todo
               /\ RoleEdit(before[q]) \/ MemberEdit(before[q])
    <2>1. requests[q] \in Edit
      BY EditTypes
    <2>2. /\ before[q] \in Edit
          /\ before[q].owner = requests[q].owner
          /\ before[q].todo = requests[q].todo
          /\ before[q].at = requests[q].at
          /\ before[q].row = requests[q].row
          /\ before[q].selection = requests[q].selection
      BY <2>1 DEF Edit
    <2>3. QED
      BY <2>2, EditTypes DEF RoleEdit, MemberEdit
  <1>2. new \in Edit
    BY DEF Edit
  <1>3. RoleEdit(new) \/ MemberEdit(new)
    BY DEF RoleEdit, MemberEdit
  <1>4. DOMAIN before = DOMAIN requests /\ before = [q \in DOMAIN requests |-> before[q]]
    OBVIOUS
  <1>5. new.owner = owner /\ new.todo = selection
    OBVIOUS
  <1>6. requests' = Put(before, r, new)
    BY DEF StartEdit
  <1>7. DOMAIN requests \subseteq Request
    BY DEF Typed, TypeOK, IsTable
  <1> HIDE DEF before, new
  <1>8. IsTable(before, Request, Edit)
    BY <1>1, <1>4, <1>7 DEF IsTable
  <1>9. IsTable(requests', Request, Edit)
    BY <1>2, <1>6, <1>8, PutTyped
  <1>10. /\ requests'[r] = new
         /\ \A q \in DOMAIN requests' : q = r \/ (q \in DOMAIN requests /\ requests'[q] = before[q])
    BY <1>4, <1>6 DEF Put
  <1>11. EditsFit'
    BY <1>1, <1>3, <1>10 DEF EditsFit
  <1>12. QED
    BY <1>1, <1>5, <1>9, <1>10, <1>11

-----------------------------------------------------------------------------
Inv == Typed /\ Confined

(* A step that leaves the roles alone, assigns nothing and gives no request *)
(* more to do keeps the assignments confined.                              *)
LEMMA ConfinedFrame ==
  ASSUME Confined, roles' = roles, moved' = moved, assigned' \subseteq assigned,
         \A q \in DOMAIN requests' : /\ q \in DOMAIN requests
                                     /\ requests'[q].owner = requests[q].owner
                                     /\ requests'[q].todo \subseteq requests[q].todo
  PROVE  Confined'
  BY DEF Confined, Within

LEMMA SetActiveInv ==
  ASSUME Inv, NEW m \in Membership, SetActive(m)
  PROVE  Inv'
  <1>1. /\ members' \subseteq Membership
        /\ UNCHANGED <<roles, grants, assigned, requests, moved>>
    BY DEF SetActive, Inv, Typed, TypeOK
  <1>2. Typed'
    BY <1>1 DEF Inv, Typed, TypeOK, EditsFit
  <1>3. Confined'
    BY <1>1, ConfinedFrame DEF Inv
  <1>4. QED
    BY <1>2, <1>3 DEF Inv

LEMMA StartRoleInv ==
  ASSUME Inv, NEW r \in Request, NEW role \in Role, NEW row \in RoleRow,
         NEW s \in SUBSET Permission, StartEdit(r, "save", role, row, s)
  PROVE  Inv'
  <1>1. UNCHANGED <<members, roles, grants, assigned, moved>>
    BY DEF StartEdit
  <1>2. /\ IsTable(requests', Request, Edit)
        /\ EditsFit'
        /\ requests'[r].owner = role
        /\ \A q \in DOMAIN requests' : \/ q = r
                                       \/ /\ q \in DOMAIN requests
                                          /\ requests'[q].owner = requests[q].owner
                                          /\ requests'[q].todo = requests[q].todo
    BY StartKeeps DEF Inv, Owner
  <1>3. Typed'
    BY <1>1, <1>2 DEF Inv, Typed, TypeOK
  <1>4. role \notin Membership
    BY OwnersAssumption DEF Membership
  <1>5. Confined'
    BY <1>1, <1>2, <1>4 DEF Inv, Confined, Within
  <1>6. QED
    BY <1>3, <1>5 DEF Inv

LEMMA StartMemberInv ==
  ASSUME Inv, NEW r \in Request, NEW m \in Membership, NEW s \in SUBSET Role,
         s \subseteq Offered(m[1]), StartEdit(r, "delete", m, NoRow, s)
  PROVE  Inv'
  <1>1. UNCHANGED <<members, roles, grants, assigned, moved>>
    BY DEF StartEdit
  <1>2. /\ IsTable(requests', Request, Edit)
        /\ EditsFit'
        /\ requests'[r].owner = m /\ requests'[r].todo = s
        /\ \A q \in DOMAIN requests' : \/ q = r
                                       \/ /\ q \in DOMAIN requests
                                          /\ requests'[q].owner = requests[q].owner
                                          /\ requests'[q].todo = requests[q].todo
    BY StartKeeps DEF Inv, Owner
  <1>3. Typed'
    BY <1>1, <1>2 DEF Inv, Typed, TypeOK
  <1>4. \A role \in s : Within(role, m)
    BY DEF Offered, Within
  <1>5. Confined'
    BY <1>1, <1>2, <1>4 DEF Inv, Confined, Within
  <1>6. QED
    BY <1>3, <1>5 DEF Inv

(* Saving a role with another organization is what moved records. *)
LEMMA SaveRoleInv ==
  ASSUME Inv, NEW r \in Request, SaveRole(r)
  PROVE  Inv'
  <1> DEFINE role == requests[r].owner
             row  == requests[r].row
  <1>1. r \in DOMAIN requests /\ requests[r].at = "save"
    BY DEF SaveRole, Editing
  <1>2. role \in Role /\ row \in RoleRow /\ ~MemberEdit(requests[r])
    BY <1>1, EditTypes DEF Inv, RoleEdit, MemberEdit
  <1>3. Proceed(r, "read", {}, requests[r].todo)
    BY DEF SaveRole
  <1>4. /\ IsTable(requests', Request, Edit)
        /\ EditsFit'
        /\ \A q \in DOMAIN requests' : /\ q \in DOMAIN requests
                                       /\ requests'[q].owner = requests[q].owner
                                       /\ requests'[q].todo \subseteq requests[q].todo
    BY <1>1, <1>2, <1>3, ProceedKeeps DEF Inv
  <1>5. /\ roles' = Put(roles, role, row)
        /\ moved' = IF role \in DOMAIN roles /\ roles[role].tenant # row.tenant
                    THEN moved \cup {role} ELSE moved
        /\ UNCHANGED <<members, grants, assigned>>
    BY DEF SaveRole
  <1>6. IsTable(roles, Role, RoleRow) /\ moved \subseteq Role
    BY DEF Inv, Typed, TypeOK
  <1> HIDE DEF role, row
  <1>7. IsTable(roles', Role, RoleRow)
    BY <1>2, <1>5, <1>6, PutTyped
  <1>8. moved' \subseteq Role
    BY <1>2, <1>5, <1>6
  <1>9. Typed'
    BY <1>4, <1>5, <1>7, <1>8 DEF Inv, Typed, TypeOK
  <1>10. ASSUME NEW held, NEW m, Within(held, m)
         PROVE  Within(held, m)'
    <2>1. held \in DOMAIN roles'
      BY <1>5, <1>10 DEF Within, Put
    <2>2. CASE held # role
      <3>1. roles'[held] = roles[held]
        BY <1>5, <1>10, <2>2 DEF Within, Put
      <3>2. QED
        BY <1>5, <1>10, <2>1, <3>1 DEF Within
    <2>3. CASE held = role
      <3>1. roles'[held] = row
        BY <1>5, <2>3 DEF Put
      <3>2. QED
        BY <1>5, <1>10, <2>1, <2>3, <3>1 DEF Within
    <2>4. QED
      BY <2>2, <2>3
  <1>11. Confined'
    BY <1>4, <1>5, <1>10 DEF Inv, Confined
  <1>12. QED
    BY <1>9, <1>11 DEF Inv

LEMMA ReadGrantsInv ==
  ASSUME Inv, NEW r \in Request, ReadGrants(r)
  PROVE  Inv'
  <1> DEFINE old == PermissionsOf(requests[r].owner)
  <1>1. /\ r \in DOMAIN requests /\ requests[r].at = "read"
        /\ Proceed(r, "replace", old, requests[r].todo)
        /\ UNCHANGED <<members, roles, grants, assigned, moved>>
    BY DEF ReadGrants, Editing
  <1>2. old \in SUBSET Permission
    BY DEF PermissionsOf
  <1>3. ~MemberEdit(requests[r])
    BY <1>1 DEF MemberEdit
  <1> HIDE DEF old
  <1>4. /\ IsTable(requests', Request, Edit)
        /\ EditsFit'
        /\ \A q \in DOMAIN requests' : /\ q \in DOMAIN requests
                                       /\ requests'[q].owner = requests[q].owner
                                       /\ requests'[q].todo \subseteq requests[q].todo
    BY <1>1, <1>2, <1>3, ProceedKeeps DEF Inv
  <1>5. Typed'
    BY <1>1, <1>4 DEF Inv, Typed, TypeOK
  <1>6. Confined'
    BY <1>1, <1>4, ConfinedFrame DEF Inv
  <1>7. QED
    BY <1>5, <1>6 DEF Inv

LEMMA ReplaceGrantsInv ==
  ASSUME Inv, NEW r \in Request, ReplaceGrants(r)
  PROVE  Inv'
  <1> DEFINE removed == {requests[r].owner} \X (requests[r].old \ requests[r].selection)
             added   == {requests[r].owner} \X (requests[r].selection \ requests[r].old)
  <1>1. /\ r \in DOMAIN requests /\ requests[r].at = "replace"
        /\ grants' = [g \in (DOMAIN grants \ removed) \cup added |->
                         IF g \in DOMAIN grants THEN grants[g] ELSE "blank"]
        /\ Proceed(r, "delete", {}, requests[r].todo)
        /\ UNCHANGED <<members, roles, assigned, moved>>
    BY DEF ReplaceGrants, Editing
  <1>2. RoleEdit(requests[r])
    BY <1>1, EditTypes DEF Inv, MemberEdit
  <1>3. added \subseteq Role \X Permission
    BY <1>2 DEF RoleEdit
  <1>4. IsTable(grants, Role \X Permission, Scope)
    BY DEF Inv, Typed, TypeOK
  <1> HIDE DEF removed, added
  <1>5. IsTable(grants', Role \X Permission, Scope)
    BY <1>1, <1>3, <1>4 DEF IsTable, Scope
  <1>6. /\ IsTable(requests', Request, Edit)
        /\ EditsFit'
        /\ \A q \in DOMAIN requests' : /\ q \in DOMAIN requests
                                       /\ requests'[q].owner = requests[q].owner
                                       /\ requests'[q].todo \subseteq requests[q].todo
    BY <1>1, ProceedKeeps DEF Inv
  <1>7. Typed'
    BY <1>1, <1>5, <1>6 DEF Inv, Typed, TypeOK
  <1>8. Confined'
    BY <1>1, <1>6, ConfinedFrame DEF Inv
  <1>9. QED
    BY <1>7, <1>8 DEF Inv

LEMMA DeleteOthersInv ==
  ASSUME Inv, NEW r \in Request, DeleteOthers(r)
  PROVE  Inv'
  <1>1. /\ r \in DOMAIN requests
        /\ Proceed(r, "create", {}, requests[r].todo)
        /\ UNCHANGED <<members, roles, moved>>
        /\ assigned' \subseteq assigned
    BY DEF DeleteOthers, Editing
  <1>2. IsTable(grants, Role \X Permission, Scope) /\ assigned \subseteq Membership \X Role
    BY DEF Inv, Typed, TypeOK
  <1>3. IsTable(grants', Role \X Permission, Scope)
    BY <1>2 DEF DeleteOthers, IsTable
  <1>4. /\ IsTable(requests', Request, Edit)
        /\ EditsFit'
        /\ \A q \in DOMAIN requests' : /\ q \in DOMAIN requests
                                       /\ requests'[q].owner = requests[q].owner
                                       /\ requests'[q].todo \subseteq requests[q].todo
    BY <1>1, ProceedKeeps DEF Inv
  <1>5. Typed'
    BY <1>1, <1>2, <1>3, <1>4 DEF Inv, Typed, TypeOK
  <1>6. Confined'
    BY <1>1, <1>4, ConfinedFrame DEF Inv
  <1>7. QED
    BY <1>5, <1>6 DEF Inv

(* The role assigned is one the edit has read: Confined says it may be.    *)
LEMMA CreateSelectedInv ==
  ASSUME Inv, NEW r \in Request, NEW item, CreateSelected(r, item)
  PROVE  Inv'
  <1> DEFINE owner == requests[r].owner
             link  == <<owner, item>>
  <1>1. /\ r \in DOMAIN requests
        /\ item \in requests[r].todo
        /\ Proceed(r, "create", {}, requests[r].todo \ {item})
        /\ UNCHANGED <<members, roles, moved>>
    BY DEF CreateSelected, Editing
  <1>2. /\ IsTable(grants, Role \X Permission, Scope)
        /\ assigned \subseteq Membership \X Role
    BY DEF Inv, Typed, TypeOK
  <1>3. /\ IsTable(requests', Request, Edit)
        /\ EditsFit'
        /\ \A q \in DOMAIN requests' : /\ q \in DOMAIN requests
                                       /\ requests'[q].owner = requests[q].owner
                                       /\ requests'[q].todo \subseteq requests[q].todo
    BY <1>1, ProceedKeeps DEF Inv
  <1>4. CASE owner \in Role
    <2>1. owner \notin Membership
      BY <1>4, OwnersAssumption DEF Membership
    <2>2. /\ grants' = IF link \in DOMAIN grants THEN grants ELSE Put(grants, link, "default")
          /\ UNCHANGED assigned
      BY <2>1 DEF CreateSelected
    <2>3. item \in Permission
      BY <1>1, <2>1, EditTypes DEF Inv, RoleEdit, MemberEdit
    <2>4. link \in Role \X Permission /\ "default" \in Scope
      BY <1>4, <2>3 DEF Scope
    <2> HIDE DEF link
    <2>5. IsTable(grants', Role \X Permission, Scope)
      BY <1>2, <2>2, <2>4, PutTyped
    <2>6. Typed'
      BY <1>1, <1>2, <1>3, <2>2, <2>5 DEF Inv, Typed, TypeOK
    <2>7. Confined'
      BY <1>1, <1>3, <2>2, ConfinedFrame DEF Inv
    <2>8. QED
      BY <2>6, <2>7 DEF Inv
  <1>5. CASE owner \in Membership
    <2>1. owner \notin Role
      BY <1>5, OwnersAssumption DEF Membership
    <2>2. assigned' = assigned \cup {link} /\ UNCHANGED grants
      BY <2>1 DEF CreateSelected
    <2>3. item \in Role
      BY <1>1, <2>1, EditTypes DEF Inv, RoleEdit, MemberEdit
    <2>4. Typed'
      BY <1>1, <1>2, <1>3, <1>5, <2>2, <2>3 DEF Inv, Typed, TypeOK
    <2>5. Within(item, owner)
      BY <1>1, <1>5 DEF Inv, Confined
    <2>6. Confined'
      BY <1>1, <1>3, <2>2, <2>5 DEF Inv, Confined, Within
    <2>7. QED
      BY <2>4, <2>6 DEF Inv
  <1>6. QED
    BY <1>1, <1>4, <1>5, EditTypes DEF Inv, RoleEdit, MemberEdit

LEMMA EndInv ==
  ASSUME Inv, NEW r \in Request, Finish(r) \/ Abort(r)
  PROVE  Inv'
  <1>1. /\ requests' = Delete(requests, r)
        /\ UNCHANGED <<members, roles, grants, assigned, moved>>
    BY DEF Finish, Abort
  <1>2. /\ IsTable(requests', Request, Edit)
        /\ EditsFit'
        /\ \A q \in DOMAIN requests' : q \in DOMAIN requests /\ requests'[q] = requests[q]
    BY <1>1, EndKeeps DEF Inv
  <1>3. Typed'
    BY <1>1, <1>2 DEF Inv, Typed, TypeOK
  <1>4. Confined'
    BY <1>1, <1>2, ConfinedFrame DEF Inv
  <1>5. QED
    BY <1>3, <1>4 DEF Inv

-----------------------------------------------------------------------------
LEMMA InitInv == Init => Inv
  BY DEF Init, Inv, Typed, TypeOK, EditsFit, Confined, IsTable, Empty

LEMMA NextInv == Inv /\ [Next]_vars => Inv'
  <1> SUFFICES ASSUME Inv, [Next]_vars PROVE Inv'
    OBVIOUS
  <1>1. ASSUME NEW m \in Membership, SetActive(m) PROVE Inv'
    BY <1>1, SetActiveInv
  <1>2. ASSUME NEW r \in Request, NEW role \in Role, NEW row \in RoleRow,
               NEW s \in SUBSET Permission,
               EditRoleAsPlatform(r, role, row, s) \/ EditRoleAsManager(r, role, row, s)
        PROVE  Inv'
    <2>1. StartEdit(r, "save", role, row, s)
      BY <1>2 DEF EditRoleAsPlatform, EditRoleAsManager
    <2>2. QED
      BY <2>1, StartRoleInv
  <1>3. ASSUME NEW r \in Request, NEW m \in Membership, NEW s \in SUBSET Role,
               EditMemberAsPlatform(r, m, s) \/ EditMemberAsManager(r, m, s)
        PROVE  Inv'
    <2>1. s \subseteq Offered(m[1]) /\ StartEdit(r, "delete", m, NoRow, s)
      BY <1>3 DEF EditMemberAsPlatform, EditMemberAsManager
    <2>2. QED
      BY <2>1, StartMemberInv
  <1>4. ASSUME NEW r \in Request, NEW item \in Permission \cup Role, CreateSelected(r, item)
        PROVE  Inv'
    BY <1>4, CreateSelectedInv
  <1>5. ASSUME NEW r \in Request, SaveRole(r) PROVE Inv'
    BY <1>5, SaveRoleInv
  <1>6. ASSUME NEW r \in Request, ReadGrants(r) PROVE Inv'
    BY <1>6, ReadGrantsInv
  <1>7. ASSUME NEW r \in Request, ReplaceGrants(r) PROVE Inv'
    BY <1>7, ReplaceGrantsInv
  <1>8. ASSUME NEW r \in Request, DeleteOthers(r) PROVE Inv'
    BY <1>8, DeleteOthersInv
  <1>9. ASSUME NEW r \in Request, Finish(r) \/ Abort(r) PROVE Inv'
    BY <1>9, EndInv
  <1>10. CASE UNCHANGED vars
    BY <1>10 DEF vars, Inv, Typed, TypeOK, EditsFit, Confined, Within
  <1>11. QED
    BY <1>1, <1>2, <1>3, <1>4, <1>5, <1>6, <1>7, <1>8, <1>9, <1>10 DEF Next

LEMMA InvHolds == Spec => []Inv
  BY InitInv, NextInv, PTL DEF Spec

(* Every reachable state is well typed. *)
THEOREM TypeCorrect == Spec => []TypeOK
  <1>1. Inv => TypeOK
    BY DEF Inv, Typed
  <1>2. QED
    BY <1>1, InvHolds, PTL

(***************************************************************************)
(* A member holds roles of the own organization or roles that were moved:  *)
(* however many forms read roles before they assign them, and whatever the *)
(* platform does to those roles in between (MembershipRole.clean).         *)
(***************************************************************************)
THEOREM RolesStayWithin == Spec => []AssignedWithinTenant
  <1>1. Inv => AssignedWithinTenant
    BY DEF Inv, Confined, Within, AssignedWithinTenant
  <1>2. QED
    BY <1>1, InvHolds, PTL

-----------------------------------------------------------------------------
(***************************************************************************)
(* Why an edit that was alone leaves what it selected: nobody else touches *)
(* what its owner has, so once the others are deleted the owner has the    *)
(* selection but for what is still to do.                                  *)
(***************************************************************************)
Progress(r) ==
  LET e == requests[r]
  IN /\ e.todo \subseteq e.selection
     /\ e.at # "create" => e.todo = e.selection
     /\ e.alone /\ e.at = "create" => /\ SelectionOf(e.owner) \subseteq e.selection
                                     /\ e.selection \ e.todo \subseteq SelectionOf(e.owner)

NobodyElse(r) ==
  requests[r].alone =>
    \A q \in DOMAIN requests : q # r => requests[q].owner # requests[r].owner

Alone == \A r \in DOMAIN requests : Progress(r) /\ NobodyElse(r)

AloneInv == Inv /\ Alone

LEMMA ProceedRow ==
  ASSUME Typed, NEW r \in DOMAIN requests, NEW at, NEW old, NEW todo,
         Proceed(r, at, old, todo)
  PROVE  /\ DOMAIN requests' = DOMAIN requests
         /\ \A q \in DOMAIN requests : q # r => requests'[q] = requests[q]
         /\ requests'[r].owner = requests[r].owner
         /\ requests'[r].selection = requests[r].selection
         /\ requests'[r].alone = requests[r].alone
         /\ requests'[r].at = at
         /\ requests'[r].todo = todo
  <1> DEFINE next == [requests[r] EXCEPT !.at = at, !.old = old, !.todo = todo]
  <1>1. requests[r] \in Edit
    BY EditTypes
  <1>2. /\ next.owner = requests[r].owner /\ next.at = at /\ next.todo = todo
        /\ next.selection = requests[r].selection /\ next.alone = requests[r].alone
    BY <1>1 DEF Edit
  <1>3. requests' = Put(requests, r, next)
    BY DEF Proceed
  <1> HIDE DEF next
  <1>4. QED
    BY <1>2, <1>3 DEF Put

(* A step of r that changes what only the owner of r has disturbs no other *)
(* edit that is alone.                                                     *)
LEMMA AloneFrame ==
  ASSUME Alone, NEW r \in DOMAIN requests,
         DOMAIN requests' = DOMAIN requests,
         \A q \in DOMAIN requests : q # r => requests'[q] = requests[q],
         requests'[r].owner = requests[r].owner,
         requests'[r].alone = requests[r].alone,
         \A q \in DOMAIN requests :
           requests[q].owner # requests[r].owner =>
             SelectionOf(requests[q].owner)' = SelectionOf(requests[q].owner),
         Progress(r)'
  PROVE  Alone'
  <1>1. ASSUME NEW q \in DOMAIN requests, q # r
        PROVE  Progress(q)'
    <2>1. Progress(q) /\ NobodyElse(q) /\ requests'[q] = requests[q]
      BY <1>1 DEF Alone
    <2>2. CASE requests[q].alone
      <3>1. SelectionOf(requests[q].owner)' = SelectionOf(requests[q].owner)
        BY <1>1, <2>1, <2>2 DEF NobodyElse
      <3> DEFINE has == SelectionOf(requests[q].owner)
      <3>2. has' = has
        BY <3>1
      <3>3. /\ requests[q].todo \subseteq requests[q].selection
            /\ requests[q].at # "create" => requests[q].todo = requests[q].selection
            /\ requests[q].at = "create" =>
                 /\ has \subseteq requests[q].selection
                 /\ requests[q].selection \ requests[q].todo \subseteq has
        BY <2>1, <2>2 DEF Progress
      <3>4. QED
        BY <2>1, <3>1, <3>3 DEF Progress
    <2>3. CASE ~requests[q].alone
      BY <2>1, <2>3 DEF Progress
    <2>4. QED
      BY <2>2, <2>3
  <1>2. \A q \in DOMAIN requests : NobodyElse(q)'
    BY DEF Alone, NobodyElse
  <1>3. QED
    BY <1>1, <1>2 DEF Alone

LEMMA SetActiveAlone ==
  ASSUME AloneInv, NEW m \in Membership, SetActive(m)
  PROVE  Alone'
  BY DEF AloneInv, Alone, SetActive, Progress, NobodyElse, SelectionOf, PermissionsOf

(* Starting an edit tells the others of the same owner that they overlap.  *)
LEMMA StartAlone ==
  ASSUME AloneInv, NEW r \in Request, NEW at \in {"save", "delete"}, NEW owner, NEW row,
         NEW selection, StartEdit(r, at, owner, row, selection)
  PROVE  Alone'
  <1> DEFINE before == [q \in DOMAIN requests |->
                          IF q \in EditsOf(owner) THEN [requests[q] EXCEPT !.alone = FALSE]
                                                  ELSE requests[q]]
             new == [at |-> at, owner |-> owner, row |-> row, selection |-> selection,
                     old |-> {}, todo |-> selection, alone |-> EditsOf(owner) = {}]
  <1>1. /\ r \notin DOMAIN requests
        /\ requests' = Put(before, r, new)
        /\ UNCHANGED <<grants, assigned>>
    BY DEF StartEdit
  <1>2. Typed /\ Alone
    BY DEF AloneInv, Inv
  <1>3. ASSUME NEW q \in DOMAIN requests
        PROVE  /\ before[q].owner = requests[q].owner
               /\ before[q].at = requests[q].at
               /\ before[q].todo = requests[q].todo
               /\ before[q].selection = requests[q].selection
               /\ before[q].alone => requests[q].alone /\ requests[q].owner # owner
    <2>1. requests[q] \in Edit
      BY <1>2, EditTypes
    <2>2. QED
      BY <2>1 DEF Edit, EditsOf
  <1>4. /\ new.owner = owner /\ new.at = at /\ new.todo = selection
        /\ new.selection = selection
        /\ new.alone => \A q \in DOMAIN requests : requests[q].owner # owner
    BY DEF EditsOf
  <1>5. DOMAIN before = DOMAIN requests
    OBVIOUS
  <1> HIDE DEF before, new
  <1>6. /\ DOMAIN requests' = DOMAIN requests \cup {r}
        /\ requests'[r] = new
        /\ \A q \in DOMAIN requests : requests'[q] = before[q]
    BY <1>1, <1>5 DEF Put
  <1>7. \A q \in DOMAIN requests : Progress(q)'
    <2> SUFFICES ASSUME NEW q \in DOMAIN requests PROVE Progress(q)'
      OBVIOUS
    <2>1. Progress(q) /\ requests'[q] = before[q]
      BY <1>2, <1>6 DEF Alone
    <2>2. SelectionOf(requests[q].owner)' = SelectionOf(requests[q].owner)
      BY <1>1, <1>3, <1>6 DEF SelectionOf, PermissionsOf
    <2> DEFINE has == SelectionOf(requests[q].owner)
    <2>3. has' = has
      BY <2>2
    <2>4. before[q].alone /\ before[q].at = "create" =>
            /\ has \subseteq before[q].selection
            /\ before[q].selection \ before[q].todo \subseteq has
      BY <1>3, <2>1 DEF Progress
    <2>5. /\ before[q].todo \subseteq before[q].selection
          /\ before[q].at # "create" => before[q].todo = before[q].selection
      BY <1>3, <2>1 DEF Progress
    <2>6. QED
      BY <2>1, <2>2, <2>4, <2>5 DEF Progress
  <1>8. Progress(r)'
    BY <1>4, <1>6 DEF Progress
  <1>9. \A q \in DOMAIN requests' : NobodyElse(q)'
    BY <1>2, <1>3, <1>4, <1>6 DEF Alone, NobodyElse
  <1>10. QED
    BY <1>6, <1>7, <1>8, <1>9 DEF Alone

(* The steps that change no permission and no role of anybody. *)
LEMMA SaveAlone ==
  ASSUME AloneInv, NEW r \in Request, SaveRole(r) \/ ReadGrants(r)
  PROVE  Alone'
  <1>1. PICK at, old : /\ r \in DOMAIN requests /\ requests[r].at # "create"
                       /\ at # "create" /\ Proceed(r, at, old, requests[r].todo)
                       /\ UNCHANGED <<grants, assigned>>
    BY DEF SaveRole, ReadGrants, Editing
  <1>2. /\ DOMAIN requests' = DOMAIN requests
        /\ \A q \in DOMAIN requests : q # r => requests'[q] = requests[q]
        /\ requests'[r].owner = requests[r].owner
        /\ requests'[r].selection = requests[r].selection
        /\ requests'[r].alone = requests[r].alone
        /\ requests'[r].at = at
        /\ requests'[r].todo = requests[r].todo
    BY <1>1, ProceedRow DEF AloneInv, Inv
  <1>3. Progress(r)'
    BY <1>1, <1>2 DEF AloneInv, Alone, Progress
  <1>4. \A q \in DOMAIN requests :
          requests[q].owner # requests[r].owner =>
            SelectionOf(requests[q].owner)' = SelectionOf(requests[q].owner)
    BY <1>1, <1>2 DEF SelectionOf, PermissionsOf
  <1>5. QED
    BY <1>1, <1>2, <1>3, <1>4, AloneFrame DEF AloneInv

LEMMA ReplaceAlone ==
  ASSUME AloneInv, NEW r \in Request, ReplaceGrants(r)
  PROVE  Alone'
  <1> DEFINE owner == requests[r].owner
             removed == {owner} \X (requests[r].old \ requests[r].selection)
             added   == {owner} \X (requests[r].selection \ requests[r].old)
  <1>1. /\ r \in DOMAIN requests /\ requests[r].at = "replace"
        /\ DOMAIN grants' = (DOMAIN grants \ removed) \cup added
        /\ Proceed(r, "delete", {}, requests[r].todo)
        /\ UNCHANGED assigned
    BY DEF ReplaceGrants, Editing
  <1>2. /\ DOMAIN requests' = DOMAIN requests
        /\ \A q \in DOMAIN requests : q # r => requests'[q] = requests[q]
        /\ requests'[r].owner = requests[r].owner
        /\ requests'[r].selection = requests[r].selection
        /\ requests'[r].alone = requests[r].alone
        /\ requests'[r].at = "delete"
        /\ requests'[r].todo = requests[r].todo
    BY <1>1, ProceedRow DEF AloneInv, Inv
  <1>3. Progress(r)'
    BY <1>1, <1>2 DEF AloneInv, Alone, Progress
  <1>4. ASSUME NEW other, other # owner, NEW p
        PROVE  <<other, p>> \in DOMAIN grants' <=> <<other, p>> \in DOMAIN grants
    BY <1>1, <1>4
  <1>5. ASSUME NEW q \in DOMAIN requests, requests[q].owner # owner
        PROVE  SelectionOf(requests[q].owner)' = SelectionOf(requests[q].owner)
    <2>1. requests'[q].owner = requests[q].owner
      BY <1>2, <1>5
    <2>2. PermissionsOf(requests[q].owner)' = PermissionsOf(requests[q].owner)
      BY <1>4, <1>5, <2>1 DEF PermissionsOf
    <2>3. QED
      BY <1>1, <2>1, <2>2 DEF SelectionOf
  <1>6. QED
    BY <1>1, <1>2, <1>3, <1>5, AloneFrame DEF AloneInv

(* From here on the owner has nothing but what is selected. *)
LEMMA DeleteAlone ==
  ASSUME AloneInv, NEW r \in Request, DeleteOthers(r)
  PROVE  Alone'
  <1> DEFINE owner    == requests[r].owner
             selected == requests[r].selection
  <1>1. /\ r \in DOMAIN requests /\ requests[r].at = "delete"
        /\ Proceed(r, "create", {}, requests[r].todo)
    BY DEF DeleteOthers, Editing
  <1>2. /\ DOMAIN requests' = DOMAIN requests
        /\ \A q \in DOMAIN requests : q # r => requests'[q] = requests[q]
        /\ requests'[r].owner = owner
        /\ requests'[r].selection = selected
        /\ requests'[r].alone = requests[r].alone
        /\ requests'[r].at = "create"
        /\ requests'[r].todo = requests[r].todo
    BY <1>1, ProceedRow DEF AloneInv, Inv
  <1>3. requests[r].todo = selected
    BY <1>1 DEF AloneInv, Alone, Progress
  <1>4. /\ \A item : <<owner, item>> \in DOMAIN grants' /\ owner \in Role => item \in selected
        /\ \A item : <<owner, item>> \in assigned' /\ owner \notin Role => item \in selected
        /\ \A other, item : other # owner =>
             /\ <<other, item>> \in DOMAIN grants' <=> <<other, item>> \in DOMAIN grants
             /\ <<other, item>> \in assigned' <=> <<other, item>> \in assigned
    <2>1. CASE /\ owner \in Role
               /\ grants' = [g \in {g \in DOMAIN grants : g[1] = owner => g[2] \in selected}
                               |-> grants[g]]
               /\ assigned' = assigned
      BY <2>1
    <2>2. CASE /\ owner \in Membership
               /\ assigned' = {a \in assigned :
                                 a[1] = owner => a[2] \in selected \cap Offered(owner[1])}
               /\ grants' = grants
      BY <2>2, OwnersAssumption DEF Membership
    <2>3. QED
      BY <2>1, <2>2 DEF DeleteOthers
  <1>5. SelectionOf(owner)' \subseteq selected
    BY <1>2, <1>4 DEF SelectionOf, PermissionsOf
  <1>6. Progress(r)'
    BY <1>2, <1>3, <1>5 DEF Progress
  <1>7. ASSUME NEW q \in DOMAIN requests, requests[q].owner # owner
        PROVE  SelectionOf(requests[q].owner)' = SelectionOf(requests[q].owner)
    <2>1. requests'[q].owner = requests[q].owner
      BY <1>2, <1>7
    <2>2. PermissionsOf(requests[q].owner)' = PermissionsOf(requests[q].owner)
      BY <1>4, <1>7, <2>1 DEF PermissionsOf
    <2>3. {role \in Role : <<requests[q].owner, role>> \in assigned'}
            = {role \in Role : <<requests[q].owner, role>> \in assigned}
      BY <1>4, <1>7
    <2>4. QED
      BY <2>1, <2>2, <2>3 DEF SelectionOf
  <1>8. QED
    BY <1>1, <1>2, <1>6, <1>7, AloneFrame DEF AloneInv

LEMMA CreateAlone ==
  ASSUME AloneInv, NEW r \in Request, NEW item, CreateSelected(r, item)
  PROVE  Alone'
  <1> DEFINE owner == requests[r].owner
  <1>1. /\ r \in DOMAIN requests /\ requests[r].at = "create"
        /\ item \in requests[r].todo
        /\ Proceed(r, "create", {}, requests[r].todo \ {item})
    BY DEF CreateSelected, Editing
  <1>2. /\ DOMAIN requests' = DOMAIN requests
        /\ \A q \in DOMAIN requests : q # r => requests'[q] = requests[q]
        /\ requests'[r].owner = owner
        /\ requests'[r].selection = requests[r].selection
        /\ requests'[r].alone = requests[r].alone
        /\ requests'[r].at = "create"
        /\ requests'[r].todo = requests[r].todo \ {item}
    BY <1>1, ProceedRow DEF AloneInv, Inv
  <1>3. /\ \A other, i : other # owner =>
             /\ <<other, i>> \in DOMAIN grants' <=> <<other, i>> \in DOMAIN grants
             /\ <<other, i>> \in assigned' <=> <<other, i>> \in assigned
        /\ owner \in Role => DOMAIN grants' = DOMAIN grants \cup {<<owner, item>>}
        /\ owner \notin Role => assigned' = assigned \cup {<<owner, item>>}
    <2>1. CASE /\ owner \in Role
               /\ grants' = IF <<owner, item>> \in DOMAIN grants THEN grants
                            ELSE Put(grants, <<owner, item>>, "default")
               /\ assigned' = assigned
      <3>1. DOMAIN grants' = DOMAIN grants \cup {<<owner, item>>}
        BY <2>1 DEF Put
      <3>2. QED
        BY <2>1, <3>1
    <2>2. CASE /\ owner \in Membership
               /\ assigned' = assigned \cup {<<owner, item>>}
               /\ grants' = grants
      BY <2>2, OwnersAssumption DEF Membership
    <2>3. QED
      BY <2>1, <2>2 DEF CreateSelected
  <1>4. owner \in Role => item \in Permission
    BY <1>1, EditTypes, OwnersAssumption DEF AloneInv, Inv, RoleEdit, MemberEdit, Membership
  <1>5. owner \notin Role => item \in Role
    BY <1>1, EditTypes DEF AloneInv, Inv, RoleEdit, MemberEdit
  <1>6. SelectionOf(owner)' = SelectionOf(owner) \cup {item}
    <2>1. CASE owner \in Role
      BY <1>2, <1>3, <1>4, <2>1 DEF SelectionOf, PermissionsOf
    <2>2. CASE owner \notin Role
      BY <1>2, <1>3, <1>5, <2>2 DEF SelectionOf
    <2>3. QED
      BY <2>1, <2>2
  <1>7. Progress(r)'
    BY <1>1, <1>2, <1>6 DEF AloneInv, Alone, Progress
  <1>8. ASSUME NEW q \in DOMAIN requests, requests[q].owner # owner
        PROVE  SelectionOf(requests[q].owner)' = SelectionOf(requests[q].owner)
    <2>1. requests'[q].owner = requests[q].owner
      BY <1>2, <1>8
    <2>2. PermissionsOf(requests[q].owner)' = PermissionsOf(requests[q].owner)
      BY <1>3, <1>8, <2>1 DEF PermissionsOf
    <2>3. {role \in Role : <<requests[q].owner, role>> \in assigned'}
            = {role \in Role : <<requests[q].owner, role>> \in assigned}
      BY <1>3, <1>8
    <2>4. QED
      BY <2>1, <2>2, <2>3 DEF SelectionOf
  <1>9. QED
    BY <1>1, <1>2, <1>7, <1>8, AloneFrame DEF AloneInv

LEMMA EndAlone ==
  ASSUME AloneInv, NEW r \in Request, Finish(r) \/ Abort(r)
  PROVE  Alone'
  <1>1. /\ \A q \in DOMAIN requests' : q \in DOMAIN requests /\ requests'[q] = requests[q]
        /\ UNCHANGED <<grants, assigned>>
    BY DEF Finish, Abort, Delete
  <1>2. ASSUME NEW q \in DOMAIN requests'
        PROVE  Progress(q)'
    <2>1. Progress(q) /\ requests'[q] = requests[q]
      BY <1>1 DEF AloneInv, Alone
    <2>2. SelectionOf(requests[q].owner)' = SelectionOf(requests[q].owner)
      BY <1>1, <2>1 DEF SelectionOf, PermissionsOf
    <2>3. QED
      BY <2>1, <2>2 DEF Progress
  <1>3. \A q \in DOMAIN requests' : NobodyElse(q)'
    BY <1>1 DEF AloneInv, Alone, NobodyElse
  <1>4. QED
    BY <1>2, <1>3 DEF Alone

-----------------------------------------------------------------------------
LEMMA NextAlone == AloneInv /\ [Next]_vars => AloneInv'
  <1> SUFFICES ASSUME AloneInv, [Next]_vars PROVE Alone'
    BY NextInv DEF AloneInv
  <1>1. ASSUME NEW m \in Membership, SetActive(m) PROVE Alone'
    BY <1>1, SetActiveAlone
  <1>2. ASSUME NEW r \in Request, NEW role \in Role, NEW row \in RoleRow,
               NEW s \in SUBSET Permission,
               EditRoleAsPlatform(r, role, row, s) \/ EditRoleAsManager(r, role, row, s)
        PROVE  Alone'
    <2>1. StartEdit(r, "save", role, row, s)
      BY <1>2 DEF EditRoleAsPlatform, EditRoleAsManager
    <2>2. QED
      BY <2>1, StartAlone
  <1>3. ASSUME NEW r \in Request, NEW m \in Membership, NEW s \in SUBSET Role,
               EditMemberAsPlatform(r, m, s) \/ EditMemberAsManager(r, m, s)
        PROVE  Alone'
    <2>1. StartEdit(r, "delete", m, NoRow, s)
      BY <1>3 DEF EditMemberAsPlatform, EditMemberAsManager
    <2>2. QED
      BY <2>1, StartAlone
  <1>4. ASSUME NEW r \in Request, NEW item \in Permission \cup Role, CreateSelected(r, item)
        PROVE  Alone'
    BY <1>4, CreateAlone
  <1>5. ASSUME NEW r \in Request, SaveRole(r) \/ ReadGrants(r) PROVE Alone'
    BY <1>5, SaveAlone
  <1>6. ASSUME NEW r \in Request, ReplaceGrants(r) PROVE Alone'
    BY <1>6, ReplaceAlone
  <1>7. ASSUME NEW r \in Request, DeleteOthers(r) PROVE Alone'
    BY <1>7, DeleteAlone
  <1>8. ASSUME NEW r \in Request, Finish(r) \/ Abort(r) PROVE Alone'
    BY <1>8, EndAlone
  <1>9. CASE UNCHANGED vars
    BY <1>9 DEF vars, AloneInv, Alone, Progress, NobodyElse, SelectionOf, PermissionsOf
  <1>10. QED
    BY <1>1, <1>2, <1>3, <1>4, <1>5, <1>6, <1>7, <1>8, <1>9 DEF Next

(***************************************************************************)
(* An edit that overlapped with no other edit of its role or member leaves *)
(* exactly what it selected, for any number of requests, whatever died     *)
(* half-way before it (TenantRoleForm.save, TenantMembershipForm.save).    *)
(***************************************************************************)
THEOREM SelectionLeft == Spec => EditLeavesSelection
  <1>1. Init => AloneInv
    BY InitInv DEF Init, AloneInv, Alone, Empty
  <1>2. AloneInv => \A r \in DOMAIN requests :
                      Finish(r) /\ requests[r].alone =>
                        SelectionOf(requests[r].owner) = requests[r].selection
    <2> SUFFICES ASSUME AloneInv, NEW r \in DOMAIN requests, Finish(r), requests[r].alone
                 PROVE  SelectionOf(requests[r].owner) = requests[r].selection
      OBVIOUS
    <2>1. requests[r].at = "create" /\ requests[r].todo = {}
      BY DEF Finish, Editing
    <2>2. QED
      BY <2>1 DEF AloneInv, Alone, Progress
  <1>3. QED
    BY <1>1, <1>2, NextAlone, PTL DEF Spec, EditLeavesSelection
=============================================================================
