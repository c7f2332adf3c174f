-------------------------- MODULE MembershipProofs --------------------------
(***************************************************************************)
(* Theorems about Membership for every set of organizations, people,       *)
(* invitations and requests.                                               *)
(***************************************************************************)
EXTENDS Membership, TLAPS

(* The foreign keys: every row and every running request refers to rows    *)
(* that exist.  TypeOK is inductive only together with them.               *)
References ==
  /\ \A m \in DOMAIN members : UserOf(m) \in DOMAIN accounts
  /\ \A i \in DOMAIN invites : invites[i].of \in DOMAIN members
  /\ \A r \in DOMAIN requests :
       /\ requests[r].at # "mail" => UserOf(requests[r].of) \in DOMAIN accounts
       /\ requests[r].at \in {"issue", "write"} => requests[r].of \in DOMAIN members

Rows == TypeOK /\ References

-----------------------------------------------------------------------------
(* What save() writes is a membership row again, with the status it was given. *)
LEMMA SavedMember ==
  ASSUME NEW row \in Member
  PROVE  /\ Saved(row) \in Member
         /\ Saved(row).status = row.status
         /\ Saved(row).activated <=> row.activated \/ row.status = "active"
  BY DEF Saved, Member

(* Revoking keeps the invitations, their memberships and tokens, and       *)
(* settles exactly the pending ones of m that are not kept.                *)
LEMMA Revoked ==
  ASSUME TypeOK, NEW m, NEW keep
  PROVE  /\ IsTable(RevokePending(m, keep), Invitation, Invite)
         /\ DOMAIN RevokePending(m, keep) = DOMAIN invites
         /\ \A i \in DOMAIN invites :
              LET new == RevokePending(m, keep)[i]
              IN /\ new.of = invites[i].of
                 /\ new.accepted = invites[i].accepted
                 /\ IF invites[i].of = m /\ IsPending(i) /\ i \notin keep
                    THEN new = [invites[i] EXCEPT !.revoked = TRUE] /\ new.revoked
                    ELSE new = invites[i]
  <1> DEFINE new == RevokePending(m, keep)
  <1>1. \A i \in DOMAIN invites : i \in Invitation /\ invites[i] \in Invite
    BY DEF TypeOK, IsTable
  <1>2. /\ DOMAIN new = DOMAIN invites
        /\ new = [i \in DOMAIN invites |-> new[i]]
    BY DEF RevokePending
  <1>3. ASSUME NEW i \in DOMAIN invites
        PROVE  /\ new[i] \in Invite
               /\ new[i].of = invites[i].of
               /\ new[i].accepted = invites[i].accepted
               /\ IF invites[i].of = m /\ IsPending(i) /\ i \notin keep
                  THEN new[i] = [invites[i] EXCEPT !.revoked = TRUE] /\ new[i].revoked
                  ELSE new[i] = invites[i]
    BY <1>1 DEF RevokePending, Invite
  <1> HIDE DEF new
  <1>4. new \in [DOMAIN new -> Invite]
    BY <1>2, <1>3
  <1>5. IsTable(new, Invitation, Invite)
    BY <1>1, <1>2, <1>4 DEF IsTable
  <1>6. QED
    BY <1>2, <1>3, <1>5 DEF new

(* A command that gives a stored membership a status writes one legal row. *)
LEMMA StatusWritten ==
  ASSUME TypeOK, NEW m \in DOMAIN members, NEW status \in Status
  PROVE  /\ IsTable(WithStatus(m, status), Membership, Member)
         /\ DOMAIN WithStatus(m, status) = DOMAIN members
         /\ WithStatus(m, status)[m].status = status
         /\ WithStatus(m, status)[m].activated <=> members[m].activated \/ status = "active"
         /\ \A n \in DOMAIN members : n # m => WithStatus(m, status)[n] = members[n]
  <1> DEFINE row == [members[m] EXCEPT !.status = status]
  <1>1. row \in Member /\ row.status = status /\ row.activated = members[m].activated
    BY DEF TypeOK, IsTable, Member
  <1>2. /\ Saved(row) \in Member
        /\ Saved(row).status = status
        /\ Saved(row).activated <=> members[m].activated \/ status = "active"
    BY <1>1, SavedMember
  <1>3. m \in Membership
    BY DEF TypeOK, IsTable
  <1>4. IsTable(members, Membership, Member)
    BY DEF TypeOK
  <1> HIDE DEF row
  <1>5. /\ IsTable(Put(members, m, Saved(row)), Membership, Member)
        /\ DOMAIN Put(members, m, Saved(row)) = DOMAIN members \cup {m}
        /\ Put(members, m, Saved(row))[m] = Saved(row)
        /\ \A n \in DOMAIN members : n # m => Put(members, m, Saved(row))[n] = members[n]
    BY <1>2, <1>3, <1>4 DEF IsTable, Put
  <1>6. QED
    BY <1>2, <1>5 DEF WithStatus, row

(* Every row of a typed table is typed, and the user of a membership is a user. *)
LEMMA RowTypes ==
  ASSUME TypeOK
  PROVE  /\ \A u \in DOMAIN accounts : u \in User /\ accounts[u] \in Account
         /\ \A m \in DOMAIN members : m \in Membership /\ members[m] \in Member
         /\ \A i \in DOMAIN invites : i \in Invitation /\ invites[i] \in Invite
         /\ \A r \in DOMAIN requests :
              /\ r \in Request
              /\ requests[r].at = "mail" => requests[r] \in MailRequest
              /\ requests[r].at = "write" => requests[r] \in EditRequest
              /\ requests[r].at \notin {"mail", "write"} => requests[r] \in CreateRequest
         /\ \A m \in Membership : UserOf(m) \in User
  BY DEF TypeOK, IsTable, CreateRequest, MailRequest, EditRequest, Membership, UserOf

-----------------------------------------------------------------------------
(* Issuing an invitation, from a resend or from a create request. *)
LEMMA IssueRows ==
  ASSUME Rows, NEW r \in Request, NEW m \in DOMAIN members, NEW i \in Invitation,
         Issue(r, m, i)
  PROVE  Rows'
  <1> DEFINE row == [of |-> m, token |-> accounts[UserOf(m)].stamp,
                     accepted |-> FALSE, revoked |-> FALSE]
             ask == [at |-> "mail", link |-> i]
  <1>1. TypeOK /\ References
    BY DEF Rows
  <1>2. row \in Invite /\ ask \in MailRequest
    BY <1>1, RowTypes DEF References, Invite, Account, MailRequest
  <1>3. /\ IsTable(invites', Invitation, Invite)
        /\ DOMAIN invites' = DOMAIN invites \cup {i}
        /\ invites'[i].of = m
        /\ \A j \in DOMAIN invites : j # i => invites'[j].of = invites[j].of
    <2>1. IsTable(RevokePending(m, {}), Invitation, Invite)
      BY <1>1, Revoked
    <2> HIDE DEF row
    <2>2. invites' = Put(RevokePending(m, {}), i, row)
      BY DEF Issue, row
    <2>3. /\ IsTable(invites', Invitation, Invite)
          /\ DOMAIN invites' = DOMAIN RevokePending(m, {}) \cup {i}
          /\ invites'[i] = row
          /\ \A j \in DOMAIN RevokePending(m, {}) :
               j # i => invites'[j] = RevokePending(m, {})[j]
      BY <1>2, <2>1, <2>2 DEF IsTable, Put
    <2>4. \A j \in DOMAIN invites : RevokePending(m, {})[j].of = invites[j].of
      BY <1>1, Revoked
    <2>5. DOMAIN RevokePending(m, {}) = DOMAIN invites
      BY <1>1, Revoked
    <2>6. row.of = m
      BY DEF row
    <2>7. QED
      BY <2>3, <2>4, <2>5, <2>6
  <1>4. /\ IsTable(requests', Request, CreateRequest \cup MailRequest \cup EditRequest)
        /\ DOMAIN requests' = DOMAIN requests \cup {r}
        /\ requests'[r] = ask
        /\ \A q \in DOMAIN requests : q # r => requests'[q] = requests[q]
    BY <1>1, <1>2 DEF Issue, TypeOK, IsTable, Put
  <1>5. TypeOK'
    BY <1>1, <1>3, <1>4 DEF Issue, TypeOK
  <1>6. References'
    <2>1. accounts' = accounts /\ members' = members
      BY DEF Issue
    <2>2. \A j \in DOMAIN invites' : invites'[j].of \in DOMAIN members'
      BY <1>1, <1>3, <2>1 DEF References
    <2>3. \A q \in DOMAIN requests' :
            /\ requests'[q].at # "mail" => UserOf(requests'[q].of) \in DOMAIN accounts'
            /\ requests'[q].at \in {"issue", "write"} => requests'[q].of \in DOMAIN members'
      BY <1>1, <1>4, <2>1 DEF References
    <2>4. QED
      BY <1>1, <2>1, <2>2, <2>3 DEF References
  <1>7. QED
    BY <1>5, <1>6 DEF Rows

(* Accepting, suspending and activating rewrite one membership and settle  *)
(* invitations; they touch no running request.                             *)
LEMMA CommandRows ==
  ASSUME Rows, NEW m \in DOMAIN members, NEW status \in Status,
         members' = WithStatus(m, status),
         IsTable(invites', Invitation, Invite),
         DOMAIN invites' = DOMAIN invites,
         \A i \in DOMAIN invites : invites'[i].of = invites[i].of,
         IsTable(accounts', User, Account),
         DOMAIN accounts' = DOMAIN accounts,
         UNCHANGED <<expired, mailed, requests, abandoned>>
  PROVE  Rows'
  <1>1. TypeOK /\ References
    BY DEF Rows
  <1>2. IsTable(members', Membership, Member) /\ DOMAIN members' = DOMAIN members
    BY <1>1, StatusWritten
  <1>3. TypeOK'
    BY <1>1, <1>2 DEF TypeOK
  <1>4. References'
    BY <1>1, <1>2 DEF References
  <1>5. QED
    BY <1>3, <1>4 DEF Rows

LEMMA AcceptRows ==
  ASSUME Rows, NEW i \in Invitation, Accept(i)
  PROVE  Rows'
  <1> DEFINE m == invites[i].of
             u == UserOf(m)
             row == [invites[i] EXCEPT !.accepted = TRUE]
  <1>1. TypeOK /\ References /\ i \in DOMAIN invites
    BY DEF Rows, Accept
  <1>2. m \in DOMAIN members /\ u \in DOMAIN accounts
    BY <1>1 DEF References
  <1>3. u \in User /\ accounts[u] \in Account /\ row \in Invite /\ row.of = m
    BY <1>1, <1>2, RowTypes DEF Invite
  <1>4. IsTable(accounts', User, Account) /\ DOMAIN accounts' = DOMAIN accounts
    <2>1. CASE HasUsablePassword(u)
      BY <1>1, <2>1 DEF Accept, TypeOK
    <2>2. CASE ~HasUsablePassword(u)
      <3> DEFINE new == [password |-> "usable", enabled |-> TRUE,
                         stamp |-> accounts[u].stamp + 1]
      <3>1. accounts' = Put(accounts, u, new)
        BY <2>2 DEF Accept, WithPassword
      <3>2. new \in Account
        BY <1>3 DEF Account
      <3> HIDE DEF new
      <3>3. QED
        BY <1>1, <1>2, <1>3, <3>1, <3>2 DEF TypeOK, IsTable, Put
    <2>3. QED
      BY <2>1, <2>2
  <1>5. /\ IsTable(invites', Invitation, Invite)
        /\ DOMAIN invites' = DOMAIN invites
        /\ \A j \in DOMAIN invites : invites'[j].of = invites[j].of
    <2> HIDE DEF row
    <2>1. /\ IsTable(RevokePending(m, {i}), Invitation, Invite)
          /\ DOMAIN RevokePending(m, {i}) = DOMAIN invites
          /\ \A j \in DOMAIN invites : RevokePending(m, {i})[j].of = invites[j].of
      BY <1>1, Revoked
    <2>2. invites' = Put(RevokePending(m, {i}), i, row)
      BY DEF Accept, row
    <2>3. QED
      BY <1>1, <1>3, <2>1, <2>2 DEF IsTable, Put
  <1>6. members' = WithStatus(m, "active") /\ UNCHANGED <<expired, mailed, requests, abandoned>>
    BY DEF Accept
  <1> HIDE DEF m, u, row
  <1>7. QED
    BY <1>2, <1>4, <1>5, <1>6, CommandRows DEF Status

LEMMA SuspendRows ==
  ASSUME Rows, NEW m, Suspend(m)
  PROVE  Rows'
  <1>1. TypeOK
    BY DEF Rows
  <1>2. /\ m \in DOMAIN members
        /\ members' = WithStatus(m, "suspended")
        /\ invites' = RevokePending(m, {})
        /\ UNCHANGED <<accounts, expired, mailed, requests, abandoned>>
    BY DEF Suspend
  <1>3. /\ IsTable(invites', Invitation, Invite)
        /\ DOMAIN invites' = DOMAIN invites
        /\ \A i \in DOMAIN invites : invites'[i].of = invites[i].of
    BY <1>1, <1>2, Revoked
  <1>4. IsTable(accounts', User, Account)
    BY <1>1, <1>2 DEF TypeOK
  <1>5. QED
    BY <1>2, <1>3, <1>4, CommandRows DEF Status

LEMMA ActivateRows ==
  ASSUME Rows, NEW m, Activate(m)
  PROVE  Rows'
  <1>1. TypeOK
    BY DEF Rows
  <1>2. /\ m \in DOMAIN members
        /\ members' = WithStatus(m, "active")
        /\ invites' = RevokePending(m, {})
        /\ UNCHANGED <<accounts, expired, mailed, requests, abandoned>>
    BY DEF Activate
  <1>3. /\ IsTable(invites', Invitation, Invite)
        /\ DOMAIN invites' = DOMAIN invites
        /\ \A i \in DOMAIN invites : invites'[i].of = invites[i].of
    BY <1>1, <1>2, Revoked
  <1>4. IsTable(accounts', User, Account)
    BY <1>1, <1>2 DEF TypeOK
  <1>5. QED
    BY <1>2, <1>3, <1>4, CommandRows DEF Status

(* Sign-up, verification and sign-in keep the set of accounts or add one.  *)
LEMMA AccountRows ==
  ASSUME Rows, NEW u \in User, NEW row \in Account,
         accounts' = Put(accounts, u, row),
         UNCHANGED <<members, invites, expired, mailed, requests, abandoned>>
  PROVE  Rows'
  <1>1. IsTable(accounts', User, Account) /\ DOMAIN accounts' = DOMAIN accounts \cup {u}
    BY DEF Rows, TypeOK, IsTable, Put
  <1>2. TypeOK'
    BY <1>1 DEF Rows, TypeOK
  <1>3. References'
    BY <1>1 DEF Rows, References
  <1>4. QED
    BY <1>2, <1>3 DEF Rows

(* A request that ends leaves the rows of the others alone. *)
LEMMA EndRows ==
  ASSUME Rows, NEW r, requests' = Delete(requests, r),
         UNCHANGED <<accounts, members, invites, expired>>,
         mailed' \subseteq Invitation, abandoned' \subseteq Membership
  PROVE  Rows'
  <1>1. /\ IsTable(requests', Request, CreateRequest \cup MailRequest \cup EditRequest)
        /\ DOMAIN requests' = DOMAIN requests \ {r}
        /\ \A q \in DOMAIN requests' : requests'[q] = requests[q]
    BY DEF Rows, TypeOK, IsTable, Delete
  <1>2. TypeOK'
    BY <1>1 DEF Rows, TypeOK
  <1>3. References'
    BY <1>1 DEF Rows, References
  <1>4. QED
    BY <1>2, <1>3 DEF Rows

(* A request that reaches a new place in its code, whatever it wrote to    *)
(* get there, keeps Rows if the rows it refers to are there.               *)
LEMMA StepRows ==
  ASSUME Rows, NEW r \in Request,
         NEW step \in CreateRequest \cup EditRequest, requests' = Put(requests, r, step),
         UserOf(step.of) \in DOMAIN accounts',
         step.at \in {"issue", "write"} => step.of \in DOMAIN members',
         IsTable(accounts', User, Account), DOMAIN accounts \subseteq DOMAIN accounts',
         IsTable(members', Membership, Member), DOMAIN members \subseteq DOMAIN members',
         \A m \in DOMAIN members' : UserOf(m) \in DOMAIN accounts',
         UNCHANGED <<invites, expired, mailed, abandoned>>
  PROVE  Rows'
  <1>1. /\ IsTable(requests', Request, CreateRequest \cup MailRequest \cup EditRequest)
        /\ DOMAIN requests' = DOMAIN requests \cup {r}
        /\ requests'[r] = step
        /\ \A q \in DOMAIN requests : q # r => requests'[q] = requests[q]
    BY DEF Rows, TypeOK, IsTable, Put
  <1>2. TypeOK'
    BY <1>1 DEF Rows, TypeOK
  <1>3. References'
    BY <1>1 DEF Rows, References
  <1>4. QED
    BY <1>2, <1>3 DEF Rows

LEMMA StartCreateRows ==
  ASSUME Rows, NEW r \in Request, NEW m \in Membership, StartCreate(r, m)
  PROVE  Rows'
  <1> DEFINE u == UserOf(m)
             step == [at |-> AfterGetOrCreate(u), of |-> m]
             new == [password |-> "blank", enabled |-> TRUE, stamp |-> 0]
  <1>1. step \in CreateRequest /\ step.of = m /\ step.at \notin {"issue", "write"}
    BY DEF CreateRequest, AfterGetOrCreate
  <1>2. u \in User /\ new \in Account
    BY RowTypes DEF Rows, Account
  <1>3. /\ accounts' = IF u \in DOMAIN accounts THEN accounts ELSE Put(accounts, u, new)
        /\ requests' = Put(requests, r, step)
        /\ UNCHANGED <<members, invites, expired, mailed, abandoned>>
    BY DEF StartCreate
  <1> HIDE DEF step, new
  <1>4. /\ IsTable(accounts', User, Account)
        /\ DOMAIN accounts' = DOMAIN accounts \cup {u}
    BY <1>2, <1>3 DEF Rows, TypeOK, IsTable, Put
  <1>5. /\ IsTable(members', Membership, Member)
        /\ \A n \in DOMAIN members' : UserOf(n) \in DOMAIN accounts'
    BY <1>3, <1>4 DEF Rows, TypeOK, References
  <1>6. QED
    BY <1>1, <1>3, <1>4, <1>5, StepRows

LEMMA SetUnusableRows ==
  ASSUME Rows, NEW r \in Request, SetUnusable(r)
  PROVE  Rows'
  <1> DEFINE m == requests[r].of
             u == UserOf(m)
             step == [at |-> "insert", of |-> m]
             new == [password |-> "unusable", enabled |-> accounts[u].enabled,
                     stamp |-> accounts[u].stamp + 1]
  <1>1. /\ r \in DOMAIN requests /\ requests[r].at = "set_unusable"
        /\ accounts' = Put(accounts, u, new)
        /\ requests' = Put(requests, r, step)
        /\ UNCHANGED <<members, invites, expired, mailed, abandoned>>
    BY DEF SetUnusable, WithPassword
  <1>2. m \in Membership /\ u \in DOMAIN accounts
    BY <1>1, RowTypes DEF Rows, References, CreateRequest
  <1>3. step \in CreateRequest /\ step.of = m /\ step.at \notin {"issue", "write"}
    BY <1>2 DEF CreateRequest
  <1>4. u \in User /\ new \in Account
    <2> HIDE DEF m, u
    <2>1. u \in User /\ accounts[u] \in Account
      BY <1>2, RowTypes DEF Rows
    <2>2. QED
      BY <2>1 DEF Account
  <1> HIDE DEF m, u, step, new
  <1>5. IsTable(accounts', User, Account) /\ DOMAIN accounts' = DOMAIN accounts
    BY <1>1, <1>2, <1>4 DEF Rows, TypeOK, IsTable, Put
  <1>6. /\ IsTable(members', Membership, Member)
        /\ \A n \in DOMAIN members' : UserOf(n) \in DOMAIN accounts'
    BY <1>1, <1>5 DEF Rows, TypeOK, References
  <1>7. UserOf(step.of) \in DOMAIN accounts'
    BY <1>2, <1>3, <1>5 DEF u
  <1>8. QED
    BY <1>1, <1>3, <1>5, <1>6, <1>7, StepRows

LEMMA InsertMemberRows ==
  ASSUME Rows, NEW r \in Request, InsertMember(r)
  PROVE  Rows'
  <1> DEFINE m == requests[r].of
             step == [at |-> "issue", of |-> m]
             row == [status |-> "invited", activated |-> FALSE, suspended |-> FALSE]
  <1>1. /\ r \in DOMAIN requests /\ requests[r].at = "insert"
        /\ UNCHANGED <<accounts, invites, expired, mailed, abandoned>>
    BY DEF InsertMember
  <1>2. m \in Membership /\ UserOf(m) \in DOMAIN accounts
    BY <1>1, RowTypes DEF Rows, References, CreateRequest
  <1>3. CASE m \in DOMAIN members
    <2>1. requests' = Delete(requests, r) /\ UNCHANGED members
      BY <1>3 DEF InsertMember
    <2>2. mailed' \subseteq Invitation /\ abandoned' \subseteq Membership
      BY <1>1 DEF Rows, TypeOK
    <2>3. QED
      BY <1>1, <2>1, <2>2, EndRows
  <1>4. CASE m \notin DOMAIN members
    <2>1. requests' = Put(requests, r, step) /\ members' = Put(members, m, Saved(row))
      BY <1>4 DEF InsertMember
    <2>2. Saved(row) \in Member
      BY SavedMember DEF Member, Status
    <2>3. step \in CreateRequest /\ step.of = m
      BY <1>2 DEF CreateRequest
    <2> HIDE DEF m, step, row
    <2>4. IsTable(members', Membership, Member) /\ DOMAIN members' = DOMAIN members \cup {m}
      BY <1>2, <2>1, <2>2 DEF Rows, TypeOK, IsTable, Put
    <2>5. \A n \in DOMAIN members' : UserOf(n) \in DOMAIN accounts'
      BY <1>1, <1>2, <2>4 DEF Rows, References
    <2>6. IsTable(accounts', User, Account)
      BY <1>1 DEF Rows, TypeOK
    <2>7. QED
      BY <1>1, <1>2, <2>1, <2>3, <2>4, <2>5, <2>6, StepRows
  <1>5. QED
    BY <1>3, <1>4

LEMMA ReadForEditRows ==
  ASSUME Rows, NEW r \in Request, NEW m \in Membership, ReadForEdit(r, m)
  PROVE  Rows'
  <1> DEFINE step == [at |-> "write", of |-> m, row |-> members[m]]
  <1>1. /\ m \in DOMAIN members /\ requests' = Put(requests, r, step)
        /\ UNCHANGED <<accounts, members, invites, expired, mailed, abandoned>>
    BY DEF ReadForEdit
  <1>2. step \in EditRequest /\ step.of = m
    BY <1>1, RowTypes DEF Rows, EditRequest
  <1> HIDE DEF step
  <1>3. /\ UserOf(m) \in DOMAIN accounts
        /\ IsTable(accounts', User, Account) /\ IsTable(members', Membership, Member)
        /\ \A n \in DOMAIN members' : UserOf(n) \in DOMAIN accounts'
    BY <1>1 DEF Rows, TypeOK, References
  <1>4. QED
    BY <1>1, <1>2, <1>3, StepRows

LEMMA WriteEditRows ==
  ASSUME Rows, NEW r \in Request, WriteEdit(r)
  PROVE  Rows'
  <1> DEFINE m == requests[r].of
             row == Saved(requests[r].row)
  <1>1. /\ r \in DOMAIN requests /\ requests[r].at = "write"
        /\ members' = Put(members, m, row)
        /\ requests' = Delete(requests, r)
        /\ UNCHANGED <<accounts, invites, expired, mailed, abandoned>>
    BY DEF WriteEdit
  <1>2. m \in DOMAIN members /\ requests[r] \in EditRequest
    BY <1>1, RowTypes DEF Rows, References
  <1>3. m \in Membership /\ row \in Member
    BY <1>2, SavedMember DEF EditRequest
  <1> HIDE DEF m, row
  <1>4. IsTable(members', Membership, Member) /\ DOMAIN members' = DOMAIN members
    BY <1>1, <1>2, <1>3 DEF Rows, TypeOK, IsTable, Put
  <1>5. /\ IsTable(requests', Request, CreateRequest \cup MailRequest \cup EditRequest)
        /\ DOMAIN requests' = DOMAIN requests \ {r}
        /\ \A q \in DOMAIN requests' : requests'[q] = requests[q]
    BY <1>1 DEF Rows, TypeOK, IsTable, Delete
  <1>6. TypeOK'
    BY <1>1, <1>4, <1>5 DEF Rows, TypeOK
  <1>7. References'
    BY <1>1, <1>4, <1>5 DEF Rows, References
  <1>8. QED
    BY <1>6, <1>7 DEF Rows

-----------------------------------------------------------------------------
(* Every step keeps every table well typed and every reference alive. *)
LEMMA RowsStep == Rows /\ [Next]_vars => Rows'
  <1> SUFFICES ASSUME Rows, [Next]_vars
               PROVE  Rows'
    OBVIOUS
  <1>1. ASSUME NEW i \in Invitation, Accept(i)
        PROVE  Rows'
    BY <1>1, AcceptRows
  <1>2. ASSUME NEW i \in Invitation, Expire(i)
        PROVE  Rows'
    BY <1>2 DEF Expire, Rows, TypeOK, References
  <1>3. ASSUME NEW m \in Membership, Suspend(m) \/ Activate(m)
        PROVE  Rows'
    BY <1>3, SuspendRows, ActivateRows
  <1>4. ASSUME NEW r \in Request, NEW m \in Membership, NEW i \in Invitation, Resend(r, m, i)
        PROVE  Rows'
    BY <1>4, IssueRows DEF Resend
  <1>5. ASSUME NEW r \in Request, NEW m \in Membership, StartCreate(r, m)
        PROVE  Rows'
    BY <1>5, StartCreateRows
  <1>6. ASSUME NEW r \in Request, SetUnusable(r) \/ InsertMember(r)
        PROVE  Rows'
    BY <1>6, SetUnusableRows, InsertMemberRows
  <1>7. ASSUME NEW r \in Request, IssueCreated(r)
        PROVE  Rows'
    <2>1. requests[r].of \in DOMAIN members
      BY <1>7 DEF IssueCreated, Rows, References
    <2>2. ASSUME NEW i \in Invitation, Issue(r, requests[r].of, i)
          PROVE  Rows'
      BY <2>1, <2>2, IssueRows
    <2>3. ASSUME requests' = Delete(requests, r),
                 UNCHANGED <<accounts, members, invites, expired, mailed, abandoned>>
          PROVE  Rows'
      BY <2>3, EndRows DEF Rows, TypeOK
    <2>4. QED
      BY <1>7, <2>2, <2>3 DEF IssueCreated
  <1>8. ASSUME NEW r \in Request, SendMail(r)
        PROVE  Rows'
    <2>1. requests[r] \in MailRequest
      BY <1>8, RowTypes DEF SendMail, Rows
    <2>2. mailed' \subseteq Invitation /\ abandoned' \subseteq Membership
      BY <1>8, <2>1 DEF SendMail, MailRequest, Rows, TypeOK
    <2>3. QED
      BY <1>8, <2>2, EndRows DEF SendMail
  <1>9. ASSUME NEW r \in Request, Abort(r)
        PROVE  Rows'
    <2>1. mailed' \subseteq Invitation /\ abandoned' \subseteq Membership
      BY <1>9 DEF Abort, Rows, TypeOK
    <2>2. QED
      BY <1>9, <2>1, EndRows DEF Abort
  <1>10. ASSUME NEW r \in Request, NEW m \in Membership, ReadForEdit(r, m)
         PROVE  Rows'
    BY <1>10, ReadForEditRows
  <1>11. ASSUME NEW r \in Request, WriteEdit(r)
         PROVE  Rows'
    BY <1>11, WriteEditRows
  <1>12. ASSUME NEW u \in User, Register(u)
         PROVE  Rows'
    <2>1. [password |-> "usable", enabled |-> FALSE, stamp |-> 0] \in Account
      BY DEF Account
    <2>2. QED
      BY <1>12, <2>1, AccountRows DEF Register
  <1>13. ASSUME NEW u \in User, VerifySignup(u)
         PROVE  Rows'
    <2>1. [accounts[u] EXCEPT !.enabled = TRUE] \in Account
      BY <1>13, RowTypes DEF VerifySignup, Rows, Account
    <2>2. QED
      BY <1>13, <2>1, AccountRows DEF VerifySignup
  <1>14. ASSUME NEW u \in User, UseAccount(u)
         PROVE  Rows'
    <2>1. [accounts[u] EXCEPT !.stamp = @ + 1] \in Account
      BY <1>14, RowTypes DEF UseAccount, Rows, Account
    <2>2. QED
      BY <1>14, <2>1, AccountRows DEF UseAccount
  <1>15. CASE UNCHANGED vars
    BY <1>15 DEF vars, Rows, TypeOK, References
  <1>16. QED
    BY <1>1, <1>2, <1>3, <1>4, <1>5, <1>6, <1>7, <1>8, <1>9, <1>10, <1>11, <1>12, <1>13,
       <1>14, <1>15 DEF Next, Command, Edit

LEMMA RowsInit == Init => Rows
  BY DEF Init, Empty, Rows, TypeOK, References, IsTable

(* Whatever requests, crashes and edits interleave, the tables hold rows   *)
(* of their types and no row or running request refers to a missing row.   *)
THEOREM TypeCorrect == Spec => []TypeOK
  <1>1. Spec => []Rows
    BY RowsInit, RowsStep, PTL DEF Spec
  <1>2. Rows => TypeOK
    BY DEF Rows
  <1>3. QED
    BY <1>1, <1>2, PTL

-----------------------------------------------------------------------------
(* The only steps that touch the invitations. *)
LEMMA InviteSteps ==
  ASSUME Rows, [Next]_vars
  PROVE  \/ UNCHANGED invites
         \/ \E r \in Request, m \in DOMAIN members, i \in Invitation : Issue(r, m, i)
         \/ \E i \in Invitation : Accept(i)
         \/ \E m \in Membership : Suspend(m) \/ Activate(m)
  <1>1. ASSUME NEW r \in Request, IssueCreated(r)
        PROVE  \/ UNCHANGED invites
               \/ \E i \in Invitation : Issue(r, requests[r].of, i)
    BY <1>1 DEF IssueCreated
  <1>2. \A r \in Request : IssueCreated(r) => requests[r].of \in DOMAIN members
    BY DEF IssueCreated, Rows, References
  <1>3. QED
    BY <1>1, <1>2 DEF Next, Command, Edit, Resend, vars, Expire, StartCreate, SetUnusable,
       InsertMember, SendMail, Abort, ReadForEdit, WriteEdit, Register, VerifySignup,
       UseAccount

(* After issuing i for m, the pending invitations are i and those of the   *)
(* other memberships.                                                      *)
LEMMA IssuePending ==
  ASSUME Rows, NEW r \in Request, NEW m \in DOMAIN members, NEW i \in Invitation,
         Issue(r, m, i)
  PROVE  /\ i \notin DOMAIN invites
         /\ \A j : j \in DOMAIN invites' <=> j \in DOMAIN invites \/ j = i
         /\ IsPending(i)' /\ invites'[i].of = m
         /\ \A j \in DOMAIN invites :
              /\ invites'[j].of = invites[j].of
              /\ IsPending(j)' <=> IsPending(j) /\ invites[j].of # m
              /\ invites'[j] # invites[j] =>
                   IsPending(j) /\ invites'[j] = [invites[j] EXCEPT !.revoked = TRUE]
  <1> DEFINE row == [of |-> m, token |-> accounts[UserOf(m)].stamp,
                     accepted |-> FALSE, revoked |-> FALSE]
             old == RevokePending(m, {})
  <1>1. TypeOK
    BY DEF Rows
  <1>2. /\ DOMAIN old = DOMAIN invites
        /\ \A j \in DOMAIN invites :
             /\ old[j].of = invites[j].of
             /\ old[j].accepted = invites[j].accepted
             /\ IF invites[j].of = m /\ IsPending(j)
                THEN old[j] = [invites[j] EXCEPT !.revoked = TRUE] /\ old[j].revoked
                ELSE old[j] = invites[j]
    BY <1>1, Revoked
  <1>3. row.of = m /\ ~row.accepted /\ ~row.revoked
    OBVIOUS
  <1>4. i \notin DOMAIN invites /\ invites' = Put(old, i, row)
    BY DEF Issue
  <1> HIDE DEF row, old
  <1>5. /\ DOMAIN invites' = DOMAIN invites \cup {i}
        /\ invites'[i] = row
        /\ \A j \in DOMAIN invites : invites'[j] = old[j]
    BY <1>2, <1>4 DEF Put
  <1>6. QED
    BY <1>2, <1>3, <1>4, <1>5 DEF IsPending

(* After a revocation that keeps nothing, none of m is pending. *)
LEMMA RevokePendingAll ==
  ASSUME Rows, NEW m, invites' = RevokePending(m, {})
  PROVE  /\ DOMAIN invites' = DOMAIN invites
         /\ \A j \in DOMAIN invites :
              /\ invites'[j].of = invites[j].of
              /\ IsPending(j)' <=> IsPending(j) /\ invites[j].of # m
              /\ invites'[j].accepted = invites[j].accepted
              /\ invites'[j] # invites[j] =>
                   IsPending(j) /\ invites'[j] = [invites[j] EXCEPT !.revoked = TRUE]
  BY Revoked DEF Rows, IsPending

(* After accepting i, none of its membership is pending and i is accepted. *)
LEMMA AcceptPending ==
  ASSUME Rows, NEW i \in Invitation, Accept(i)
  PROVE  /\ i \in DOMAIN invites /\ IsPending(i)
         /\ DOMAIN invites' = DOMAIN invites
         /\ invites'[i] = [invites[i] EXCEPT !.accepted = TRUE]
         /\ \A j \in DOMAIN invites :
              /\ invites'[j].of = invites[j].of
              /\ IsPending(j)' <=> IsPending(j) /\ invites[j].of # invites[i].of
              /\ invites'[j].accepted <=> invites[j].accepted \/ j = i
              /\ j # i /\ invites'[j] # invites[j] =>
                   IsPending(j) /\ invites'[j] = [invites[j] EXCEPT !.revoked = TRUE]
  <1> DEFINE m == invites[i].of
             row == [invites[i] EXCEPT !.accepted = TRUE]
             old == RevokePending(m, {i})
  <1>1. TypeOK /\ i \in DOMAIN invites /\ IsPending(i)
    BY DEF Rows, Accept
  <1>2. /\ DOMAIN old = DOMAIN invites
        /\ \A j \in DOMAIN invites :
             /\ old[j].of = invites[j].of
             /\ old[j].accepted = invites[j].accepted
             /\ IF invites[j].of = m /\ IsPending(j) /\ j \notin {i}
                THEN old[j] = [invites[j] EXCEPT !.revoked = TRUE] /\ old[j].revoked
                ELSE old[j] = invites[j]
    BY <1>1, Revoked
  <1>3. row.of = m /\ row.accepted = TRUE
    BY <1>1, RowTypes DEF Invite
  <1>4. invites' = Put(old, i, row)
    BY DEF Accept
  <1> HIDE DEF row, old
  <1>5. /\ DOMAIN invites' = DOMAIN invites
        /\ invites'[i] = row
        /\ \A j \in DOMAIN invites : j # i => invites'[j] = old[j]
    BY <1>1, <1>2, <1>4 DEF Put
  <1>6. \A j \in DOMAIN invites : j # i =>
          /\ invites'[j].of = invites[j].of
          /\ IsPending(j)' <=> IsPending(j) /\ invites[j].of # m
          /\ invites'[j].accepted = invites[j].accepted
          /\ invites'[j] # invites[j] =>
               IsPending(j) /\ invites'[j] = [invites[j] EXCEPT !.revoked = TRUE]
    BY <1>2, <1>5 DEF IsPending
  <1>7. ~IsPending(i)' /\ invites'[i].of = m /\ invites'[i].accepted
    BY <1>3, <1>5 DEF IsPending
  <1>8. QED
    BY <1>1, <1>5, <1>6, <1>7 DEF row

(* A membership never has two links that could both be accepted, for any   *)
(* number of administrators, organizations and resends.                    *)
THEOREM OnePending == Spec => []AtMostOnePending
  <1>1. Init => AtMostOnePending
    BY DEF Init, Empty, AtMostOnePending
  <1>2. Rows /\ AtMostOnePending /\ [Next]_vars => AtMostOnePending'
    <2> SUFFICES ASSUME Rows, AtMostOnePending, [Next]_vars,
                        NEW i \in DOMAIN invites', NEW j \in DOMAIN invites',
                        IsPending(i)', IsPending(j)', invites'[i].of = invites'[j].of
                 PROVE  i = j
      BY DEF AtMostOnePending
    <2>1. CASE UNCHANGED invites
      BY <2>1 DEF AtMostOnePending, IsPending
    <2>2. ASSUME NEW r \in Request, NEW m \in DOMAIN members, NEW k \in Invitation,
                 Issue(r, m, k)
          PROVE  i = j
      <3>1. /\ \A n \in DOMAIN invites' : n \in DOMAIN invites \/ n = k
            /\ invites'[k].of = m
        BY <2>2, IssuePending
      <3>2. \A n \in DOMAIN invites :
              /\ invites'[n].of = invites[n].of
              /\ IsPending(n)' => IsPending(n) /\ invites[n].of # m
        BY <2>2, IssuePending
      <3>3. CASE i = k \/ j = k
        BY <3>1, <3>2, <3>3
      <3>4. CASE i # k /\ j # k
        BY <3>1, <3>2, <3>4 DEF AtMostOnePending
      <3>5. QED
        BY <3>3, <3>4
    <2>3. ASSUME NEW k \in Invitation, Accept(k)
          PROVE  i = j
      BY <2>3, AcceptPending DEF AtMostOnePending
    <2>4. ASSUME NEW m \in Membership, Suspend(m) \/ Activate(m)
          PROVE  i = j
      <3>1. invites' = RevokePending(m, {})
        BY <2>4 DEF Suspend, Activate
      <3>2. QED
        BY <3>1, RevokePendingAll DEF AtMostOnePending
    <2>5. QED
      BY <2>1, <2>2, <2>3, <2>4, InviteSteps
  <1>3. QED
    BY <1>1, <1>2, RowsInit, RowsStep, PTL DEF Spec

(* Every step settles invitations in the one legal way. *)
LEMMA SettledStep == Rows /\ [Next]_vars => SettledOnce
  <1> SUFFICES ASSUME Rows, [Next]_vars
               PROVE  SettledOnce
    OBVIOUS
  <1>1. CASE UNCHANGED invites
    BY <1>1 DEF SettledOnce
  <1>2. ASSUME NEW r \in Request, NEW m \in DOMAIN members, NEW k \in Invitation,
               Issue(r, m, k)
        PROVE  SettledOnce
    BY <1>2, IssuePending DEF SettledOnce
  <1>3. ASSUME NEW k \in Invitation, Accept(k)
        PROVE  SettledOnce
    <2>1. \A i \in DOMAIN invites : i \in DOMAIN invites'
      BY <1>3, AcceptPending
    <2>2. IsPending(k) /\ invites'[k] = [invites[k] EXCEPT !.accepted = TRUE]
      BY <1>3, AcceptPending
    <2>3. \A i \in DOMAIN invites : i # k /\ invites'[i] # invites[i] =>
            IsPending(i) /\ invites'[i] = [invites[i] EXCEPT !.revoked = TRUE]
      BY <1>3, AcceptPending
    <2>4. QED
      BY <2>1, <2>2, <2>3 DEF SettledOnce
  <1>4. ASSUME NEW m \in Membership, Suspend(m) \/ Activate(m)
        PROVE  SettledOnce
    <2>1. invites' = RevokePending(m, {})
      BY <1>4 DEF Suspend, Activate
    <2>2. QED
      BY <2>1, RevokePendingAll DEF SettledOnce
  <1>5. QED
    BY <1>1, <1>2, <1>3, <1>4, InviteSteps

(* An invitation is settled once: no interleaving of resends, acceptances, *)
(* suspensions and edits un-settles it or gives it both outcomes.          *)
THEOREM InvitationsAreFinal == Spec => InvitationFinal
  BY SettledStep, RowsInit, RowsStep, PTL DEF Spec, InvitationFinal

-----------------------------------------------------------------------------
(* A request that still has to make a password unusable created the        *)
(* account, the password is still blank, and no other request is there.    *)
AtSetUnusable(r) == r \in DOMAIN requests /\ requests[r].at = "set_unusable"

Creators ==
  \A r \in Request : AtSetUnusable(r) =>
     /\ accounts[UserOf(requests[r].of)].password = "blank"
     /\ \A q \in Request :
          AtSetUnusable(q) /\ UserOf(requests[q].of) = UserOf(requests[r].of) => q = r

(* What a step can do to the password of an existing account. *)
LEMMA PasswordSteps ==
  ASSUME Rows, [Next]_vars, NEW u \in DOMAIN accounts
  PROVE  /\ u \in DOMAIN accounts'
         /\ \/ accounts'[u].password = accounts[u].password
            \/ accounts[u].password = "unusable"
            \/ \E r \in Request : SetUnusable(r) /\ UserOf(requests[r].of) = u
  <1>1. accounts[u] \in Account
    BY RowTypes DEF Rows
  <1>2. ASSUME NEW i \in Invitation, Accept(i)
        PROVE  /\ u \in DOMAIN accounts'
               /\ \/ accounts'[u].password = accounts[u].password
                  \/ accounts[u].password = "unusable"
    BY <1>2 DEF Accept, WithPassword, Put, HasUsablePassword
  <1>3. ASSUME NEW r \in Request, NEW m \in Membership, StartCreate(r, m)
        PROVE  u \in DOMAIN accounts' /\ accounts'[u].password = accounts[u].password
    BY <1>3 DEF StartCreate, Put
  <1>4. ASSUME NEW r \in Request, SetUnusable(r)
        PROVE  /\ u \in DOMAIN accounts'
               /\ \/ accounts'[u].password = accounts[u].password
                  \/ UserOf(requests[r].of) = u
    BY <1>4 DEF SetUnusable, WithPassword, Put
  <1>5. ASSUME NEW v \in User, Register(v) \/ VerifySignup(v) \/ UseAccount(v)
        PROVE  u \in DOMAIN accounts' /\ accounts'[u].password = accounts[u].password
    BY <1>1, <1>5 DEF Register, VerifySignup, UseAccount, Put, Account
  <1>6. CASE UNCHANGED accounts
    BY <1>6
  <1>7. QED
    BY <1>2, <1>3, <1>4, <1>5, <1>6 DEF Next, Command, Edit, Resend, Issue, Suspend,
       Activate, vars, Expire, InsertMember, IssueCreated, SendMail, Abort, ReadForEdit,
       WriteEdit

(* How a request comes to stand before set_unusable_password. *)
LEMMA CreatorSteps ==
  ASSUME [Next]_vars, NEW q \in Request, AtSetUnusable(q)'
  PROVE  \/ AtSetUnusable(q) /\ requests'[q] = requests[q] /\ ~SetUnusable(q)
         \/ \E m \in Membership : /\ StartCreate(q, m)
                                  /\ requests'[q].of = m
                                  /\ UserOf(m) \notin DOMAIN accounts
  <1>1. q \in DOMAIN requests' /\ requests'[q].at = "set_unusable"
    BY DEF AtSetUnusable
  <1>2. ASSUME NEW r, NEW step, requests' = Put(requests, r, step), step.at # "set_unusable"
        PROVE  AtSetUnusable(q) /\ requests'[q] = requests[q]
    BY <1>1, <1>2 DEF AtSetUnusable, Put
  <1>3. ASSUME NEW r, requests' = Delete(requests, r)
        PROVE  AtSetUnusable(q) /\ requests'[q] = requests[q]
    BY <1>1, <1>3 DEF AtSetUnusable, Delete
  <1>4. ASSUME UNCHANGED requests
        PROVE  AtSetUnusable(q) /\ requests'[q] = requests[q]
    BY <1>1, <1>4 DEF AtSetUnusable
  <1>5. ~SetUnusable(q)
    BY <1>1 DEF SetUnusable, Put
  <1>6. ASSUME NEW r \in Request, NEW m \in Membership, StartCreate(r, m)
        PROVE  \/ AtSetUnusable(q) /\ requests'[q] = requests[q]
               \/ q = r /\ requests'[q].of = m /\ UserOf(m) \notin DOMAIN accounts
    <2>1. CASE q = r
      BY <1>1, <1>6, <2>1 DEF StartCreate, Put, AfterGetOrCreate
    <2>2. CASE q # r
      BY <1>1, <1>6, <2>2 DEF StartCreate, Put, AtSetUnusable
    <2>3. QED
      BY <2>1, <2>2
  <1>7. ASSUME NEW r \in Request, NEW m, NEW i, Issue(r, m, i)
        PROVE  AtSetUnusable(q) /\ requests'[q] = requests[q]
    BY <1>2, <1>7 DEF Issue
  <1>8. ASSUME NEW r \in Request, NEW m \in Membership, ReadForEdit(r, m)
        PROVE  AtSetUnusable(q) /\ requests'[q] = requests[q]
    BY <1>2, <1>8 DEF ReadForEdit
  <1>9. ASSUME NEW r \in Request,
               \/ SetUnusable(r) \/ InsertMember(r) \/ IssueCreated(r)
               \/ SendMail(r) \/ Abort(r) \/ WriteEdit(r)
        PROVE  AtSetUnusable(q) /\ requests'[q] = requests[q]
    BY <1>2, <1>3, <1>7, <1>9 DEF SetUnusable, InsertMember, IssueCreated, SendMail, Abort,
       WriteEdit
  <1>10. QED
    BY <1>4, <1>5, <1>6, <1>7, <1>8, <1>9 DEF Next, Command, Edit, Resend, Accept, Expire,
       Suspend, Activate, Register, VerifySignup, UseAccount, vars

LEMMA CreatorsStep == Rows /\ Creators /\ [Next]_vars => Creators'
  <1> SUFFICES ASSUME Rows, Creators, [Next]_vars, NEW r \in Request, AtSetUnusable(r)'
               PROVE  /\ accounts'[UserOf(requests'[r].of)].password = "blank"
                      /\ \A q \in Request :
                           /\ AtSetUnusable(q)'
                           /\ UserOf(requests'[q].of) = UserOf(requests'[r].of)
                           => q = r
    BY DEF Creators
  <1>1. \A q \in Request : AtSetUnusable(q) => UserOf(requests[q].of) \in DOMAIN accounts
    BY DEF AtSetUnusable, Rows, References
  <1>2. CASE AtSetUnusable(r) /\ requests'[r] = requests[r] /\ ~SetUnusable(r)
    <2> DEFINE u == UserOf(requests[r].of)
    <2>1. u \in DOMAIN accounts /\ accounts[u].password = "blank"
      BY <1>1, <1>2 DEF Creators
    <2>2. \A q \in Request : SetUnusable(q) => UserOf(requests[q].of) # u
      BY <1>2 DEF Creators, SetUnusable, AtSetUnusable
    <2>3. accounts'[u].password = "blank"
      BY <2>1, <2>2, PasswordSteps
    <2>4. ASSUME NEW q \in Request, AtSetUnusable(q)', UserOf(requests'[q].of) = u
          PROVE  q = r
      BY <1>2, <2>1, <2>4, CreatorSteps DEF Creators
    <2>5. QED
      BY <1>2, <2>3, <2>4
  <1>3. ASSUME NEW m \in Membership, StartCreate(r, m), requests'[r].of = m,
               UserOf(m) \notin DOMAIN accounts
        PROVE  /\ accounts'[UserOf(m)].password = "blank"
               /\ \A q \in Request :
                    AtSetUnusable(q)' /\ UserOf(requests'[q].of) = UserOf(m) => q = r
    <2>1. accounts'[UserOf(m)].password = "blank"
      BY <1>3 DEF StartCreate, Put
    <2>2. ASSUME NEW q \in Request, AtSetUnusable(q)', UserOf(requests'[q].of) = UserOf(m)
          PROVE  q = r
      <3>1. CASE AtSetUnusable(q) /\ requests'[q] = requests[q]
        BY <1>1, <1>3, <2>2, <3>1
      <3>2. ASSUME NEW n \in Membership, StartCreate(q, n)
            PROVE  q = r
        BY <1>3, <2>2, <3>2 DEF StartCreate, Put, AtSetUnusable
      <3>3. QED
        BY <2>2, <3>1, <3>2, CreatorSteps
    <2>3. QED
      BY <2>1, <2>2
  <1>4. QED
    BY <1>2, <1>3, CreatorSteps

(* Inviting a person never resets the password they already have, even     *)
(* when several organizations invite them at once and requests die.        *)
THEOREM PasswordSurvives == Spec => PasswordKept
  <1>1. Init => Creators
    BY DEF Init, Empty, Creators, AtSetUnusable
  <1>2. Rows /\ Creators /\ [Next]_vars => [PasswordStays]_vars
    <2> SUFFICES ASSUME Rows, Creators, [Next]_vars,
                        NEW u \in DOMAIN accounts, accounts[u].password = "usable"
                 PROVE  u \in DOMAIN accounts' /\ accounts'[u].password = "usable"
      BY DEF PasswordStays
    <2>1. \A r \in Request : SetUnusable(r) => UserOf(requests[r].of) # u
      BY DEF Creators, SetUnusable, AtSetUnusable
    <2>2. QED
      BY <2>1, PasswordSteps
  <1>3. QED
    BY <1>1, <1>2, CreatorsStep, RowsInit, RowsStep, PTL DEF Spec, PasswordKept

-----------------------------------------------------------------------------
(* What one command does to the row of an existing membership. *)
LEMMA MemberSteps ==
  ASSUME Rows, [Command]_vars, NEW m \in DOMAIN members
  PROVE  /\ m \in DOMAIN members'
         /\ \/ members'[m] = members[m]
            \/ /\ members'[m].status # "invited"
               /\ members[m].activated => members'[m].activated
               /\ \/ Suspend(m) \/ Activate(m)
                  \/ \E i \in Invitation : Accept(i) /\ invites[i].of = m
  <1>1. TypeOK /\ References
    BY DEF Rows
  <1>2. ASSUME NEW n \in DOMAIN members, NEW status \in {"active", "suspended"},
               members' = WithStatus(n, status)
        PROVE  /\ m \in DOMAIN members'
               /\ \/ members'[m] = members[m]
                  \/ /\ n = m
                     /\ members'[m].status # "invited"
                     /\ members[m].activated => members'[m].activated
    <2>1. status \in Status /\ status # "invited"
      BY DEF Status
    <2>2. QED
      BY <1>1, <1>2, <2>1, StatusWritten
  <1>3. ASSUME NEW i \in Invitation, Accept(i)
        PROVE  /\ m \in DOMAIN members'
               /\ \/ members'[m] = members[m]
                  \/ /\ members'[m].status # "invited"
                     /\ members[m].activated => members'[m].activated
                     /\ Accept(i) /\ invites[i].of = m
    <2>1. invites[i].of \in DOMAIN members /\ members' = WithStatus(invites[i].of, "active")
      BY <1>1, <1>3 DEF Accept, References
    <2>2. QED
      BY <1>2, <1>3, <2>1
  <1>4. ASSUME NEW n \in Membership, Suspend(n)
        PROVE  /\ m \in DOMAIN members'
               /\ \/ members'[m] = members[m]
                  \/ /\ members'[m].status # "invited"
                     /\ members[m].activated => members'[m].activated
                     /\ Suspend(m)
    <2>1. n \in DOMAIN members /\ members' = WithStatus(n, "suspended")
      BY <1>4 DEF Suspend
    <2>2. QED
      BY <1>2, <1>4, <2>1
  <1>5. ASSUME NEW n \in Membership, Activate(n)
        PROVE  /\ m \in DOMAIN members'
               /\ \/ members'[m] = members[m]
                  \/ /\ members'[m].status # "invited"
                     /\ members[m].activated => members'[m].activated
                     /\ Activate(m)
    <2>1. n \in DOMAIN members /\ members' = WithStatus(n, "active")
      BY <1>5 DEF Activate
    <2>2. QED
      BY <1>2, <1>5, <2>1
  <1>6. ASSUME NEW r \in Request, InsertMember(r)
        PROVE  m \in DOMAIN members' /\ members'[m] = members[m]
    BY <1>6 DEF InsertMember, Put
  <1>7. CASE UNCHANGED members
    BY <1>7
  <1>8. QED
    BY <1>3, <1>4, <1>5, <1>6, <1>7 DEF Command, vars, Resend, Issue, IssueCreated, Expire,
       StartCreate, SetUnusable, SendMail, Abort, Register, VerifySignup, UseAccount

(* What writing a stale row back does to the memberships. *)
LEMMA EditSteps ==
  ASSUME Rows, NEW r \in Request, WriteEdit(r)
  PROVE  /\ requests[r].of \in DOMAIN members /\ requests[r].row \in Member
         /\ DOMAIN members' = DOMAIN members
         /\ members'[requests[r].of] = Saved(requests[r].row)
         /\ \A m \in DOMAIN members : m # requests[r].of => members'[m] = members[m]
  <1> DEFINE n == requests[r].of
             row == Saved(requests[r].row)
  <1>1. /\ r \in DOMAIN requests /\ requests[r].at = "write"
        /\ members' = Put(members, n, row)
    BY DEF WriteEdit
  <1>2. n \in DOMAIN members /\ requests[r].row \in Member
    BY <1>1, RowTypes DEF Rows, References, EditRequest
  <1> HIDE DEF n, row
  <1>3. /\ DOMAIN members' = DOMAIN members
        /\ members'[n] = row
        /\ \A m \in DOMAIN members : m # n => members'[m] = members[m]
    BY <1>1, <1>2 DEF Put
  <1>4. QED
    BY <1>2, <1>3 DEF n, row

(* No step but an activation or a stale edit ends a suspension: the link   *)
(* of a suspended membership is refused, and a second create request meets *)
(* the unique constraint.                                                  *)
LEMMA SuspensionStep == Rows /\ [Next]_vars => SuspensionStays
  <1> SUFFICES ASSUME Rows, [Next]_vars, NEW m \in DOMAIN members,
                      members[m].status = "suspended"
               PROVE  /\ m \in DOMAIN members'
                      /\ \/ members'[m].status = "suspended"
                         \/ Activate(m)
                         \/ \E r \in DOMAIN requests : /\ WriteEdit(r)
                                                       /\ requests[r].of = m
                                                       /\ requests[r].row.status # "suspended"
    BY DEF SuspensionStays
  <1>1. CASE [Command]_vars
    <2>1. \A i \in Invitation : ~(Accept(i) /\ invites[i].of = m)
      BY DEF Accept
    <2>2. ~Suspend(m)
      BY DEF Suspend
    <2>3. QED
      BY <1>1, <2>1, <2>2, MemberSteps
  <1>2. ASSUME NEW r \in Request, NEW n \in Membership, ReadForEdit(r, n)
        PROVE  m \in DOMAIN members' /\ members'[m] = members[m]
    BY <1>2 DEF ReadForEdit
  <1>3. ASSUME NEW r \in Request, WriteEdit(r)
        PROVE  /\ m \in DOMAIN members'
               /\ \/ members'[m].status = "suspended"
                  \/ /\ r \in DOMAIN requests
                     /\ requests[r].of = m
                     /\ requests[r].row.status # "suspended"
    <2>1. r \in DOMAIN requests
      BY <1>3 DEF WriteEdit
    <2>2. Saved(requests[r].row).status = requests[r].row.status
      BY <1>3, EditSteps, SavedMember
    <2>3. QED
      BY <1>3, <2>1, <2>2, EditSteps
  <1>4. QED
    BY <1>1, <1>2, <1>3 DEF Next, Edit

(* A suspension lasts until somebody activates the membership again, or an *)
(* edit that read it before the suspension writes the old status back.     *)
THEOREM SuspensionLasts == Spec => SuspensionKept
  BY SuspensionStep, RowsInit, RowsStep, PTL DEF Spec, SuspensionKept

(* The rows that edits will write back agree with their dates as well.     *)
Dated(row) ==
  /\ row.status = "active" => row.activated /\ ~row.suspended
  /\ row.status = "suspended" => row.suspended
  /\ row.status = "invited" => ~row.activated /\ ~row.suspended

Dates ==
  /\ \A m \in DOMAIN members : Dated(members[m])
  /\ \A r \in DOMAIN requests : requests[r].at = "write" => Dated(requests[r].row)

(* save() makes the dates agree when a command sets the status, and keeps  *)
(* them when an edit writes a row back.                                    *)
LEMMA SavedDated ==
  ASSUME NEW row \in Member, Dated(row)
  PROVE  /\ Dated(Saved(row))
         /\ \A status \in {"active", "suspended"} :
               Dated(Saved([row EXCEPT !.status = status]))
  <1>1. Dated(Saved(row))
    BY DEF Saved, Dated, Member
  <1>2. Dated(Saved([row EXCEPT !.status = "active"]))
    BY DEF Saved, Dated, Member
  <1>3. Dated(Saved([row EXCEPT !.status = "suspended"]))
    BY DEF Saved, Dated, Member
  <1>4. QED
    BY <1>1, <1>2, <1>3

LEMMA StatusDated ==
  ASSUME Rows, Dates, NEW n \in DOMAIN members, NEW status \in {"active", "suspended"},
         members' = WithStatus(n, status)
  PROVE  \A m \in DOMAIN members' : Dated(members'[m])
  <1> DEFINE row == Saved([members[n] EXCEPT !.status = status])
  <1>1. members[n] \in Member /\ Dated(members[n])
    BY RowTypes DEF Rows, Dates
  <1>2. Dated(row)
    BY <1>1, SavedDated
  <1>3. members' = Put(members, n, row)
    BY DEF WithStatus
  <1> HIDE DEF row
  <1>4. \A m \in DOMAIN members' : m \in DOMAIN members
                                  /\ members'[m] = IF m = n THEN row ELSE members[m]
    BY <1>3 DEF Put
  <1>5. QED
    BY <1>2, <1>4 DEF Dates

(* An edit that waits to write was there before, or has just read its row. *)
LEMMA EditRequests ==
  ASSUME [Next]_vars, NEW r \in DOMAIN requests', requests'[r].at = "write"
  PROVE  \/ r \in DOMAIN requests /\ requests'[r] = requests[r]
         \/ \E m \in DOMAIN members : requests'[r].row = members[m]
  <1>1. ASSUME NEW q, NEW row, row.at # "write", requests' = Put(requests, q, row)
        PROVE  r \in DOMAIN requests /\ requests'[r] = requests[r]
    BY <1>1 DEF Put
  <1>2. ASSUME NEW q, requests' = Delete(requests, q)
        PROVE  r \in DOMAIN requests /\ requests'[r] = requests[r]
    BY <1>2 DEF Delete
  <1>3. ASSUME NEW q \in Request, NEW m, NEW i, Issue(q, m, i)
        PROVE  r \in DOMAIN requests /\ requests'[r] = requests[r]
    BY <1>1, <1>3 DEF Issue
  <1>4. ASSUME NEW q \in Request, NEW m \in Membership, StartCreate(q, m)
        PROVE  r \in DOMAIN requests /\ requests'[r] = requests[r]
    <2> DEFINE row == [at |-> AfterGetOrCreate(UserOf(m)), of |-> m]
    <2>1. row.at # "write"
      BY DEF AfterGetOrCreate
    <2>2. requests' = Put(requests, q, row)
      BY <1>4 DEF StartCreate
    <2> HIDE DEF row
    <2>3. QED
      BY <1>1, <2>1, <2>2
  <1>5. ASSUME NEW q \in Request, SetUnusable(q)
        PROVE  r \in DOMAIN requests /\ requests'[r] = requests[r]
    BY <1>1, <1>5 DEF SetUnusable
  <1>6. ASSUME NEW q \in Request, InsertMember(q)
        PROVE  r \in DOMAIN requests /\ requests'[r] = requests[r]
    BY <1>1, <1>2, <1>6 DEF InsertMember
  <1>7. ASSUME NEW q \in Request, IssueCreated(q)
        PROVE  r \in DOMAIN requests /\ requests'[r] = requests[r]
    BY <1>2, <1>3, <1>7 DEF IssueCreated
  <1>8. ASSUME NEW q \in Request, SendMail(q) \/ Abort(q) \/ WriteEdit(q)
        PROVE  r \in DOMAIN requests /\ requests'[r] = requests[r]
    BY <1>2, <1>8 DEF SendMail, Abort, WriteEdit
  <1>9. ASSUME NEW q \in Request, NEW m \in Membership, ReadForEdit(q, m)
        PROVE  \/ r \in DOMAIN requests /\ requests'[r] = requests[r]
               \/ m \in DOMAIN members /\ requests'[r].row = members[m]
    <2> DEFINE row == [at |-> "write", of |-> m, row |-> members[m]]
    <2>1. /\ m \in DOMAIN members /\ row.row = members[m]
          /\ requests' = Put(requests, q, row)
      BY <1>9 DEF ReadForEdit
    <2> HIDE DEF row
    <2>2. QED
      BY <2>1 DEF Put
  <1>10. CASE UNCHANGED requests
    BY <1>10
  <1>11. ASSUME NEW q \in Request, NEW m \in Membership, NEW i \in Invitation, Resend(q, m, i)
         PROVE  r \in DOMAIN requests /\ requests'[r] = requests[r]
    BY <1>3, <1>11 DEF Resend
  <1>12. ASSUME NEW i \in Invitation, Accept(i) \/ Expire(i)
         PROVE  r \in DOMAIN requests /\ requests'[r] = requests[r]
    BY <1>12 DEF Accept, Expire
  <1>13. ASSUME NEW m \in Membership, Suspend(m) \/ Activate(m)
         PROVE  r \in DOMAIN requests /\ requests'[r] = requests[r]
    BY <1>13 DEF Suspend, Activate
  <1>14. ASSUME NEW u \in User, Register(u) \/ VerifySignup(u) \/ UseAccount(u)
         PROVE  r \in DOMAIN requests /\ requests'[r] = requests[r]
    BY <1>14 DEF Register, VerifySignup, UseAccount
  <1>15. CASE UNCHANGED vars
    BY <1>10, <1>15 DEF vars
  <1>16. QED
    BY <1>4, <1>5, <1>6, <1>7, <1>8, <1>9, <1>11, <1>12, <1>13, <1>14, <1>15
       DEF Next, Command, Edit

LEMMA DatesStep == Rows /\ Dates /\ [Next]_vars => Dates'
  <1> SUFFICES ASSUME Rows, Dates, [Next]_vars
               PROVE  Dates'
    OBVIOUS
  <1>1. \A r \in DOMAIN requests' : requests'[r].at = "write" => Dated(requests'[r].row)
    BY EditRequests DEF Dates
  <1>2. ASSUME NEW i \in Invitation, Accept(i)
        PROVE  \A m \in DOMAIN members' : Dated(members'[m])
    <2>1. invites[i].of \in DOMAIN members /\ members' = WithStatus(invites[i].of, "active")
      BY <1>2 DEF Accept, Rows, References
    <2>2. QED
      BY <2>1, StatusDated
  <1>3. ASSUME NEW n \in Membership, Suspend(n)
        PROVE  \A m \in DOMAIN members' : Dated(members'[m])
    BY <1>3, StatusDated DEF Suspend
  <1>4. ASSUME NEW n \in Membership, Activate(n)
        PROVE  \A m \in DOMAIN members' : Dated(members'[m])
    BY <1>4, StatusDated DEF Activate
  <1>5. ASSUME NEW r \in Request, InsertMember(r)
        PROVE  \A m \in DOMAIN members' : Dated(members'[m])
    <2> DEFINE row == [status |-> "invited", activated |-> FALSE, suspended |-> FALSE]
    <2>1. Dated(Saved(row))
      BY DEF Saved, Dated
    <2>2. UNCHANGED members \/ members' = Put(members, requests[r].of, Saved(row))
      BY <1>5 DEF InsertMember
    <2> HIDE DEF row
    <2>3. QED
      BY <2>1, <2>2 DEF Dates, Put
  <1>6. ASSUME NEW r \in Request, WriteEdit(r)
        PROVE  \A m \in DOMAIN members' : Dated(members'[m])
    <2>1. Dated(requests[r].row)
      BY <1>6 DEF WriteEdit, Dates
    <2>2. Dated(Saved(requests[r].row))
      BY <1>6, <2>1, EditSteps, SavedDated
    <2>3. QED
      BY <1>6, <2>2, EditSteps DEF Dates
  <1>7. UNCHANGED members => \A m \in DOMAIN members' : Dated(members'[m])
    BY DEF Dates
  <1>8. \A m \in DOMAIN members' : Dated(members'[m])
    BY <1>2, <1>3, <1>4, <1>5, <1>6, <1>7 DEF Next, Command, Edit, Resend, Issue,
       IssueCreated, StartCreate, SetUnusable, SendMail, Abort, Expire, Register,
       VerifySignup, UseAccount, ReadForEdit, vars
  <1>9. QED
    BY <1>1, <1>8 DEF Dates

(* The recorded dates follow the status, although edits write old rows     *)
(* back over newer commands: they write the old dates too.                 *)
THEOREM DatesAgree == Spec => []DatesFollowStatus
  <1>1. Init => Dates
    BY DEF Init, Empty, Dates
  <1>2. Dates => DatesFollowStatus
    BY DEF Dates, Dated, DatesFollowStatus
  <1>3. QED
    BY <1>1, <1>2, DatesStep, RowsInit, RowsStep, PTL DEF Spec

-----------------------------------------------------------------------------
(* An existing invitation stays with its membership and is pending only if *)
(* it was.                                                                 *)
LEMMA OldInvites ==
  ASSUME Rows, [Next]_vars, NEW i \in DOMAIN invites
  PROVE  /\ i \in DOMAIN invites'
         /\ invites'[i].of = invites[i].of
         /\ IsPending(i)' => IsPending(i)
  <1>1. /\ i \in DOMAIN invites'
        /\ invites'[i] # invites[i] =>
             /\ IsPending(i)
             /\ \/ invites'[i] = [invites[i] EXCEPT !.accepted = TRUE]
                \/ invites'[i] = [invites[i] EXCEPT !.revoked = TRUE]
    BY SettledStep DEF SettledOnce
  <1>2. invites[i] \in Invite
    BY RowTypes DEF Rows
  <1>3. QED
    BY <1>1, <1>2 DEF Invite, IsPending

(* An invitation becomes accepted by its link only. *)
LEMMA NewlyAccepted ==
  ASSUME Rows, [Next]_vars, NEW i \in DOMAIN invites,
         invites'[i].accepted, ~invites[i].accepted
  PROVE  i \in Invitation /\ Accept(i)
  <1>1. invites'[i] # invites[i]
    OBVIOUS
  <1>2. ASSUME invites'[i] = [invites[i] EXCEPT !.revoked = TRUE]
        PROVE  FALSE
    <2>1. invites[i] \in Invite
      BY RowTypes DEF Rows
    <2>2. QED
      BY <1>2, <2>1 DEF Invite
  <1>3. ASSUME NEW r \in Request, NEW m \in DOMAIN members, NEW k \in Invitation,
               Issue(r, m, k)
        PROVE  FALSE
    BY <1>1, <1>2, <1>3, IssuePending
  <1>4. ASSUME NEW m \in Membership, Suspend(m) \/ Activate(m)
        PROVE  FALSE
    <2>1. invites' = RevokePending(m, {})
      BY <1>4 DEF Suspend, Activate
    <2>2. QED
      BY <1>1, <1>2, <2>1, RevokePendingAll
  <1>5. ASSUME NEW k \in Invitation, Accept(k)
        PROVE  i = k
    BY <1>1, <1>2, <1>5, AcceptPending
  <1>6. \E k \in Invitation : Accept(k)
    BY <1>1, <1>3, <1>4, InviteSteps
  <1>7. QED
    BY <1>5, <1>6

(* A new invitation is not accepted yet, and its membership is invited. *)
LEMMA NewInvites ==
  ASSUME Rows, [Next]_vars, NEW i \in DOMAIN invites', i \notin DOMAIN invites
  PROVE  /\ ~invites'[i].accepted
         /\ invites'[i].of \in DOMAIN members
         /\ members[invites'[i].of].status = "invited"
         /\ UNCHANGED members
  <1>1. ASSUME NEW k \in Invitation, Accept(k)
        PROVE  FALSE
    BY <1>1, AcceptPending
  <1>2. ASSUME NEW m \in Membership, Suspend(m) \/ Activate(m)
        PROVE  FALSE
    <2>1. invites' = RevokePending(m, {})
      BY <1>2 DEF Suspend, Activate
    <2>2. QED
      BY <2>1, RevokePendingAll
  <1>3. PICK r \in Request, m \in DOMAIN members, k \in Invitation : Issue(r, m, k)
    BY <1>1, <1>2, InviteSteps
  <1>4. i = k /\ IsPending(k)' /\ invites'[k].of = m
    BY <1>3, IssuePending
  <1>5. members[m].status = "invited" /\ UNCHANGED members
    BY <1>3 DEF Issue
  <1>6. QED
    BY <1>4, <1>5 DEF IsPending

-----------------------------------------------------------------------------
(* The membership of an accepted invitation records that it was activated  *)
(* and never awaits acceptance again.                                      *)
AcceptedWasActivated ==
  \A i \in DOMAIN invites :
     invites[i].accepted =>
        /\ members[invites[i].of].activated
        /\ members[invites[i].of].status # "invited"

(* The three facts that hold together while nobody edits. *)
Links == PendingIsInvited /\ AcceptedWasActivated /\ AtMostOneAccepted

LEMMA CommandIsNext == [Command]_vars => [Next]_vars
  BY DEF Next

(* A step that changes the membership of a pending link settles the link. *)
LEMMA PendingStep ==
  Rows /\ PendingIsInvited /\ [Command]_vars => PendingIsInvited'
  <1> SUFFICES ASSUME Rows, PendingIsInvited, [Command]_vars,
                      NEW i \in DOMAIN invites', IsPending(i)'
               PROVE  members'[invites'[i].of].status = "invited"
    BY DEF PendingIsInvited
  <1>1. [Next]_vars
    BY CommandIsNext
  <1>2. CASE i \in DOMAIN invites
    <2> DEFINE m == invites[i].of
    <2>1. IsPending(i) /\ invites'[i].of = m
      BY <1>1, <1>2, OldInvites
    <2>2. m \in DOMAIN members /\ members[m].status = "invited"
      BY <1>2, <2>1 DEF PendingIsInvited, Rows, References
    <2>3. ASSUME NEW j \in Invitation, Accept(j), invites[j].of = m
          PROVE  FALSE
      BY <1>2, <2>3, AcceptPending
    <2>4. ASSUME Suspend(m) \/ Activate(m)
          PROVE  FALSE
      <3>1. invites' = RevokePending(m, {})
        BY <2>4 DEF Suspend, Activate
      <3>2. QED
        BY <1>2, <3>1, RevokePendingAll
    <2>5. members'[m] = members[m]
      BY <2>2, <2>3, <2>4, MemberSteps
    <2>6. QED
      BY <2>1, <2>2, <2>5
  <1>3. CASE i \notin DOMAIN invites
    BY <1>1, <1>3, NewInvites
  <1>4. QED
    BY <1>2, <1>3

(* Acceptance activates the membership, and no command undoes that. *)
LEMMA ActivatedStep ==
  Rows /\ AcceptedWasActivated /\ [Command]_vars => AcceptedWasActivated'
  <1> SUFFICES ASSUME Rows, AcceptedWasActivated, [Command]_vars,
                      NEW i \in DOMAIN invites', invites'[i].accepted
               PROVE  /\ members'[invites'[i].of].activated
                      /\ members'[invites'[i].of].status # "invited"
    BY DEF AcceptedWasActivated
  <1> DEFINE m == invites[i].of
  <1>1. [Next]_vars
    BY CommandIsNext
  <1>2. i \in DOMAIN invites /\ invites'[i].of = m /\ m \in DOMAIN members
    <2>1. i \in DOMAIN invites
      BY <1>1, NewInvites
    <2>2. QED
      BY <1>1, <2>1, OldInvites DEF Rows, References
  <1>3. CASE invites[i].accepted
    <2>1. members[m].activated /\ members[m].status # "invited"
      BY <1>2, <1>3 DEF AcceptedWasActivated
    <2>2. \/ members'[m] = members[m]
          \/ /\ members'[m].status # "invited"
             /\ members[m].activated => members'[m].activated
      BY <1>2, MemberSteps
    <2>3. QED
      BY <1>2, <2>1, <2>2
  <1>4. CASE ~invites[i].accepted
    <2>1. Accept(i)
      BY <1>1, <1>2, <1>4, NewlyAccepted
    <2>2. members' = WithStatus(m, "active")
      BY <2>1 DEF Accept
    <2>3. members'[m].activated /\ members'[m].status = "active"
      BY <1>2, <2>2, StatusWritten DEF Rows, Status
    <2>4. QED
      BY <1>2, <2>3
  <1>5. QED
    BY <1>3, <1>4

(* A membership with an accepted invitation is not invited, so a second    *)
(* link of it cannot be accepted.                                          *)
LEMMA AcceptedStep ==
  Rows /\ Links /\ [Command]_vars => AtMostOneAccepted'
  <1> SUFFICES ASSUME Rows, Links, [Command]_vars,
                      NEW i \in DOMAIN invites', NEW j \in DOMAIN invites',
                      invites'[i].accepted, invites'[j].accepted,
                      invites'[i].of = invites'[j].of
               PROVE  i = j
    BY DEF AtMostOneAccepted
  <1>1. [Next]_vars
    BY CommandIsNext
  <1>2. i \in DOMAIN invites /\ j \in DOMAIN invites
    BY <1>1, NewInvites
  <1>3. invites[i].of = invites[j].of
    BY <1>1, <1>2, OldInvites
  <1>4. ASSUME NEW k \in DOMAIN invites, NEW n \in DOMAIN invites,
               invites'[k].accepted, ~invites[k].accepted, invites[n].accepted,
               invites[k].of = invites[n].of
        PROVE  FALSE
    <2>1. Accept(k)
      BY <1>1, <1>4, NewlyAccepted
    <2>2. members[invites[k].of].status = "invited"
      BY <2>1 DEF Accept
    <2>3. QED
      BY <1>4, <2>2 DEF Links, AcceptedWasActivated
  <1>5. CASE invites[i].accepted /\ invites[j].accepted
    BY <1>2, <1>3, <1>5 DEF Links, AtMostOneAccepted
  <1>6. CASE ~invites[i].accepted /\ ~invites[j].accepted
    <2>1. i \in Invitation /\ Accept(i) /\ j \in Invitation /\ Accept(j)
      BY <1>1, <1>2, <1>6, NewlyAccepted
    <2>2. IsPending(i) /\ IsPending(j)
      BY <2>1 DEF Accept
    <2>3. i # j => invites'[j] = invites[j] \/ invites'[j] = [invites[j] EXCEPT !.revoked = TRUE]
      BY <1>2, <2>1, AcceptPending
    <2>4. invites[j] \in Invite
      BY <1>2, RowTypes DEF Rows
    <2>5. i # j => ~invites'[j].accepted
      BY <1>6, <2>3, <2>4 DEF Invite
    <2>6. QED
      BY <2>5
  <1>7. QED
    BY <1>2, <1>3, <1>4, <1>5, <1>6

LEMMA CommandInvariant == CommandSpec => [](Rows /\ Links)
  <1>1. Init => Links
    BY DEF Init, Empty, Links, PendingIsInvited, AcceptedWasActivated, AtMostOneAccepted
  <1>2. Rows /\ Links /\ [Command]_vars => Rows' /\ Links'
    BY CommandIsNext, RowsStep, PendingStep, ActivatedStep, AcceptedStep DEF Links
  <1>3. QED
    BY <1>1, <1>2, RowsInit, PTL DEF CommandSpec

(* While nobody edits memberships, suspending or activating one leaves no  *)
(* link behind that could still be accepted.                               *)
THEOREM NoLinkLeftBehind == CommandSpec => []PendingIsInvited
  BY CommandInvariant, PTL DEF Links

(* While nobody edits memberships, each is accepted by link at most once.  *)
THEOREM AcceptedOnce == CommandSpec => []AtMostOneAccepted
  BY CommandInvariant, PTL DEF Links

-----------------------------------------------------------------------------
(* What can be said of a membership that awaits acceptance. *)
LinkPending(m) == \E i \in DOMAIN invites : IsPending(i) /\ invites[i].of = m
AboutToIssue(r, m) == r \in DOMAIN requests /\ requests[r].at = "issue" /\ requests[r].of = m

(* A pending link lasts while its membership awaits acceptance. *)
LEMMA PendingLasts ==
  ASSUME Rows, [Command]_vars, NEW m \in DOMAIN members, LinkPending(m),
         members'[m].status = "invited"
  PROVE  LinkPending(m)'
  <1>1. PICK j \in DOMAIN invites : IsPending(j) /\ invites[j].of = m
    BY DEF LinkPending
  <1>2. [Next]_vars /\ TypeOK
    BY CommandIsNext DEF Rows
  <1>3. CASE UNCHANGED invites
    BY <1>1, <1>3 DEF LinkPending, IsPending
  <1>4. ASSUME NEW r \in Request, NEW n \in DOMAIN members, NEW i \in Invitation,
               Issue(r, n, i)
        PROVE  LinkPending(m)'
    <2>1. CASE n = m
      BY <1>4, <2>1, IssuePending DEF LinkPending
    <2>2. CASE n # m
      BY <1>1, <1>4, <2>2, IssuePending DEF LinkPending
    <2>3. QED
      BY <2>1, <2>2
  <1>5. ASSUME NEW i \in Invitation, Accept(i)
        PROVE  LinkPending(m)'
    <2>1. invites[i].of # m
      <3>1. invites[i].of \in DOMAIN members /\ members' = WithStatus(invites[i].of, "active")
        BY <1>5 DEF Accept, Rows, References
      <3>2. members'[invites[i].of].status = "active"
        BY <1>2, <3>1, StatusWritten DEF Status
      <3>3. QED
        BY <3>2
    <2>2. QED
      BY <1>1, <1>5, <2>1, AcceptPending DEF LinkPending
  <1>6. ASSUME NEW n \in Membership, NEW status \in {"active", "suspended"},
               n \in DOMAIN members, members' = WithStatus(n, status),
               invites' = RevokePending(n, {})
        PROVE  LinkPending(m)'
    <2>1. members'[n].status = status
      BY <1>2, <1>6, StatusWritten DEF Status
    <2>2. n # m
      BY <2>1
    <2>3. QED
      BY <1>1, <1>6, <2>2, RevokePendingAll DEF LinkPending
  <1>7. ASSUME NEW n \in Membership, Suspend(n) \/ Activate(n)
        PROVE  LinkPending(m)'
    BY <1>6, <1>7 DEF Suspend, Activate
  <1>8. QED
    BY <1>2, <1>3, <1>4, <1>5, <1>7, InviteSteps

(* A create request that is about to issue a link does so, or finds the    *)
(* membership settled, or dies, which is recorded.                         *)
LEMMA IssuerLasts ==
  ASSUME Rows, [Command]_vars, NEW m \in DOMAIN members, members[m].status = "invited",
         NEW r \in Request, AboutToIssue(r, m)
  PROVE  LinkPending(m)' \/ AboutToIssue(r, m)' \/ m \in abandoned'
  <1>1. ASSUME NEW q \in Request, q # r, NEW row,
               requests' = Put(requests, q, row) \/ requests' = Delete(requests, q)
        PROVE  AboutToIssue(r, m)'
    BY <1>1 DEF AboutToIssue, Put, Delete
  <1>2. ASSUME NEW q \in Request, NEW n \in Membership, NEW i \in Invitation, Resend(q, n, i)
        PROVE  AboutToIssue(r, m)'
    BY <1>1, <1>2 DEF Resend, Issue, AboutToIssue
  <1>3. ASSUME NEW q \in Request, NEW n \in Membership, StartCreate(q, n)
        PROVE  AboutToIssue(r, m)'
    BY <1>1, <1>3 DEF StartCreate, AboutToIssue
  <1>4. ASSUME NEW q \in Request, SetUnusable(q)
        PROVE  AboutToIssue(r, m)'
    BY <1>1, <1>4 DEF SetUnusable, AboutToIssue
  <1>5. ASSUME NEW q \in Request, InsertMember(q)
        PROVE  AboutToIssue(r, m)'
    BY <1>1, <1>5 DEF InsertMember, AboutToIssue
  <1>6. ASSUME NEW q \in Request, SendMail(q)
        PROVE  AboutToIssue(r, m)'
    BY <1>1, <1>6 DEF SendMail, AboutToIssue
  <1>7. ASSUME NEW q \in Request, Abort(q)
        PROVE  AboutToIssue(r, m)' \/ m \in abandoned'
    <2>1. CASE q = r
      BY <1>7, <2>1, RowTypes DEF Abort, AboutToIssue, Rows
    <2>2. CASE q # r
      BY <1>1, <1>7, <2>2 DEF Abort
    <2>3. QED
      BY <2>1, <2>2
  <1>8. ASSUME NEW q \in Request, IssueCreated(q)
        PROVE  LinkPending(m)' \/ AboutToIssue(r, m)'
    <2>1. CASE q # r
      BY <1>1, <1>8, <2>1 DEF IssueCreated, Issue
    <2>2. CASE q = r
      <3>1. PICK i \in Invitation : Issue(r, m, i)
        BY <1>8, <2>2 DEF IssueCreated, AboutToIssue
      <3>2. QED
        BY <3>1, IssuePending DEF LinkPending
    <2>3. QED
      BY <2>1, <2>2
  <1>9. UNCHANGED requests => AboutToIssue(r, m)'
    BY DEF AboutToIssue
  <1>10. ASSUME NEW i \in Invitation, Accept(i) \/ Expire(i)
         PROVE  AboutToIssue(r, m)'
    BY <1>9, <1>10 DEF Accept, Expire
  <1>11. ASSUME NEW n \in Membership, Suspend(n) \/ Activate(n)
         PROVE  AboutToIssue(r, m)'
    BY <1>9, <1>11 DEF Suspend, Activate
  <1>12. ASSUME NEW u \in User, Register(u) \/ VerifySignup(u) \/ UseAccount(u)
         PROVE  AboutToIssue(r, m)'
    BY <1>9, <1>12 DEF Register, VerifySignup, UseAccount
  <1>13. CASE UNCHANGED vars
    BY <1>9, <1>13 DEF vars
  <1>14. QED
    BY <1>2, <1>3, <1>4, <1>5, <1>6, <1>7, <1>8, <1>10, <1>11, <1>12, <1>13 DEF Command

(* The record that a creating request died is withdrawn by a new link only. *)
LEMMA AbandonedLasts ==
  ASSUME Rows, [Command]_vars, NEW m \in DOMAIN members, m \in abandoned
  PROVE  LinkPending(m)' \/ m \in abandoned'
  <1>1. ASSUME NEW r \in Request, NEW n \in DOMAIN members, NEW i \in Invitation, Issue(r, n, i)
        PROVE  LinkPending(m)' \/ m \in abandoned'
    <2>1. CASE n = m
      BY <1>1, <2>1, IssuePending DEF LinkPending
    <2>2. CASE n # m
      BY <1>1, <2>2 DEF Issue
    <2>3. QED
      BY <2>1, <2>2
  <1>2. ASSUME NEW r \in Request, NEW n \in Membership, NEW i \in Invitation, Resend(r, n, i)
        PROVE  LinkPending(m)' \/ m \in abandoned'
    BY <1>1, <1>2 DEF Resend
  <1>3. ASSUME NEW r \in Request, IssueCreated(r)
        PROVE  LinkPending(m)' \/ m \in abandoned'
    <2>1. requests[r].of \in DOMAIN members
      BY <1>3 DEF IssueCreated, Rows, References
    <2>2. QED
      BY <1>1, <1>3, <2>1 DEF IssueCreated
  <1>4. ASSUME NEW r \in Request, Abort(r)
        PROVE  m \in abandoned'
    BY <1>4 DEF Abort
  <1>5. UNCHANGED abandoned => m \in abandoned'
    OBVIOUS
  <1>6. QED
    BY <1>2, <1>3, <1>4, <1>5 DEF Command, Accept, Expire, Suspend, Activate, StartCreate,
       SetUnusable, InsertMember, SendMail, Register, VerifySignup, UseAccount, vars

(* A membership comes into being with a request that will issue its link. *)
LEMMA NewMember ==
  ASSUME Rows, [Command]_vars, NEW m \in DOMAIN members', m \notin DOMAIN members
  PROVE  \E r \in Request : AboutToIssue(r, m)'
  <1>1. ASSUME NEW r \in Request, InsertMember(r)
        PROVE  AboutToIssue(r, m)'
    <2> DEFINE n == requests[r].of
               row == Saved([status |-> "invited", activated |-> FALSE, suspended |-> FALSE])
               step == [at |-> "issue", of |-> n]
    <2>1. n \notin DOMAIN members
      BY <1>1 DEF InsertMember
    <2>2. members' = Put(members, n, row) /\ requests' = Put(requests, r, step)
      BY <1>1, <2>1 DEF InsertMember
    <2>3. step.at = "issue" /\ step.of = n
      OBVIOUS
    <2> HIDE DEF n, row, step
    <2>4. m = n /\ r \in DOMAIN requests' /\ requests'[r] = step
      BY <2>2 DEF Put
    <2>5. QED
      BY <2>3, <2>4 DEF AboutToIssue
  <1>2. ASSUME NEW n \in DOMAIN members, NEW status \in Status, members' = WithStatus(n, status)
        PROVE  FALSE
    BY <1>2, StatusWritten DEF Rows
  <1>3. ASSUME NEW i \in Invitation, Accept(i)
        PROVE  FALSE
    BY <1>2, <1>3 DEF Accept, Rows, References, Status
  <1>4. ASSUME NEW n \in Membership, Suspend(n) \/ Activate(n)
        PROVE  FALSE
    BY <1>2, <1>4 DEF Suspend, Activate, Status
  <1>5. CASE UNCHANGED members
    BY <1>5
  <1>6. QED
    BY <1>1, <1>3, <1>4, <1>5 DEF Command, vars, Resend, Issue, IssueCreated, Expire,
       StartCreate, SetUnusable, SendMail, Abort, Register, VerifySignup, UseAccount

LEMMA InvitedStep ==
  Rows /\ InvitedHasInvitation /\ [Command]_vars => InvitedHasInvitation'
  <1> SUFFICES ASSUME Rows, InvitedHasInvitation, [Command]_vars,
                      NEW m \in DOMAIN members', members'[m].status = "invited"
               PROVE  \/ LinkPending(m)'
                      \/ \E r \in Request : AboutToIssue(r, m)'
                      \/ m \in abandoned'
    BY DEF InvitedHasInvitation, LinkPending, AboutToIssue
  <1>1. CASE m \notin DOMAIN members
    BY <1>1, NewMember
  <1>2. CASE m \in DOMAIN members
    <2>1. members[m].status = "invited"
      BY <1>2, MemberSteps
    <2>2. \/ LinkPending(m)
          \/ \E r \in Request : AboutToIssue(r, m)
          \/ m \in abandoned
      BY <1>2, <2>1, RowTypes DEF InvitedHasInvitation, LinkPending, AboutToIssue, Rows
    <2>3. QED
      BY <1>2, <2>1, <2>2, PendingLasts, IssuerLasts, AbandonedLasts
  <1>3. QED
    BY <1>1, <1>2

(* While nobody edits memberships, an invited member has a link that can   *)
(* be accepted, is about to get one, or its creating request died.         *)
THEOREM InvitedAreInvited == CommandSpec => []InvitedHasInvitation
  <1>1. Init => InvitedHasInvitation
    BY DEF Init, Empty, InvitedHasInvitation
  <1>2. Rows /\ [Command]_vars => Rows'
    BY CommandIsNext, RowsStep
  <1>3. QED
    BY <1>1, <1>2, InvitedStep, RowsInit, PTL DEF CommandSpec

-----------------------------------------------------------------------------
(***************************************************************************)
(* Each membership goes through the commands of InvitationLifecycle.  What *)
(* is pending is revoked with a row of its own membership and else stays.  *)
(***************************************************************************)
LEMMA RowOutcome ==
  ASSUME Rows, NEW j \in DOMAIN invites, j \in DOMAIN invites', NEW m
  PROVE  /\ OutcomeOf(m, j) = "pending" <=> invites[j].of = m /\ IsPending(j)
         /\ invites'[j] = invites[j] => OutcomeOf(m, j)' = OutcomeOf(m, j)
         /\ invites'[j] = [invites[j] EXCEPT !.revoked = TRUE] /\ IsPending(j) =>
              OutcomeOf(m, j)' = IF invites[j].of = m THEN "revoked" ELSE "none"
         /\ invites'[j] = [invites[j] EXCEPT !.accepted = TRUE] =>
              OutcomeOf(m, j)' = IF invites[j].of = m THEN "accepted" ELSE "none"
  <1>1. invites[j] \in Invite
    BY RowTypes DEF Rows
  <1>2. QED
    BY <1>1 DEF Invite, OutcomeOf, IsPending

LEMMA NoOutcome ==
  ASSUME NEW j, j \notin DOMAIN invites, NEW m
  PROVE  OutcomeOf(m, j) = "none"
  BY DEF OutcomeOf

(* What revoking the links of m makes of a link, seen from n. *)
AfterRevoking(m, n, j) ==
  IF n = m /\ OutcomeOf(n, j) = "pending" THEN "revoked" ELSE OutcomeOf(n, j)

LEMMA RevokedOutcome ==
  ASSUME Rows, NEW m, NEW n, NEW j \in DOMAIN invites, j \in DOMAIN invites',
         invites'[j].of = invites[j].of,
         IsPending(j)' <=> IsPending(j) /\ invites[j].of # m,
         invites'[j] # invites[j] =>
           IsPending(j) /\ invites'[j] = [invites[j] EXCEPT !.revoked = TRUE]
  PROVE  OutcomeOf(n, j)' = AfterRevoking(m, n, j)
  <1>1. CASE invites'[j] = invites[j]
    <2>1. ~(invites[j].of = m /\ IsPending(j))
      BY <1>1 DEF IsPending
    <2>2. QED
      BY <1>1, <2>1, RowOutcome DEF AfterRevoking
  <1>2. CASE invites'[j] # invites[j]
    <2>1. IsPending(j) /\ invites'[j] = [invites[j] EXCEPT !.revoked = TRUE]
      BY <1>2
    <2>2. ~IsPending(j)'
      <3>1. invites[j] \in Invite
        BY RowTypes DEF Rows
      <3>2. QED
        BY <2>1, <3>1 DEF Invite, IsPending
    <2>3. invites[j].of = m
      BY <2>1, <2>2
    <2>4. invites[j].of # n => OutcomeOf(n, j) = "none"
      BY DEF OutcomeOf
    <2>5. QED
      BY <2>1, <2>3, <2>4, RowOutcome DEF AfterRevoking
  <1>3. QED
    BY <1>1, <1>2

LEMMA IssueOutcome ==
  ASSUME Rows, NEW r \in Request, NEW m \in DOMAIN members, NEW i \in Invitation,
         Issue(r, m, i), NEW n, NEW j
  PROVE  /\ OutcomeOf(n, i) = "none"
         /\ OutcomeOf(n, j)' = IF j = i /\ n = m THEN "pending" ELSE AfterRevoking(m, n, j)
  <1>1. OutcomeOf(n, i) = "none"
    BY IssuePending, NoOutcome
  <1>2. CASE j = i
    <2>1. i \in DOMAIN invites' /\ IsPending(i)' /\ invites'[i].of = m
      BY IssuePending
    <2>2. OutcomeOf(n, i)' = IF n = m THEN "pending" ELSE "none"
      BY <2>1 DEF OutcomeOf, IsPending
    <2>3. QED
      BY <1>1, <1>2, <2>2 DEF AfterRevoking
  <1>3. CASE j # i /\ j \in DOMAIN invites
    <2>1. /\ j \in DOMAIN invites' /\ invites'[j].of = invites[j].of
          /\ IsPending(j)' <=> IsPending(j) /\ invites[j].of # m
          /\ invites'[j] # invites[j] =>
               IsPending(j) /\ invites'[j] = [invites[j] EXCEPT !.revoked = TRUE]
      BY <1>3, IssuePending
    <2>2. OutcomeOf(n, j)' = AfterRevoking(m, n, j)
      BY <1>3, <2>1, RevokedOutcome
    <2>3. QED
      BY <1>1, <1>3, <2>2
  <1>4. CASE j # i /\ j \notin DOMAIN invites
    <2>1. j \notin DOMAIN invites'
      BY <1>4, IssuePending
    <2>2. OutcomeOf(n, j) = "none" /\ OutcomeOf(n, j)' = "none"
      BY <1>4, <2>1 DEF OutcomeOf
    <2>3. QED
      BY <1>1, <1>4, <2>2 DEF AfterRevoking
  <1>5. QED
    BY <1>2, <1>3, <1>4

LEMMA AllRevokedOutcome ==
  ASSUME Rows, NEW m, invites' = RevokePending(m, {}), NEW n, NEW j
  PROVE  OutcomeOf(n, j)' = AfterRevoking(m, n, j)
  <1>1. CASE j \in DOMAIN invites
    <2>1. /\ j \in DOMAIN invites' /\ invites'[j].of = invites[j].of
          /\ IsPending(j)' <=> IsPending(j) /\ invites[j].of # m
          /\ invites'[j] # invites[j] =>
               IsPending(j) /\ invites'[j] = [invites[j] EXCEPT !.revoked = TRUE]
      BY <1>1, RevokePendingAll
    <2>2. QED
      BY <1>1, <2>1, RevokedOutcome
  <1>2. CASE j \notin DOMAIN invites
    <2>1. j \notin DOMAIN invites'
      BY <1>2, RevokePendingAll
    <2>2. OutcomeOf(n, j) = "none" /\ OutcomeOf(n, j)' = "none"
      BY <1>2, <2>1 DEF OutcomeOf
    <2>3. QED
      BY <2>2 DEF AfterRevoking
  <1>3. QED
    BY <1>1, <1>2

LEMMA AcceptOutcome ==
  ASSUME Rows, NEW i \in Invitation, Accept(i), NEW n, NEW j
  PROVE  LET m == invites[i].of
         IN  /\ OutcomeOf(m, i) = "pending"
             /\ OutcomeOf(n, j)' = IF j = i /\ n = m THEN "accepted" ELSE AfterRevoking(m, n, j)
  <1> DEFINE m == invites[i].of
  <1>1. /\ i \in DOMAIN invites /\ IsPending(i) /\ DOMAIN invites' = DOMAIN invites
        /\ invites'[i] = [invites[i] EXCEPT !.accepted = TRUE]
    BY AcceptPending
  <1>2. OutcomeOf(m, i) = "pending"
    BY <1>1, RowOutcome
  <1>3. CASE j = i
    <2>1. OutcomeOf(n, i)' = IF n = m THEN "accepted" ELSE "none"
      BY <1>1, RowOutcome
    <2>2. n # m => OutcomeOf(n, i) = "none"
      BY DEF OutcomeOf
    <2>3. QED
      BY <1>2, <1>3, <2>1, <2>2 DEF AfterRevoking
  <1>4. CASE j # i /\ j \in DOMAIN invites
    <2>1. OutcomeOf(n, j)' = AfterRevoking(m, n, j)
      BY <1>1, <1>4, AcceptPending, RevokedOutcome
    <2>2. QED
      BY <1>2, <1>4, <2>1
  <1>5. CASE j # i /\ j \notin DOMAIN invites
    <2>1. OutcomeOf(n, j) = "none" /\ OutcomeOf(n, j)' = "none"
      BY <1>1, <1>5 DEF OutcomeOf
    <2>2. QED
      BY <1>2, <1>5, <2>1 DEF AfterRevoking
  <1>6. QED
    BY <1>3, <1>4, <1>5

(* What a command does to the two tables a membership is made of. *)
LEMMA CommandCases ==
  ASSUME Rows, [Command]_vars
  PROVE  \/ UNCHANGED <<members, invites>>
         \/ \E r \in Request, m \in DOMAIN members, i \in Invitation : Issue(r, m, i)
         \/ \E i \in Invitation : Accept(i)
         \/ \E m \in Membership : Suspend(m) \/ Activate(m)
         \/ \E r \in Request : InsertMember(r)
  <1>1. ASSUME NEW r \in Request, IssueCreated(r)
        PROVE  \/ UNCHANGED <<members, invites>>
               \/ \E i \in Invitation : Issue(r, requests[r].of, i)
    BY <1>1 DEF IssueCreated
  <1>2. \A r \in Request : IssueCreated(r) => requests[r].of \in DOMAIN members
    BY DEF IssueCreated, Rows, References
  <1>3. QED
    BY <1>1, <1>2 DEF Command, Resend, vars, Expire, StartCreate, SetUnusable, SendMail,
       Abort, Register, VerifySignup, UseAccount

LEMMA StatusOutcome ==
  ASSUME Rows, NEW m \in DOMAIN members, NEW status \in Status,
         members' = WithStatus(m, status), NEW n
  PROVE  /\ StatusOf(m) \in Status
         /\ StatusOf(n)' = IF n = m THEN status ELSE StatusOf(n)
  <1>1. members[m] \in Member
    BY RowTypes DEF Rows
  <1>2. QED
    BY <1>1, StatusWritten DEF Rows, StatusOf, Member

(* Seen from n, a step is one of the commands for n, or nothing.           *)
LEMMA LifecycleStep ==
  ASSUME Rows, [Command]_vars, NEW n \in Membership
  PROVE  [Lifecycle(n)!Next]_(Lifecycle(n)!lifecycle)
  <1>1. CASE UNCHANGED <<members, invites>>
    BY <1>1 DEF Lifecycle!lifecycle, StatusOf, OutcomeOf
  <1>2. ASSUME NEW r \in Request, NEW m \in DOMAIN members, NEW i \in Invitation,
               Issue(r, m, i)
        PROVE  [Lifecycle(n)!Next]_(Lifecycle(n)!lifecycle)
    <2>1. UNCHANGED members /\ StatusOf(m) = "invited" /\ StatusOf(n)' = StatusOf(n)
      BY <1>2 DEF Issue, StatusOf
    <2>2. \A j \in Invitation :
            OutcomeOf(n, j)' = IF j = i /\ n = m THEN "pending" ELSE AfterRevoking(m, n, j)
      BY <1>2, IssueOutcome
    <2>3. OutcomeOf(n, i) = "none"
      BY <1>2, IssueOutcome
    <2>4. CASE n = m
      BY <2>1, <2>2, <2>3, <2>4
         DEF Lifecycle!Next, Lifecycle!Issue, Lifecycle!Revoked, AfterRevoking
    <2>5. CASE n # m
      BY <2>1, <2>2, <2>5 DEF Lifecycle!lifecycle, AfterRevoking
    <2>6. QED
      BY <2>4, <2>5
  <1>3. ASSUME NEW i \in Invitation, Accept(i)
        PROVE  [Lifecycle(n)!Next]_(Lifecycle(n)!lifecycle)
    <2> DEFINE m == invites[i].of
    <2>1. /\ m \in DOMAIN members /\ members[m].status = "invited"
          /\ members' = WithStatus(m, "active")
      BY <1>3 DEF Accept, Rows, References
    <2>2. OutcomeOf(m, i) = "pending"
      BY <1>3, AcceptOutcome
    <2>3. \A j \in Invitation :
            OutcomeOf(n, j)' = IF j = i /\ n = m THEN "accepted" ELSE AfterRevoking(m, n, j)
      BY <1>3, AcceptOutcome
    <2> HIDE DEF m
    <2>4. StatusOf(m) = "invited" /\ StatusOf(n)' = IF n = m THEN "active" ELSE StatusOf(n)
      BY <2>1, StatusOutcome DEF StatusOf, Status
    <2>5. CASE n = m
      BY <2>2, <2>3, <2>4, <2>5
         DEF Lifecycle!Next, Lifecycle!Accept, Lifecycle!Revoked, AfterRevoking
    <2>6. CASE n # m
      BY <2>3, <2>4, <2>6 DEF Lifecycle!lifecycle, AfterRevoking
    <2>7. QED
      BY <2>5, <2>6
  <1>4. ASSUME NEW m \in Membership, Suspend(m) \/ Activate(m)
        PROVE  [Lifecycle(n)!Next]_(Lifecycle(n)!lifecycle)
    <2>1. m \in DOMAIN members /\ invites' = RevokePending(m, {})
      BY <1>4 DEF Suspend, Activate
    <2>2. \A j \in Invitation : OutcomeOf(n, j)' = AfterRevoking(m, n, j)
      BY <2>1, AllRevokedOutcome
    <2>3. Suspend(m) => /\ StatusOf(m) # "suspended"
                        /\ StatusOf(n)' = IF n = m THEN "suspended" ELSE StatusOf(n)
      BY <2>1, StatusOutcome DEF Suspend, StatusOf, Status
    <2>4. Activate(m) => StatusOf(n)' = IF n = m THEN "active" ELSE StatusOf(n)
      BY <2>1, StatusOutcome DEF Activate, Status
    <2>5. StatusOf(m) \in {"invited", "active", "suspended"}
      BY <2>1, RowTypes DEF StatusOf, Rows, Member, Status
    <2>6. CASE n = m
      BY <1>4, <2>2, <2>3, <2>4, <2>5, <2>6
         DEF Lifecycle!Next, Lifecycle!Suspend, Lifecycle!Activate, Lifecycle!Revoked,
             AfterRevoking
    <2>7. CASE n # m
      BY <1>4, <2>2, <2>3, <2>4, <2>7 DEF Lifecycle!lifecycle, AfterRevoking
    <2>8. QED
      BY <2>6, <2>7
  <1>5. ASSUME NEW r \in Request, InsertMember(r)
        PROVE  [Lifecycle(n)!Next]_(Lifecycle(n)!lifecycle)
    <2> DEFINE new == Saved([status |-> "invited", activated |-> FALSE, suspended |-> FALSE])
               m   == requests[r].of
    <2>1. \A j \in Invitation : OutcomeOf(n, j)' = OutcomeOf(n, j)
      BY <1>5 DEF InsertMember, OutcomeOf
    <2>2. new.status = "invited"
      BY SavedMember DEF Member, Status
    <2>3. \/ UNCHANGED members
          \/ m \notin DOMAIN members /\ members' = Put(members, m, new)
      BY <1>5 DEF InsertMember
    <2> HIDE DEF new, m
    <2>4. \/ StatusOf(n)' = StatusOf(n)
          \/ StatusOf(n) = "absent" /\ StatusOf(n)' = "invited"
      BY <2>2, <2>3 DEF StatusOf, Put
    <2>5. QED
      BY <2>1, <2>4 DEF Lifecycle!Next, Lifecycle!Create, Lifecycle!lifecycle
  <1>6. QED
    BY <1>1, <1>2, <1>3, <1>4, <1>5, CommandCases

(* While nobody edits memberships, the whole system implements the         *)
(* promised life cycle of every membership: whatever requests overlap and  *)
(* die, each sees one command after the other.                             *)
THEOREM MembershipsImplementLifecycle == CommandSpec => MembersFollowLifecycle
  <1>1. Init => \A m \in Membership : Lifecycle(m)!Init
    BY DEF Init, Empty, StatusOf, OutcomeOf, Lifecycle!Init
  <1>2. Rows /\ [Command]_vars =>
          \A m \in Membership : [Lifecycle(m)!Next]_(Lifecycle(m)!lifecycle)
    BY LifecycleStep
  <1>3. QED
    BY <1>1, <1>2, CommandInvariant, PTL DEF CommandSpec, MembersFollowLifecycle
=============================================================================
