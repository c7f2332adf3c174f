----------------------------- MODULE Membership -----------------------------
(***************************************************************************)
(* Staff accounts, tenant memberships and invitation links:                *)
(* apps/accounts/services.py, apps/tenants/forms.py (TenantMembershipForm),*)
(* and the views that call them.  The services run in one transaction that *)
(* locks the membership row, so each is one action; MembershipLocks checks *)
(* that.  The create and edit views run outside a transaction: each of     *)
(* their writes is an action of its own, and a worker may die in between.  *)
(***************************************************************************)
EXTENDS Naturals, Tables

CONSTANTS Tenant,      \* organizations
          User,        \* people, each with one email address
          Invitation,  \* primary keys of StaffInvitation
          Request,     \* HTTP requests that are served at the same time
          MaxUses      \* bound on sign-ins and password changes per account

ASSUME MaxUsesAssumption == MaxUses \in Nat

VARIABLES accounts,    \* table User -> Account
          members,     \* table Membership -> Member
          invites,     \* table Invitation -> Invite
          expired,     \* invitations whose link is older than 48 hours
          mailed,      \* invitations whose link reached the invitee
          requests,    \* table Request -> where the request's code stands
          abandoned    \* history: memberships whose creating request died

vars == <<accounts, members, invites, expired, mailed, requests, abandoned>>

(***************************************************************************)
(* Rows.  A password of "" ("blank") counts as usable for Django, which    *)
(* treats only the "!" prefix as unusable, but nobody can sign in with it. *)
(* stamp stands for what make_token hashes besides the time: the password  *)
(* hash and last_login.                                                    *)
(***************************************************************************)
Account == [password : {"blank", "unusable", "usable"}, enabled : BOOLEAN, stamp : Nat]

Membership == Tenant \X User
Status     == {"invited", "active", "suspended"}
Member     == [status : Status, activated : BOOLEAN, suspended : BOOLEAN]
Invite     == [of : Membership, token : Nat, accepted : BOOLEAN, revoked : BOOLEAN]

CreateRequest == [at : {"set_unusable", "insert", "issue"}, of : Membership]
MailRequest   == [at : {"mail"}, link : Invitation]
EditRequest   == [at : {"write"}, of : Membership, row : Member]

UserOf(m) == m[2]

(* A new password hash: every token made before it is void. *)
WithPassword(u, password, enabled) ==
  Put(accounts, u, [password |-> password, enabled |-> enabled,
                    stamp |-> accounts[u].stamp + 1])

HasUsablePassword(u) == accounts[u].password # "unusable"
IsPending(i) == ~invites[i].accepted /\ ~invites[i].revoked
CheckToken(i) == /\ i \notin expired
                 /\ invites[i].token = accounts[UserOf(invites[i].of)].stamp

(***************************************************************************)
(* TenantMembership.save: activated_at and suspended_at follow the status. *)
(***************************************************************************)
SavedWithoutDates(row) == row

Saved(row) ==
  [row EXCEPT !.activated = row.activated \/ row.status = "active",
              !.suspended = \/ row.status = "suspended"
                            \/ row.status = "invited" /\ row.suspended]

StatusNotSaved(m, status) == members

OutcomeAsStatus(m, status) ==
  Put(members, m, Saved([members[m] EXCEPT
                           !.status = IF status = "active" THEN "accepted" ELSE status]))

WithStatus(m, status) == Put(members, m, Saved([members[m] EXCEPT !.status = status]))

LinksLeftPending(m, keep) == invites

AllLinksRevoked(m, keep) ==
  [j \in DOMAIN invites |->
     IF invites[j].of = m /\ j \notin keep
     THEN [invites[j] EXCEPT !.revoked = TRUE]
     ELSE invites[j]]

(* The pending invitations of m are revoked, those in keep excepted. *)
RevokePending(m, keep) ==
  [j \in DOMAIN invites |->
     IF invites[j].of = m /\ IsPending(j) /\ j \notin keep
     THEN [invites[j] EXCEPT !.revoked = TRUE]
     ELSE invites[j]]

Init ==
  /\ accounts = Empty
  /\ members = Empty
  /\ invites = Empty
  /\ expired = {}
  /\ mailed = {}
  /\ requests = Empty
  /\ abandoned = {}

-----------------------------------------------------------------------------
(***************************************************************************)
(* issue_staff_invitation, called by request r for membership m.  The mail *)
(* goes out after the commit, so the request still has that to do.         *)
(***************************************************************************)
Issue(r, m, i) ==
  /\ members[m].status = "invited"
  /\ i \notin DOMAIN invites
  /\ invites' = Put(RevokePending(m, {}), i,
                    [of |-> m, token |-> accounts[UserOf(m)].stamp,
                     accepted |-> FALSE, revoked |-> FALSE])
  /\ requests' = Put(requests, r, [at |-> "mail", link |-> i])
  /\ abandoned' = abandoned \ {m}
  /\ UNCHANGED <<accounts, members, expired, mailed>>

(* The resend command. *)
Resend(r, m, i) ==
  /\ r \notin DOMAIN requests
  /\ m \in DOMAIN members
  /\ Issue(r, m, i)

SendMail(r) ==
  /\ r \in DOMAIN requests
  /\ requests[r].at = "mail"
  /\ mailed' = mailed \cup {requests[r].link}
  /\ requests' = Delete(requests, r)
  /\ UNCHANGED <<accounts, members, invites, expired, abandoned>>

(***************************************************************************)
(* accept_staff_invitation, reached with the link of invitation i.  An     *)
(* account whose password is unusable has to set one, and is enabled; an   *)
(* existing account keeps its password.                                    *)
(***************************************************************************)
Accept(i) ==
  LET m == invites[i].of
      u == UserOf(m)
  IN /\ i \in DOMAIN invites \cap mailed
     /\ IsPending(i)
     /\ members[m].status = "invited"
     /\ CheckToken(i)
     /\ accounts' = IF HasUsablePassword(u)
                    THEN accounts
                    ELSE WithPassword(u, "usable", TRUE)
     /\ members' = WithStatus(m, "active")
     /\ invites' = Put(RevokePending(m, {i}), i, [invites[i] EXCEPT !.accepted = TRUE])
     /\ UNCHANGED <<expired, mailed, requests, abandoned>>

SuspendLeavesLinks(m) ==
  /\ m \in DOMAIN members
  /\ members[m].status # "suspended"
  /\ members' = WithStatus(m, "suspended")
  /\ UNCHANGED <<accounts, invites, expired, mailed, requests, abandoned>>

(* suspend_membership: a suspended membership is returned unchanged. *)
Suspend(m) ==
  /\ m \in DOMAIN members
  /\ members[m].status # "suspended"
  /\ members' = WithStatus(m, "suspended")
  /\ invites' = RevokePending(m, {})
  /\ UNCHANGED <<accounts, expired, mailed, requests, abandoned>>

(* activate_membership: from any status. *)
Activate(m) ==
  /\ m \in DOMAIN members
  /\ members' = WithStatus(m, "active")
  /\ invites' = RevokePending(m, {})
  /\ UNCHANGED <<accounts, expired, mailed, requests, abandoned>>

-----------------------------------------------------------------------------
AlwaysSetsUnusable(u) == "set_unusable"

(* Only a request that created the account row overwrites its password. *)
AfterGetOrCreate(u) == IF u \in DOMAIN accounts THEN "insert" ELSE "set_unusable"

(***************************************************************************)
(* The create view, up to User.objects.get_or_create: the form refuses an  *)
(* address that already has a membership; a new account row is committed   *)
(* with the password "".                                                   *)
(***************************************************************************)
StartCreate(r, m) ==
  LET u == UserOf(m)
  IN /\ r \notin DOMAIN requests
     /\ m \notin DOMAIN members
     /\ accounts' = IF u \in DOMAIN accounts
                    THEN accounts
                    ELSE Put(accounts, u, [password |-> "blank", enabled |-> TRUE,
                                           stamp |-> 0])
     /\ requests' = Put(requests, r, [at |-> AfterGetOrCreate(u), of |-> m])
     /\ UNCHANGED <<members, invites, expired, mailed, abandoned>>

SetUnusable(r) ==
  LET m == requests[r].of
      u == UserOf(m)
  IN /\ r \in DOMAIN requests
     /\ requests[r].at = "set_unusable"
     /\ accounts' = WithPassword(u, "unusable", accounts[u].enabled)
     /\ requests' = Put(requests, r, [at |-> "insert", of |-> m])
     /\ UNCHANGED <<members, invites, expired, mailed, abandoned>>

InsertOrReset(r) ==
  LET m == requests[r].of
  IN /\ r \in DOMAIN requests
     /\ requests[r].at = "insert"
     /\ requests' = Put(requests, r, [at |-> "issue", of |-> m])
     /\ members' = Put(members, m, Saved([status |-> "invited", activated |-> FALSE,
                                          suspended |-> FALSE]))
     /\ UNCHANGED <<accounts, invites, expired, mailed, abandoned>>

(***************************************************************************)
(* The INSERT of the membership.  The unique constraint on (tenant, user)  *)
(* ends the slower of two requests for one person.                         *)
(***************************************************************************)
InsertMember(r) ==
  LET m == requests[r].of
  IN /\ r \in DOMAIN requests
     /\ requests[r].at = "insert"
     /\ IF m \in DOMAIN members
        THEN /\ requests' = Delete(requests, r)
             /\ UNCHANGED members
        ELSE /\ requests' = Put(requests, r, [at |-> "issue", of |-> m])
             /\ members' = Put(members, m, Saved([status |-> "invited", activated |-> FALSE,
                                                  suspended |-> FALSE]))
     /\ UNCHANGED <<accounts, invites, expired, mailed, abandoned>>

(***************************************************************************)
(* The create view calls issue_staff_invitation, which raises when the     *)
(* membership was suspended or activated in the meantime.                  *)
(***************************************************************************)
IssueCreated(r) ==
  /\ r \in DOMAIN requests
  /\ requests[r].at = "issue"
  /\ LET m == requests[r].of
     IN \/ \E i \in Invitation : Issue(r, m, i)
        \/ /\ members[m].status # "invited"
           /\ requests' = Delete(requests, r)
           /\ UNCHANGED <<accounts, members, invites, expired, mailed, abandoned>>

(* The worker that serves r dies, or the mail server refuses the mail. *)
Abort(r) ==
  /\ r \in DOMAIN requests
  /\ requests' = Delete(requests, r)
  /\ abandoned' = abandoned \cup
       {m \in Membership : requests[r].at = "issue" /\ requests[r].of = m}
  /\ UNCHANGED <<accounts, members, invites, expired, mailed>>

-----------------------------------------------------------------------------
(***************************************************************************)
(* The edit view reads the membership and later saves every column of it,  *)
(* status included, although the form edits none of them.                  *)
(***************************************************************************)
ReadForEdit(r, m) ==
  /\ r \notin DOMAIN requests
  /\ m \in DOMAIN members
  /\ requests' = Put(requests, r, [at |-> "write", of |-> m, row |-> members[m]])
  /\ UNCHANGED <<accounts, members, invites, expired, mailed, abandoned>>

WriteEdit(r) ==
  /\ r \in DOMAIN requests
  /\ requests[r].at = "write"
  /\ members' = Put(members, requests[r].of, Saved(requests[r].row))
  /\ requests' = Delete(requests, r)
  /\ UNCHANGED <<accounts, invites, expired, mailed, abandoned>>

-----------------------------------------------------------------------------
(* A citizen signs up: the account exists, disabled, before its code is checked. *)
Register(u) ==
  /\ u \notin DOMAIN accounts
  /\ accounts' = Put(accounts, u, [password |-> "usable", enabled |-> FALSE, stamp |-> 0])
  /\ UNCHANGED <<members, invites, expired, mailed, requests, abandoned>>

(* The code mailed to a citizen is accepted. *)
VerifySignup(u) ==
  /\ u \in DOMAIN accounts
  /\ ~accounts[u].enabled
  /\ accounts' = Put(accounts, u, [accounts[u] EXCEPT !.enabled = TRUE])
  /\ UNCHANGED <<members, invites, expired, mailed, requests, abandoned>>

(* A sign-in sets last_login and a password change the hash: links die of either. *)
UseAccount(u) ==
  /\ u \in DOMAIN accounts
  /\ accounts[u].password = "usable"
  /\ accounts[u].enabled
  /\ accounts[u].stamp < MaxUses
  /\ accounts' = Put(accounts, u, [accounts[u] EXCEPT !.stamp = @ + 1])
  /\ UNCHANGED <<members, invites, expired, mailed, requests, abandoned>>

(* PASSWORD_RESET_TIMEOUT passes for the link of i. *)
Expire(i) ==
  /\ i \in DOMAIN invites \ expired
  /\ expired' = expired \cup {i}
  /\ UNCHANGED <<accounts, members, invites, mailed, requests, abandoned>>

Command ==
  \/ \E i \in Invitation : Accept(i) \/ Expire(i)
  \/ \E m \in Membership : Suspend(m) \/ Activate(m)
  \/ \E r \in Request, m \in Membership, i \in Invitation : Resend(r, m, i)
  \/ \E r \in Request, m \in Membership : StartCreate(r, m)
  \/ \E r \in Request : \/ SetUnusable(r) \/ InsertMember(r) \/ IssueCreated(r)
                        \/ SendMail(r) \/ Abort(r)
  \/ \E u \in User : Register(u) \/ VerifySignup(u) \/ UseAccount(u)

Edit ==
  \/ \E r \in Request, m \in Membership : ReadForEdit(r, m)
  \/ \E r \in Request : WriteEdit(r)

Next == Command \/ Edit

Spec == Init /\ [][Next]_vars

(* The same system while nobody edits a membership. *)
CommandSpec == Init /\ [][Command]_vars

-----------------------------------------------------------------------------
TypeOK ==
  /\ IsTable(accounts, User, Account)
  /\ IsTable(members, Membership, Member)
  /\ IsTable(invites, Invitation, Invite)
  /\ IsTable(requests, Request, CreateRequest \cup MailRequest \cup EditRequest)
  /\ expired \subseteq Invitation
  /\ mailed \subseteq Invitation
  /\ abandoned \subseteq Membership

(* A membership never has two links that could both be accepted, whatever  *)
(* resends, acceptances, suspensions and edits overlap.                    *)
AtMostOnePending ==
  \A i, j \in DOMAIN invites :
     IsPending(i) /\ IsPending(j) /\ invites[i].of = invites[j].of => i = j

(* An invitation is settled once and for ever: a pending one ends accepted *)
(* or revoked, never both, and no later step changes, moves or deletes it. *)
SettledOnce ==
  \A i \in DOMAIN invites :
     /\ i \in DOMAIN invites'
     /\ invites'[i] # invites[i] =>
          /\ IsPending(i)
          /\ \/ invites'[i] = [invites[i] EXCEPT !.accepted = TRUE]
             \/ invites'[i] = [invites[i] EXCEPT !.revoked = TRUE]

InvitationFinal == [][SettledOnce]_vars

(* A person's password survives every invitation to another organization:  *)
(* no request of an administrator makes a usable password unusable.        *)
PasswordStays ==
  \A u \in DOMAIN accounts :
     accounts[u].password = "usable" =>
        u \in DOMAIN accounts' /\ accounts'[u].password = "usable"

PasswordKept == [][PasswordStays]_vars

(* Stale edits included, the recorded dates never contradict the status.   *)
DatesFollowStatus ==
  \A m \in DOMAIN members :
     /\ members[m].status = "active" => members[m].activated /\ ~members[m].suspended
     /\ members[m].status = "suspended" => members[m].suspended
     /\ members[m].status = "invited" => ~members[m].activated /\ ~members[m].suspended

(* A suspension lasts: the status of a suspended membership changes by the *)
(* activate command only, or by an edit that read the row before the       *)
(* suspension and now writes its status back.                              *)
SuspensionStays ==
  \A m \in DOMAIN members :
     members[m].status = "suspended" =>
       /\ m \in DOMAIN members'
       /\ \/ members'[m].status = "suspended"
          \/ Activate(m)
          \/ \E r \in DOMAIN requests : /\ WriteEdit(r)
                                        /\ requests[r].of = m
                                        /\ requests[r].row.status # "suspended"

SuspensionKept == [][SuspensionStays]_vars

-----------------------------------------------------------------------------
(* While nobody edits: a link that can still be accepted belongs to a      *)
(* membership that still awaits acceptance, so suspending or activating    *)
(* one leaves no link behind.                                              *)
PendingIsInvited ==
  \A i \in DOMAIN invites : IsPending(i) => members[invites[i].of].status = "invited"

(* While nobody edits: a membership is accepted by link at most once.      *)
AtMostOneAccepted ==
  \A i, j \in DOMAIN invites :
     /\ invites[i].accepted /\ invites[j].accepted
     /\ invites[i].of = invites[j].of
     => i = j

(* While nobody edits: an invited membership has a pending invitation, or  *)
(* its create request is about to issue one, or that request died.         *)
InvitedHasInvitation ==
  \A m \in DOMAIN members :
     members[m].status = "invited" =>
        \/ \E i \in DOMAIN invites : IsPending(i) /\ invites[i].of = m
        \/ \E r \in DOMAIN requests : requests[r].at = "issue" /\ requests[r].of = m
        \/ m \in abandoned

-----------------------------------------------------------------------------
(* The columns of one membership, as InvitationLifecycle has them.         *)
StatusOf(m) == IF m \in DOMAIN members THEN members[m].status ELSE "absent"

OutcomeOf(m, i) ==
  IF i \notin DOMAIN invites \/ invites[i].of # m THEN "none"
  ELSE IF invites[i].accepted THEN "accepted"
  ELSE IF invites[i].revoked THEN "revoked" ELSE "pending"

Lifecycle(m) == INSTANCE InvitationLifecycle
                  WITH status <- StatusOf(m),
                       outcome <- [i \in Invitation |-> OutcomeOf(m, i)]

(* While nobody edits: seen from one membership, all that overlaps in the  *)
(* whole system, its create requests and deaths and the services for other *)
(* memberships included, is a sequence of the promised commands; this is   *)
(* Lifecycle(m)!Spec of every membership at once.                          *)
MembersFollowLifecycle ==
  /\ \A m \in Membership : Lifecycle(m)!Init
  /\ [][\A m \in Membership : [Lifecycle(m)!Next]_(Lifecycle(m)!lifecycle)]_vars

-----------------------------------------------------------------------------
(* "Set a password to activate this account.": whoever accepted an         *)
(* invitation has an account they can sign in to.                          *)
AcceptedSetsPassword ==
  \A i \in DOMAIN invites :
     invites[i].accepted => accounts[UserOf(invites[i].of)].password = "usable"
=============================================================================
