# CivicFlow in TLA+

CivicFlow is a Django application in which citizens report infrastructure
issues, officers work on the reports, contractors bid on tenders, and several
government organizations (tenants) share one installation without sharing data.
These modules model the parts of it in which several requests, workers or mails
meet on the same rows, check them with TLC on small instances, and prove with TLAPS,
for every instance, all invariants and action properties that the passing runs
check and both refinements. Only liveness is left to TLC.

Paths below are relative to `src/`.

## How the program runs, and what that means for a model

* Requests run at the same time, in several web processes, against one
  PostgreSQL database at READ COMMITTED (`civicflow/settings/base.py:66`).
* `ATOMIC_REQUESTS` is not set. Outside `transaction.atomic` every ORM call is a
  commit of its own, so in the modules **every write of such a request is an
  action of its own**, other requests run between any two of them, and a worker
  may die between any two of them (`Abort`).
* Only the four membership services (`apps/accounts/services.py`) and
  `submit_issue` (`apps/issues/services.py`) are transactions. They are one
  action each; for the membership services `MembershipLocks` checks that this is
  right.
* A form object or model instance read at the start of a request is kept in
  memory until the write: the request records of the modules carry these stale
  copies (`requests[r].row`, `.old`, `.winner`).
* A unique constraint is checked by PostgreSQL at the INSERT. The modules treat
  it as what it is, the only guard that cannot be overtaken.

`Tables.tla` has the two operators that stand for the tables: `Put` (INSERT or
UPDATE of a row) and `Delete`.

## Inventory

| Part | State it keeps | Operations | Hard behaviours | What makes it correct |
| --- | --- | --- | --- | --- |
| Accounts, memberships, invitations (`apps/accounts/services.py`, `apps/tenants/forms.py`, the two sets of views over them) | `User`, `TenantMembership`, `StaffInvitation` rows, e-mailed links | invite, resend, accept, suspend, activate, edit; sign up, sign in | full-row saves of stale copies, opposite lock orders, tokens that die of a sign-in, a create request in four commits, mails after the commit | one live link at most, none for a suspended member, no double acceptance, nobody's password reset by an invitation |
| Issues (`apps/issues`) | `Issue`, `IssueStatusEvent`, `IssueInternalNote`, `IssueAssignmentAudit` | submit, staff update, track | check-then-insert of references, an update in five commits, lost updates between officers | the timeline, the audits and the mails tell what happened to the report |
| E-mail tasks (`apps/issues/tasks.py`) | Celery queue in Redis | queue, run, retry | early acknowledgement, retries after the mail was taken | bounded duplicates, every task settles |
| Contractors and procurement (`apps/contractors`, `apps/procurement`) | `ContractorApplication`, `Tender`, `Bid`, `Award`, `ProcurementAuditEvent` | apply, review, publish, bid, award | eligibility checked long before the INSERT, two awards at once, an award in three commits | one bid each, one final award to a bid of the tender, audited |
| Sign-up codes (`apps/accounts/views.py:39-88`) | `User`, `SignupOTP` | register, verify | sign-up in two commits, attempts counted by read-modify-write, the only code may be dead | a bounded number of guesses |
| Tracking limit (`apps/issues/views.py:68-103`) | per-process cache | look up | read, then increment; the count expires in between | a bounded number of look-ups |
| Active organization (`apps/tenants/request.py`, `middleware.py`, `views.py:33`) | session, `request.tenant` | resolve, switch, reply | suspension between or during requests, sessions saved as a whole | a request works where its user is an active member, a switch lasts |
| Organization configuration and projects (`apps/tenants/forms.py`, `views.py`, `admin_views.py`, `apps/common`) | `Tenant`, `Department`, `ServiceArea`, `Project` | create and edit, by the platform and by members | full-row saves of stale copies, areas that move | a suspended organization is left alone, reports stay within their organization |
| Roles and permissions (`apps/accounts/policies.py`, role forms) | `TenantRole`, `RolePermission`, `MembershipRole`, policies | check, edit roles and members | selections replaced row by row | a permission is held by an active member through a role that grants it |
| Pages, health, logging, admin site, settings, seeds | none of their own | | | |

How they interact: the membership services are called by the platform views
(`apps/tenants/views.py`) and by the views of an organization
(`apps/tenants/admin_views.py`) alike; a sign-up and an invitation meet on the
`User` row; approval of a contractor gates bids; `apps/issues` hands mails to
Celery after its commits and never hears back; the middleware resolves the
organization from the memberships for every other view; a report takes its
organization from the service area it names.

## Modules

### Membership

The state is the three tables plus what the database does not know: which links
are older than 48 hours (`expired`, `PASSWORD_RESET_TIMEOUT`), which reached
their reader (`mailed`), and where each running request stands (`requests`).

| Action | Code |
| --- | --- |
| `Issue`, `Resend`, `IssueCreated` | `issue_staff_invitation`, called by the resend command and by the create views |
| `SendMail` | its `on_commit` callback, which runs after the commit and may never run |
| `Accept`, `Suspend`, `Activate` | `accept_staff_invitation`, `suspend_membership`, `activate_membership` |
| `StartCreate`, `SetUnusable`, `InsertMember`, `IssueCreated` | the create view: form check with `get_or_create` of the account, `set_unusable_password`, INSERT of the membership, the service |
| `ReadForEdit`, `WriteEdit` | the edit view: the row it read, the full-row `save()` |
| `Register`, `VerifySignup`, `UseAccount` | citizen sign-up, its verification, sign-in or password change |
| `Expire`, `Abort` | the passing of 48 hours, the death of a worker or an SMTP error |

A token is `make_token(user)`: a hash of the password and `last_login`. Only
whether these changed since matters, so `stamp` counts their changes and a
token is the stamp at its creation. A password is `"usable"`, `"unusable"` (the
`!` prefix) or `"blank"`: the empty string that `get_or_create` stores, which
Django's `has_usable_password()` takes for usable and nobody can sign in with.

`MembersFollowLifecycle` says that the system implements
`InvitationLifecycle` for every membership at once (`Lifecycle(m)`): whatever
requests overlap and die, each membership sees one command after the other. The
columns of a membership are `StatusOf` and `OutcomeOf`, the mapping of the
refinement. It is written as an initial condition and one action property,
because TLC takes no temporal formula under a quantifier.

`Command` is everything but the edits. `Spec` has the edits too, `CommandSpec`
has not: an edit writes back the status it read and so breaks what the commands
establish together. The properties that survive edits are checked and proved
for `Spec`, the others for `CommandSpec`. `SuspensionKept` says exactly what
edits can do to a suspension: it ends by an activation, or by an edit that read
the row before it.

### MembershipLocks and InvitationLifecycle

`InvitationLifecycle` is the abstract specification: one membership, its links,
and the four services as one-step commands. `MembershipLocks` is the same
services as PostgreSQL runs them: row locks taken one after the other, values
read when the row is locked, writes visible at commit. An acceptance locks the
invitation first and the membership second (a `SELECT ... FOR UPDATE` over a
join); the others lock the membership and then the invitations their UPDATE
revokes. The property `ServicesAreAtomic` is `Lifecycle!Spec`, the abstract
specification over the committed columns (`INSTANCE InvitationLifecycle WITH
status <- status, outcome <- outcome`): every transaction takes effect at its
commit. That is what allows `Membership` to have one action per service.
`Membership` implements the same abstract specification in its turn, so the
three modules agree on what the services do.

`DeadlockAbort` is the database's answer to a cycle of two waiting
transactions. Longer cycles cannot arise: every wait involves the membership row
or is for an invitation held by an acceptance that waits for the membership row.

Fairness: strong fairness of each worker's steps. A worker runs unless it waits
for a lock; PostgreSQL queues lock requests, so a waiter is not overtaken for
ever. Weak fairness would not say this, because a lock that is taken and
released again and again disables the step in between. Nothing forces requests
to arrive.

### IssueWorkflow and EmailTasks

A report is stored by one transaction (`StoreReport`), whose reference was
looked up before (`CheckReference`). The look-up raises `ValidationError` for a
taken reference and the loop around it catches `IntegrityError` only, so a
collision ends the request in every case. `IssueOperationsDetailView.post` is
`ReadIssue`, `SaveIssue`, `RecordAudit`, `RecordNote`, `RecordEvent`,
`QueueUpdate`: the read, then one action per write, in the order of the code,
each with the condition the code evaluates on the values it read at the start.
The assignment (staff member and department) is one value, because the code
compares and writes the pair. The form accepts any status at any time, so
statuses are a constant set of which only "submitted" is special.

`EmailTasks` is what Celery does with a queued task. It writes nothing that
`IssueWorkflow` reads, so the two need not be composed: `IssueWorkflow` says
which tasks are queued, `EmailTasks` what becomes of any of them. Fairness is
weak fairness of each task's steps: workers keep taking tasks, and an attempt
ends (`send_mail` fails by its socket timeout at the latest).

### Procurement

`BidCreateView` is `FindTender` and `CheckBid` (the two parts of dispatch) and
`InsertBid`; `AwardCreateView` is `CheckAward` (dispatch), `ChooseWinner` (form),
`CloseTender`, `InsertAward`, `AuditAward`; `TenderCreateView` is `CreateTender`,
`AuditTender`. `CheckBid` takes the queries for an earlier bid, for the approval
and the comparison with the clock together: a bid is never deleted and a deadline
never taken back, so that nothing happens between them that the request could
tell from its happening before or after. `PassDeadline` is the clock. Reviews may
reverse an approval at any time. `died` is a history variable: at which step the
awarding requests of a tender died.

`BidCreateView` never looks again at what dispatch found, so a bid can be stored
after the deadline, after the award or after the approval was withdrawn.
`BiddingEnds` draws the line: such a bid belongs to a request that had read the
tender while it was published, and passed the check, in time. Once no such
request of a contractor is under way (`BiddingOver`), no bid of that contractor
is added, and only an approval before the deadline changes this. `AwardsSound`
says of an awarded tender that it is not published, not that its last bid is in.
`AuditTrail` accounts for the three commits of an award, of which the first
withdraws the tender: a tender that was announced as published and is so no more
has its award, or the request that makes it is at work, or died.

### RoleGrants

`permission_for` is `Can`, over the rows that the forms replace: `RolesGranting`
are the grants it compares, `Comparable` whether `max()` can. The role form is
`EditRoleAsPlatform` or `EditRoleAsManager` (reading), `SaveRole` (the row),
`ReadGrants` and `ReplaceGrants` (Django's `set()`), `DeleteOthers`,
`CreateSelected` for each permission, `Finish`; the membership form is
`EditMemberAsPlatform` or `EditMemberAsManager` and the last three, over roles.
The selected roles are a subquery when the others are deleted and the instances
read by the form when they are created, and so they are here. Of a scope only
whether it is blank matters. The memberships enter by one set, those that are
active in an active organization (`members`), which `SetActive` changes at any
time. `alone` and `moved` are history: whether another edit of the same role or
member overlapped, and which roles changed their organization.

### Organizations

The organization a request works in, and what it changes there. `Begin` is
`ActiveTenantMiddleware` (`Resolves` its branches; no URL has a `tenant_slug`, so
that branch cannot be reached), `Switch` is `TenantSwitchView` with
`activate_tenant`, `Reply` saves the session as a whole when the request modified
it, `Abort` does not. Between them stands the work of the request, which uses the
organization that the middleware found, however old that is:

| Action | Code |
| --- | --- |
| `EditSettings`, `SaveSettings` | the settings form, about the `Tenant` row that the middleware read |
| `EditUnit`, `SaveUnit` | a manager's forms of departments and service areas (`admin_views.py`) |
| `StartProject`, `InsertProject` | `ProjectCreateView`, with its own choice of an organization when none is active |
| `OpenReport`, `StoreReport` | the report form and `submit_issue`: area and organization as they were read |
| `Assign` | the department of a report, from the operations page |
| `SaveTenant`, `SaveArea` | the platform's forms, which have the status of an organization and the organization of an area as fields |
| `SetMember` | the membership commands, whose details are in `Membership` |

`kept` (in a request), `chosen` and `moved` are history: whether the membership
that a request relies on has lasted since it was looked up, the switch a user can
rely on, and the areas that changed their organization. Of a row only its
organization and whether it is in use matter; a project is its organization and
creator. The users are not superusers, whom `can()` asks for no membership
(`apps/accounts/policies.py:28`). Report, assignment and timeline details are in
`IssueWorkflow`.

`SuspensionSticks` names every way in which a suspended organization is still
changed. It is opened by the platform's form, or by a settings form that was open
when the suspension came (`SaveSettings` of an `Overtaken` request). Its units,
projects and reports (`Holdings`) change by the platform's form of an area, by the
write of an overtaken request, or by `TakesBack`: an organization saves the form
of an area that it had opened before the platform gave the area away, and the
full-row save gives it the area back.

### AttemptLimits

Two doors that count attempts. Sign-up is `StartSignup` (the form check),
`InsertAccount` (a disabled account) and `IssueCode`, a commit each; verification
is `ReadCode`, `VerifyCode` (the increased count is saved over whatever is
stored, and then decides) and `EnableAccount`. The tracking look-up is `ReadCount`,
`Count` and `SetCount`: the read, `cache.add` or `cache.incr`, and `cache.set` when
the count expired in between. A counter stands for one web process and one
address, because the local-memory cache belongs to a process. `guesses`, `raced`
and `looked` are history.

`GuessesBounded` excepts codes whose verifications overlapped: each of these can
put an old count back, so nothing bounds them but the ten minutes. `LookupsBounded`
says how far overlapping look-ups exceed the limit; the bound is reached. It is
about look-ups through the form, per process and key: the key is the client's
address as the request states it (`apps/issues/views.py:73`), and the tracking
page to which a look-up leads (`issues:track`) has no count.
`DeadForEver` is what a lock-out means here: the form refuses the address and
no view makes another code, so the address is lost until somebody intervenes in
the database.

## Runs

| Run | Specification | Bounds | Shows |
| --- | --- | --- | --- |
| `membership_commands` | `CommandSpec` | 2 organizations, 1 person, 3 links, 2 requests, 2 uses per account | `PendingIsInvited`, `AtMostOneAccepted`, `InvitedHasInvitation`, `MembersFollowLifecycle` |
| `membership_edits` | `Spec` | 1 organization, 1 person, 3 links, 2 requests | `TypeOK`, `AtMostOnePending`, `DatesFollowStatus`, `InvitationFinal`, `PasswordKept`, `SuspensionKept` |
| `membership_password` | `CommandSpec` | as `membership_commands` | **violated**: `AcceptedSetsPassword`; acceptance of an account whose password is still blank |
| `membership_locks` | `FairSpec` | 3 links, 3 workers | `TypeOK`, `DecisionHolds`, `ServicesAreAtomic`, `ServicesEnd`, no deadlock |
| `issue_workflow` | `Spec` | 2 reports, 1 reference, 3 statuses, 3 assignments, 3 requests | `TypeOK`, `ReferencesUnique`, `StatusInTimeline`, `AssignmentAudited`, `MailsToldByTimeline` |
| `issue_timeline` | `Spec` | 1 report, 3 requests | **violated**: `TimelineTellsStatus`; the timeline ends in a status the report does not have |
| `email_tasks` | `FairSpec` | 2 tasks, 3 retries (the code's number) | `TypeOK`, `CopiesBounded`, `TasksSettle` |
| `procurement` | `Spec` | 2 tenders, contractors, applications, bids and requests | `TypeOK`, `OneBidEach`, `AwardsSound`, `AuditTrail`, `AwardsFinal`, `BiddingEnds` |
| `role_grants` | `Spec` | 2 organizations, 1 person, 1 role, 2 permissions, 2 requests | `TypeOK`, `AssignedWithinTenant`, `EditLeavesSelection` |
| `role_scopes` | `Spec` | 1 organization, 2 roles, 1 request | **violated**: `StrongestGrantResolved`; two roles saved by the form grant scopes that cannot be compared |
| `organizations` | `Spec` | 2 organizations, 1 user, 1 area, 1 department, 1 report, 2 requests, `Bounds` | `TypeOK`, `WorksForMembers`, `SwitchSticks`, `RoutedWithin`, `SuspensionSticks` |
| `attempt_limits` | `Spec` | 1 account, 1 counter, 3 requests, limits 3 and 3 | `TypeOK`, `GuessesBounded`, `LookupsBounded`, `DeadForEver` |

Why the bounds are enough. Every property relates at most two rows of one table
(two links of a membership, two bids, two awards) or a row and its history, and
every interleaving that endangers one is between two requests; a third link is
there so that one can be settled, one replaced and one pending at the same time,
and two organizations so that the invitations of one person void each other's
tokens. `MaxUses` bounds sign-ins: two are enough for a token to die, to be
issued anew and to die again. In `RoleGrants`
two permissions make a selection that can be stored in part, two organizations let
a role move, and two requests overlap; ids of requests are used again, so edits
follow each other without bound. In `IssueWorkflow` a request is used once, so the
three requests are one submission and two overlapping updates, or two
submissions and an update; one reference makes every submission collide.
In `Organizations` one user suffices, because no action but the history of
switches relates two users; two organizations make a choice, and two requests
overlap. Its constraint `Bounds` cuts three things that nothing else depends on:
states after a project was created (no action reads one; the step that creates
it is still checked), departments out of use (treated like absent ones), and two
unit forms open at the same time (the second can only do again what the platform's
form, which is open always, does to the first). In `AttemptLimits` three requests
are two that overlap and one that follows while they do, and the limits are 3
instead of the code's 5 and 10, more than the requests that can pass a check
together; the same properties hold with 5 and 10 for two requests. Attempts beyond the
limit are not counted further (`Increased`).

Deadlock is checked in `membership_locks` only. Elsewhere a bounded table of
links, requests or tasks may be used up, and the system then rightly stops.

Symmetry is declared for sets whose members the modules treat alike, in runs
that check invariants and action properties; runs with liveness properties
have none. `MembersFollowLifecycle` is checked under symmetry: it is an action
property that speaks of all memberships and links alike.

## Proofs

`MembershipProofs.tla` proves, for every number of organizations, people, links
and requests and every bound `MaxUses`:

| Theorem | Statement |
| --- | --- |
| `TypeCorrect` | `Spec => []TypeOK` |
| `OnePending` | `Spec => []AtMostOnePending` |
| `InvitationsAreFinal` | `Spec => InvitationFinal` |
| `PasswordSurvives` | `Spec => PasswordKept` |
| `NoLinkLeftBehind` | `CommandSpec => []PendingIsInvited` |
| `AcceptedOnce` | `CommandSpec => []AtMostOneAccepted` |
| `DatesAgree` | `Spec => []DatesFollowStatus` |
| `SuspensionLasts` | `Spec => SuspensionKept` |
| `InvitedAreInvited` | `CommandSpec => []InvitedHasInvitation` |
| `MembershipsImplementLifecycle` | `CommandSpec => MembersFollowLifecycle` |

The argument. `TypeOK` is not inductive by itself: `Accept` and `Issue` look up
rows through references, so `Rows` adds `References` (every membership has its
account, every invitation its membership, every request in progress the rows it
is about to write). `Rows` is preserved by every action, one lemma each.
`AtMostOnePending` is inductive together with `Rows`, because `Issue` revokes
all pending links in the step that adds one and no step makes a settled link
pending again. For `PasswordKept` the danger is `SetUnusable`, which runs long
after the request found the account to be new; `Creators` says that such a
request is the only one and that its account is still blank.
`NoLinkLeftBehind` and `AcceptedOnce` need each other and a third fact,
`AcceptedWasActivated` (`Links`): an acceptance needs an invited membership, an
invited membership was never activated, so no accepted invitation can exist
when another one is accepted. They are false for `Spec`, where an edit can make
an active membership invited again. `Dates` extends `DatesFollowStatus` to the rows
that edits have read and will write back. `InvitedHasInvitation` is preserved by
following the three reasons it names (`PendingLasts`, `IssuerLasts`,
`AbandonedLasts`): each lasts while the membership is invited, or turns into
another of them. The refinement needs only `Rows`: the lemmas `IssueOutcome`,
`AcceptOutcome` and `AllRevokedOutcome` say what each service makes of every link
as seen from every membership, and `LifecycleStep` maps `Issue`, `Accept`,
`Suspend`, `Activate` and `InsertMember` to the command of the same membership,
and all other steps to a stutter.

`MembershipLocksProofs.tla` proves, for every number of links and workers:

| Theorem | Statement |
| --- | --- |
| `TypeCorrect` | `Spec => []TypeOK` |
| `DecisionsHold` | `Spec => []DecisionHolds` |
| `ServicesImplementLifecycle` | `Spec => ServicesAreAtomic` |

The argument. Whoever has read the membership keeps its row locked to the end
(`Locked`), so no other transaction commits in between, and what was decided and
marked for revocation is still so at the commit (`Decided`). `Linked` says which
link a transaction is about; the primary key of an issue belongs to no other. A
commit then is the command of its kind (`CommitIsCommand`), every other step a
stutter. Only the lock of the membership row is used: the locks of the invitations,
which make deadlocks possible, protect nothing that this lock does not.

`ProcurementProofs.tla` proves, for every number of tenders, contractors,
applications, bids and requests:

| Theorem | Statement |
| --- | --- |
| `TypeCorrect` | `Spec => []TypeOK` |
| `OneBid` | `Spec => []OneBidEach` |
| `AwardsAreSound` | `Spec => []AwardsSound` |
| `AwardsAreTraced` | `Spec => []AuditTrail` |
| `AwardsAreFinal` | `Spec => AwardsFinal` |
| `BiddingIsOver` | `Spec => BiddingEnds` |

The argument. What a request checked long before it writes must still hold when
it writes (`Sound`): its winner is a stored bid of its tender, a tender it closed
is still closed, an award it made is still there. That is preserved because
every step is a `Growth` of the tables: nothing is deleted, bids and awards are
never changed, no tender is published again. `AwardsFinal` is a part of `Growth`.
For `AuditTrail` the danger is a tender withdrawn by an award whose creating
request has yet to store the event "published": `WithdrawnForAward` counts those
tenders as announced already, and `WithdrawnKept` says which steps preserve it.
For `BiddingEnds`, `BidRequests` says how a request comes to stand in dispatch or
past it; a tender that is not published gets no new one (`WithdrawnStaysOver`),
and whom the check refuses does not come past it (`RefusedStaysOver`). All other
properties use the checks at the start of a request nowhere: uniqueness rests on
the constraints alone.

`RoleGrantsProofs.tla` proves, for every number of organizations, people, roles,
permissions and requests:

| Theorem | Statement |
| --- | --- |
| `TypeCorrect` | `Spec => []TypeOK` |
| `RolesStayWithin` | `Spec => []AssignedWithinTenant` |
| `SelectionLeft` | `Spec => EditLeavesSelection` |

The argument. `Confined` extends `AssignedWithinTenant` to the roles that an edit
has read and not yet assigned; a role leaves the organization only by `SaveRole`,
which records it. `Alone` says that an edit that is alone is the only one of its
owner, and that once the others are deleted the owner has the selection but for
what is still to be created; steps of other edits touch other owners
(`AloneFrame`).

`OrganizationsProofs.tla` proves, for every number of organizations, users, areas,
departments, reports and requests:

| Theorem | Statement |
| --- | --- |
| `TypeCorrect` | `Spec => []TypeOK` |
| `MembersOnly` | `Spec => []WorksForMembers` |
| `SwitchesLast` | `Spec => []SwitchSticks` |
| `ReportsStayWithin` | `Spec => []RoutedWithin` |
| `SuspendedLeftAlone` | `Spec => SuspensionSticks` |

The argument. `SoundRequests` says what the middleware and the forms found out is
still true when a request writes: the organization is open and the user a member
while the membership lasts (`kept`), the unit belongs to the organization or was
moved. Most steps only add (`Grow`), and a sound request stays sound under them;
a suspension is not such a step, but ends what the request relied on
(`LapseInv`). `ChosenStays` explains why a switch stays in force: no running request
of that user will save the session, because all that follow it find an
organization there and modify nothing. `SuspensionSticks` follows from a case
analysis of the writes (`StepExplained`): a write for a suspended organization is
one of an overtaken request (`OvertakenRequest`), and a write for another one
leaves it alone unless it takes an area back (`SaveUnitElsewhere`,
`SaveUnitExplained`).

`AttemptLimitsProofs.tla` proves, for every number of accounts, counters and requests
and all limits:

| Theorem | Statement |
| --- | --- |
| `TypeCorrect` | `Spec => []TypeOK` |
| `GuessesLimited` | `Spec => []GuessesBounded` |
| `LostForEver` | `Spec => DeadForEver` |
| `LookupsLimited` | `Spec => []LookupsBounded` |

The argument. `OneCode`: the unique index leaves one request that will store a code
for an account, so a code is never replaced. `Counted`: without an overlap the
stored count is the one the only guess has read, and every comparison is counted
in it. For `DeadForEver`, `Lost` extends `Dead` to what may still come: whoever guesses
has read a spent count or will find the code expired (`TooLate`). Each step
preserves `Lost`. `Within` bounds the look-ups by two numbers of requests: those
that read no count and are evaluated uncounted once another has created it
(`Zero`), and those that read a count below the limit and have yet to increase it
(`Counting`).

`IssueWorkflowProofs.tla` proves, for every number of reports, references, statuses,
assignments and requests:

| Theorem | Statement |
| --- | --- |
| `TypeCorrect` | `Spec => []TypeOK` |
| `OneReport` | `Spec => []ReferencesUnique` |
| `StatusIsTold` | `Spec => []StatusInTimeline` |
| `AssignmentIsAudited` | `Spec => []AssignmentAudited` |
| `MailsAreTold` | `Spec => []MailsToldByTimeline` |

The argument. `StatusInTimeline` is not inductive: it counts every update at work,
also one that will add no event because it wrote the status it had read.
`StatusTold` counts only those that will certainly add one. What is told once is
told for ever, or its teller died, which `unrecorded` records (`Lasts`); so the
status an update read is still told when the update writes it back
(`SoundRequest`), whatever others wrote since. `AssignmentTold` is the same for
audits. A mail is queued after the event of its own update, or tells the status
that `StoreReport` recorded.

`EmailTasksProofs.tla` proves, for every number of tasks and retries:

| Theorem | Statement |
| --- | --- |
| `TypeCorrect` | `Spec => []TypeOK` |
| `CopiesLimited` | `Spec => []CopiesBounded` |

The argument. `RowSound`: a waiting task has an attempt left, and the running
attempt is the only one that has not been counted against the copies yet. That a
task failed does not mean that no mail of it arrived: an attempt may raise its
exception after the server took the mail.

The assumptions on the constants are `MaxUses \in Nat` (`Membership`); that the
membership is no invitation and nobody is no worker (`MembershipLocks`); that
"submitted" is a status and "unassigned" an assignment (`IssueWorkflow`);
`MaxRetries \in Nat` (`EmailTasks`); that `users.manage` is a permission and that no
role is a membership (`RoleGrants`); that `None` is no organization, user, area
and department and no area is a department (`Organizations`); and that the limits
are positive and the requests finitely many, at least one (`AttemptLimits`; the
requests served at a time are at most the threads of the web processes).

Only model-checked are the liveness properties `ServicesEnd` and `TasksSettle`: they
rest on fairness, for which the prover has no rules. The properties of the three
runs that expect a violation are false.

## Disagreements between the code and its texts

1. `membership_password`: "Set a password to activate this account."
   (`apps/accounts/services.py:101`) is skipped while the new account has the
   password `""`.
2. `issue_timeline`: status labels "must never misrepresent progress"
   (`CivicFlow_PRD_v1.1.md:145`); two overlapping updates leave a timeline that
   ends in the wrong status.
3. `role_scopes`: `permission_for` is to "resolve a user's strongest active
   grant" (`apps/accounts/policies.py:24`). `TenantRoleForm` lists the
   many-to-many field `permissions` among its model fields, so
   `super().save()` already stores the selected permissions, with the blank
   scope that `RolePermission.scope` has without a default; the
   `get_or_create(..., defaults={"scope": ...})` below it finds the rows and
   changes nothing. A blank scope has no rank, and `max()` raises `TypeError` for
   a member whose two roles both grant the permission. (What
   `ModelForm.save` and `set()` do is Django's, modelled from its documented
   behaviour; Django is not part of the repository.)

Others are visible in properties that hold only with an exception, or show in the
model without a run of their own:

* "State changes occur through named commands" (`CivicFlow_IMPLEMENTATION_PLAN.md:87`):
  `TenantMembershipForm.save` writes the whole row, and `SuspensionKept` excepts the
  edits that read a membership before it was suspended.
* "A material change and its audit record commit together"
  (`CivicFlow_IMPLEMENTATION_PLAN.md:90`): award and event are two commits, and
  `AuditTrail` excepts the awards, and the withdrawals of a tender, whose worker
  died in between (`died`).
* "Membership and role must belong to the same organization"
  (`apps/accounts/models.py:185`): the platform's role form moves a role without
  looking at its members, and `AssignedWithinTenant` excepts the roles that were
  moved. `RoutedWithin` has the same exception for service areas and reports.
* "submission at or after the deadline is rejected" (`CivicFlow_PRD_v1.1.md:276`):
  the check (`CheckBid`) precedes the upload, and the deadline may pass, or the
  award be made, before `InsertBid`; `BiddingEnds` says that no other bid is late.
* A suspension of an organization is undone by a settings form that was open when
  it happened; `SuspensionSticks` excepts requests that the suspension overtook.
  It also excepts an area that goes back to the organization from which the platform
  took it, because a manager's form of it was open.
* Sessions are saved whole: of two requests of one user that overlap, the later to
  end decides which organization is selected. `SwitchSticks` is about switches that
  nothing overlapped. Likewise `EditLeavesSelection` is about edits of a role or
  member that nothing overlapped.
* The limits of five guesses and ten look-ups are exceeded when requests overlap
  (`GuessesBounded`, `LookupsBounded`).

## Plan

What is left, in this order:

1. `IssueWorkflow` composed with `EmailTasks`, for what the mails a citizen reads
   say of the order in which they were queued.
2. The restriction of department managers to Officers and Inspectors
   (`apps/tenants/forms.py:187-200`), on top of `RoleGrants`.

## Not modelled

* `separation_allows` (`apps/accounts/policies.py:63`): no view calls it, only a test
  does, and it is a query without a state.
* The Django admin site: generic editing by superusers, which the plan keeps out
  of operations.
* Page rendering, health checks, request logging; settings and seeds.
* Attachments and their checksums: rows and files stored within the report's
  transaction, which nothing changes later. The texts of mails and messages;
  geometry of service areas, an input check of the form.
* Disabling an account in the admin site. Sign-in and sign-out matter to
  `Membership` as far as they void tokens (`UseAccount`); a session that ends takes
  its organization with it, which is the state of `Organizations` before the
  session names one.

`PROJECT.json` lists each part with its reason.
