---------------------------- MODULE IssueWorkflow ---------------------------
(***************************************************************************)
(* Citizen reports, the staff updates of them, the public timeline, the    *)
(* assignment audits and the queueing of e-mail: apps/issues.  A report is *)
(* stored in one transaction.  A staff update opens none: each of its      *)
(* writes is an action, and the worker may die between any two of them.    *)
(* What Celery does with a queued task is in EmailTasks.                   *)
(***************************************************************************)
EXTENDS Naturals, Sequences, Tables

CONSTANTS Issue, Reference,         \* primary keys, and the public references
          Status, Submitted,        \* the form accepts every status at any time
          Assignment, Unassigned,   \* pairs of a staff member and a department
          Request                   \* all the requests ever made

ASSUME DefaultsAssumption ==
  Submitted \in Status /\ Unassigned \in Assignment

VARIABLES issues,      \* table Issue -> IssueRow
          timeline,    \* the status of each public event, oldest first
          audits,      \* the assignment audits of each issue
          notes,       \* requests whose internal note is stored
          requests,    \* table Request -> where the request's code stands
          tasks,       \* table Request -> the e-mail task the request queued
          unrecorded   \* history: issues an update of which died half-way

vars == <<issues, timeline, audits, notes, requests, tasks, unrecorded>>

Work     == [status : Status, assignment : Assignment]
IssueRow == [reference : Reference, email : BOOLEAN, work : Work]
Audit    == [previous : Assignment, new : Assignment]

Done == [at |-> "done"]
SubmitRequest  == [at : {"store"}, reference : Reference, email : BOOLEAN]
ConfirmRequest == [at : {"confirm"}, issue : Issue]
UpdateRequest  == [at : {"save", "audit", "note", "event", "mail"}, issue : Issue,
                   old : Work, new : Work, message : BOOLEAN, note : BOOLEAN]

Task == [issue : Issue, status : Status]

Taken(reference) == \E i \in DOMAIN issues : issues[i].reference = reference

At(r, step) == r \in DOMAIN requests /\ requests[r].at = step
GoOn(r, step) == Put(requests, r, [requests[r] EXCEPT !.at = step])

Init ==
  /\ issues = Empty
  /\ timeline = Empty
  /\ audits = Empty
  /\ notes = {}
  /\ requests = Empty
  /\ tasks = Empty
  /\ unrecorded = {}

-----------------------------------------------------------------------------
(***************************************************************************)
(* submit_issue: full_clean looks the new reference up.  One that is taken *)
(* raises ValidationError, which the loop does not catch: nothing is       *)
(* stored, and no other reference is tried.                                *)
(***************************************************************************)
CheckReference(r, reference, email) ==
  /\ r \notin DOMAIN requests
  /\ ~Taken(reference)
  /\ requests' = Put(requests, r, [at |-> "store", reference |-> reference, email |-> email])
  /\ UNCHANGED <<issues, timeline, audits, notes, tasks, unrecorded>>

StoreAnyReference(r, i) ==
  /\ At(r, "store")
  /\ i \notin DOMAIN issues
  /\ issues' = Put(issues, i, [reference |-> requests[r].reference,
                               email     |-> requests[r].email,
                               work      |-> [status |-> Submitted, assignment |-> Unassigned]])
  /\ timeline' = Put(timeline, i, <<Submitted>>)
  /\ audits' = Put(audits, i, <<>>)
  /\ requests' = Put(requests, r, Done)
  /\ UNCHANGED <<notes, tasks, unrecorded>>

StoreWithoutEvent(r, i) ==
  /\ At(r, "store")
  /\ i \notin DOMAIN issues
  /\ ~Taken(requests[r].reference)
  /\ issues' = Put(issues, i, [reference |-> requests[r].reference,
                               email     |-> requests[r].email,
                               work      |-> [status |-> Submitted, assignment |-> Unassigned]])
  /\ audits' = Put(audits, i, <<>>)
  /\ requests' = Put(requests, r, Done)
  /\ UNCHANGED <<timeline, notes, tasks, unrecorded>>

(***************************************************************************)
(* The INSERT and the commit.  The unique index refuses a reference that   *)
(* another request stored since the check; the failed INSERT ends the      *)
(* transaction, so the remaining attempts of the loop cannot succeed.      *)
(***************************************************************************)
StoreReport(r, i) ==
  /\ At(r, "store")
  /\ i \notin DOMAIN issues
  /\ IF Taken(requests[r].reference)
     THEN /\ requests' = Put(requests, r, Done)
          /\ UNCHANGED <<issues, timeline, audits>>
     ELSE /\ issues' = Put(issues, i,
                           [reference |-> requests[r].reference,
                            email     |-> requests[r].email,
                            work      |-> [status |-> Submitted, assignment |-> Unassigned]])
          /\ timeline' = Put(timeline, i, <<Submitted>>)
          /\ audits' = Put(audits, i, <<>>)
          /\ requests' = Put(requests, r, IF requests[r].email
                                          THEN [at |-> "confirm", issue |-> i]
                                          ELSE Done)
  /\ UNCHANGED <<notes, tasks, unrecorded>>

Queue(r, i, status) ==
  /\ tasks' = Put(tasks, r, [issue |-> i, status |-> status])
  /\ requests' = Put(requests, r, Done)

(* After the commit: send_issue_received_email.delay. *)
Confirm(r) ==
  /\ At(r, "confirm")
  /\ Queue(r, requests[r].issue, Submitted)
  /\ UNCHANGED <<issues, timeline, audits, notes, unrecorded>>

-----------------------------------------------------------------------------
(* IssueOperationsDetailView.post: the row is read, the form is validated. *)
ReadIssue(r, i, new, message, note) ==
  /\ r \notin DOMAIN requests
  /\ i \in DOMAIN issues
  /\ requests' = Put(requests, r, [at |-> "save", issue |-> i, old |-> issues[i].work,
                                   new |-> new, message |-> message, note |-> note])
  /\ UNCHANGED <<issues, timeline, audits, notes, tasks, unrecorded>>

(* UPDATE of the status and the assignment, whatever they are by now. *)
SaveIssue(r) ==
  /\ At(r, "save")
  /\ issues' = [issues EXCEPT ![requests[r].issue].work = requests[r].new]
  /\ requests' = GoOn(r, "audit")
  /\ UNCHANGED <<timeline, audits, notes, tasks, unrecorded>>

AssignmentsOnly(r) ==
  /\ requests[r].old.assignment = Unassigned
  /\ requests[r].new.assignment # Unassigned

Reassigned(r) == requests[r].old.assignment # requests[r].new.assignment
Restated(r)   == requests[r].old.status # requests[r].new.status

RecordAudit(r) ==
  /\ At(r, "audit")
  /\ IF Reassigned(r)
     THEN audits' = [audits EXCEPT ![requests[r].issue] =
                       Append(@, [previous |-> requests[r].old.assignment,
                                  new      |-> requests[r].new.assignment])]
     ELSE UNCHANGED audits
  /\ requests' = GoOn(r, "note")
  /\ UNCHANGED <<issues, timeline, notes, tasks, unrecorded>>

RecordNote(r) ==
  /\ At(r, "note")
  /\ notes' = IF requests[r].note THEN notes \cup {r} ELSE notes
  /\ requests' = GoOn(r, "event")
  /\ UNCHANGED <<issues, timeline, audits, tasks, unrecorded>>

EventWithMessageOnly(r) ==
  /\ At(r, "event")
  /\ IF requests[r].message
     THEN timeline' = [timeline EXCEPT ![requests[r].issue] = Append(@, requests[r].new.status)]
     ELSE UNCHANGED timeline
  /\ requests' = GoOn(r, "mail")
  /\ UNCHANGED <<issues, audits, notes, tasks, unrecorded>>

(* The public event, for a message or a change of the status that was read. *)
RecordEvent(r) ==
  /\ At(r, "event")
  /\ IF requests[r].message \/ Restated(r)
     THEN timeline' = [timeline EXCEPT ![requests[r].issue] = Append(@, requests[r].new.status)]
     ELSE UNCHANGED timeline
  /\ requests' = GoOn(r, "mail")
  /\ UNCHANGED <<issues, audits, notes, tasks, unrecorded>>

QueueAlways(r) ==
  /\ At(r, "mail")
  /\ Queue(r, requests[r].issue, requests[r].new.status)
  /\ UNCHANGED <<issues, timeline, audits, notes, unrecorded>>

(* Only a change of the status is mailed, to a reporter who asked for it. *)
QueueUpdate(r) ==
  /\ At(r, "mail")
  /\ IF Restated(r) /\ issues[requests[r].issue].email
     THEN Queue(r, requests[r].issue, requests[r].new.status)
     ELSE requests' = Put(requests, r, Done) /\ UNCHANGED tasks
  /\ UNCHANGED <<issues, timeline, audits, notes, unrecorded>>

(* The worker dies, or the broker refuses the task. *)
Abort(r) ==
  /\ r \in DOMAIN requests
  /\ requests[r] # Done
  /\ requests' = Put(requests, r, Done)
  /\ unrecorded' = unrecorded \cup
       {i \in Issue : requests[r].at \in {"audit", "note", "event"} /\ requests[r].issue = i}
  /\ UNCHANGED <<issues, timeline, audits, notes, tasks>>

Next ==
  \/ \E r \in Request, ref \in Reference, email \in BOOLEAN : CheckReference(r, ref, email)
  \/ \E r \in Request, i \in Issue : StoreReport(r, i)
  \/ \E r \in Request, i \in Issue, new \in Work, message, note \in BOOLEAN :
        ReadIssue(r, i, new, message, note)
  \/ \E r \in Request : \/ Confirm(r) \/ SaveIssue(r) \/ RecordAudit(r) \/ RecordNote(r)
                        \/ RecordEvent(r) \/ QueueUpdate(r) \/ Abort(r)

Spec == Init /\ [][Next]_vars

-----------------------------------------------------------------------------
TypeOK ==
  /\ IsTable(issues, Issue, IssueRow)
  /\ IsTable(timeline, Issue, Seq(Status))
  /\ IsTable(audits, Issue, Seq(Audit))
  /\ DOMAIN timeline = DOMAIN issues /\ DOMAIN audits = DOMAIN issues
  /\ notes \subseteq Request
  /\ IsTable(requests, Request, {Done} \cup SubmitRequest \cup ConfirmRequest \cup UpdateRequest)
  /\ IsTable(tasks, Request, Task)
  /\ unrecorded \subseteq Issue

(* A reference names one report, although the look-up of a new reference   *)
(* and the INSERT of the report are two steps.                             *)
ReferencesUnique ==
  \A i, j \in DOMAIN issues : issues[i].reference = issues[j].reference => i = j

InTimeline(i, status) == \E k \in DOMAIN timeline[i] : timeline[i][k] = status

(* An update that saved its columns and still has to record them. *)
Recording(r, i) ==
  r \in DOMAIN requests /\ requests[r].at \in {"audit", "note", "event"} /\ requests[r].issue = i

(* The status of a report is one the citizen was told of, or an update is  *)
(* about to tell it, or an update of that report died half-way.            *)
StatusInTimeline ==
  \A i \in DOMAIN issues :
     \/ InTimeline(i, issues[i].work.status)
     \/ \E r \in Request : Recording(r, i) /\ requests[r].new.status = issues[i].work.status
     \/ i \in unrecorded

(* Likewise, whoever a report is assigned to was assigned in an audit.     *)
AssignmentAudited ==
  \A i \in DOMAIN issues :
     \/ issues[i].work.assignment = Unassigned
     \/ \E k \in DOMAIN audits[i] : audits[i][k].new = issues[i].work.assignment
     \/ \E r \in Request : /\ Recording(r, i)
                           /\ requests[r].new.assignment = issues[i].work.assignment
     \/ i \in unrecorded

(* No reporter is mailed a status that the public timeline does not hold,  *)
(* and nobody is mailed who did not ask for it.                            *)
MailsToldByTimeline ==
  \A r \in DOMAIN tasks :
     /\ tasks[r].issue \in DOMAIN issues
     /\ issues[tasks[r].issue].email
     /\ InTimeline(tasks[r].issue, tasks[r].status)

-----------------------------------------------------------------------------
(* "Public status labels ... must never misrepresent progress": when all   *)
(* updates of a report are done and none died, the last public event shows *)
(* the status the report has.                                              *)
TimelineTellsStatus ==
  \A i \in DOMAIN issues \ unrecorded :
     (\A r \in DOMAIN requests : requests[r].at \in {"store", "done"} \/ requests[r].issue # i)
       => timeline[i][Len(timeline[i])] = issues[i].work.status
=============================================================================
