------------------------ MODULE IssueWorkflowProofs -------------------------
(***************************************************************************)
(* Theorems about IssueWorkflow for every set of reports, references,      *)
(* statuses, assignments and requests.                                     *)
(***************************************************************************)
EXTENDS IssueWorkflow, TLAPS

RequestRow == {Done} \cup SubmitRequest \cup ConfirmRequest \cup UpdateRequest

Audited(i, a) == \E k \in DOMAIN audits[i] : audits[i][k].new = a

(***************************************************************************)
(* A status is told when it is in the timeline, or an update that will     *)
(* certainly add it is at work, or an update died half-way.  Unlike        *)
(* StatusInTimeline this leaves out the updates that will add no event.    *)
(***************************************************************************)
StatusTold(i, s) ==
  \/ InTimeline(i, s)
  \/ i \in unrecorded
  \/ \E r \in DOMAIN requests : /\ Recording(r, i)
                                /\ requests[r].new.status = s
                                /\ requests[r].message \/ Restated(r)

(* Likewise for assignments and their audits. *)
AssignmentTold(i, a) ==
  \/ a = Unassigned
  \/ Audited(i, a)
  \/ i \in unrecorded
  \/ \E r \in DOMAIN requests : /\ At(r, "audit")
                                /\ requests[r].issue = i
                                /\ requests[r].new.assignment = a
                                /\ Reassigned(r)

(* What an update read was told by then, so if it writes the same value    *)
(* without recording it, somebody else does.                               *)
SoundRequest(r) ==
  /\ requests[r].at \in {"confirm", "save", "audit", "note", "event", "mail"} =>
       requests[r].issue \in DOMAIN issues
  /\ At(r, "confirm") => /\ issues[requests[r].issue].email
                         /\ InTimeline(requests[r].issue, Submitted)
  /\ At(r, "save") => /\ StatusTold(requests[r].issue, requests[r].old.status)
                      /\ AssignmentTold(requests[r].issue, requests[r].old.assignment)
  /\ At(r, "mail") /\ Restated(r) => InTimeline(requests[r].issue, requests[r].new.status)

SoundIssue(i) ==
  /\ StatusTold(i, issues[i].work.status)
  /\ AssignmentTold(i, issues[i].work.assignment)

SoundMail(r) ==
  /\ tasks[r].issue \in DOMAIN issues
  /\ issues[tasks[r].issue].email
  /\ InTimeline(tasks[r].issue, tasks[r].status)

Inv ==
  /\ TypeOK
  /\ \A r \in DOMAIN requests : SoundRequest(r)
  /\ \A i \in DOMAIN issues : SoundIssue(i)
  /\ \A r \in DOMAIN tasks : SoundMail(r)
  /\ ReferencesUnique

-----------------------------------------------------------------------------
(* What was stored, told or recorded of a report stays so.                 *)
Lasts ==
  \A i \in DOMAIN issues :
     /\ i \in DOMAIN issues'
     /\ issues'[i].email = issues[i].email
     /\ \A s : InTimeline(i, s) => InTimeline(i, s)'
     /\ \A s : StatusTold(i, s) => StatusTold(i, s)'
     /\ \A a : AssignmentTold(i, a) => AssignmentTold(i, a)'

LEMMA RequestTypes ==
  ASSUME Inv, NEW r \in DOMAIN requests
  PROVE  /\ r \in Request
         /\ requests[r].at \in {"save", "audit", "note", "event", "mail"} => requests[r] \in UpdateRequest
         /\ requests[r].at = "confirm" => requests[r] \in ConfirmRequest
         /\ requests[r].at = "store" => requests[r] \in SubmitRequest
         /\ SoundRequest(r)
  BY DEF Inv, TypeOK, IsTable, Done, SubmitRequest, ConfirmRequest, UpdateRequest

LEMMA PutRequest ==
  ASSUME Inv, NEW r \in Request, NEW row \in RequestRow, requests' = Put(requests, r, row)
  PROVE  /\ IsTable(requests', Request, RequestRow)
         /\ DOMAIN requests' = DOMAIN requests \cup {r}
         /\ requests'[r] = row
         /\ \A q \in DOMAIN requests : q # r => requests'[q] = requests[q]
  BY DEF Inv, TypeOK, IsTable, RequestRow, Put

LEMMA UpdateRow ==
  ASSUME Inv, NEW r \in DOMAIN requests,
         requests[r].at \in {"save", "audit", "note", "event", "mail"},
         NEW step \in {"save", "audit", "note", "event", "mail"},
         NEW row, row = [requests[r] EXCEPT !.at = step]
  PROVE  /\ row \in UpdateRequest /\ row \in RequestRow
         /\ row.at = step
         /\ row.issue = requests[r].issue /\ row.old = requests[r].old
         /\ row.new = requests[r].new /\ row.message = requests[r].message
  BY RequestTypes DEF UpdateRequest, RequestRow

LEMMA DoneRow == Done \in RequestRow /\ Done.at = "done"
  BY DEF RequestRow, Done

(***************************************************************************)
(* A step writes the row of one request r.  A status stays told when r was *)
(* not recording it, still is, recorded it or died.                        *)
(***************************************************************************)
LEMMA StatusLasts ==
  ASSUME NEW r, NEW i, NEW s, StatusTold(i, s),
         \A q \in DOMAIN requests : q # r => q \in DOMAIN requests' /\ requests'[q] = requests[q],
         InTimeline(i, s) => InTimeline(i, s)',
         unrecorded \subseteq unrecorded',
         r \in DOMAIN requests /\ Recording(r, i) /\ requests[r].new.status = s
            /\ (requests[r].message \/ Restated(r)) => StatusTold(i, s)'
  PROVE  StatusTold(i, s)'
  <1>1. CASE InTimeline(i, s) \/ i \in unrecorded
    BY <1>1 DEF StatusTold
  <1>2. ASSUME NEW q \in DOMAIN requests, q # r, Recording(q, i),
               requests[q].new.status = s, requests[q].message \/ Restated(q)
        PROVE  StatusTold(i, s)'
    <2>1. q \in DOMAIN requests' /\ requests'[q] = requests[q]
      BY <1>2
    <2>2. Recording(q, i)' /\ requests'[q].new.status = s /\ (requests'[q].message \/ Restated(q)')
      BY <1>2, <2>1 DEF Recording, Restated
    <2>3. QED
      BY <2>1, <2>2 DEF StatusTold
  <1>3. QED
    BY <1>1, <1>2 DEF StatusTold

LEMMA AssignmentLasts ==
  ASSUME NEW r, NEW i, NEW a, AssignmentTold(i, a),
         \A q \in DOMAIN requests : q # r => q \in DOMAIN requests' /\ requests'[q] = requests[q],
         Audited(i, a) => Audited(i, a)',
         unrecorded \subseteq unrecorded',
         r \in DOMAIN requests /\ At(r, "audit") /\ requests[r].issue = i
            /\ requests[r].new.assignment = a /\ Reassigned(r) => AssignmentTold(i, a)'
  PROVE  AssignmentTold(i, a)'
  <1>1. CASE a = Unassigned \/ Audited(i, a) \/ i \in unrecorded
    BY <1>1 DEF AssignmentTold
  <1>2. ASSUME NEW q \in DOMAIN requests, q # r, At(q, "audit"), requests[q].issue = i,
               requests[q].new.assignment = a, Reassigned(q)
        PROVE  AssignmentTold(i, a)'
    <2>1. q \in DOMAIN requests' /\ requests'[q] = requests[q]
      BY <1>2
    <2>2. At(q, "audit")' /\ requests'[q].issue = i /\ requests'[q].new.assignment = a /\ Reassigned(q)'
      BY <1>2, <2>1 DEF At, Reassigned
    <2>3. QED
      BY <2>1, <2>2 DEF AssignmentTold
  <1>3. QED
    BY <1>1, <1>2 DEF AssignmentTold

(* The requests, reports and mails that a step leaves alone stay sound.    *)
LEMMA StepInv ==
  ASSUME Inv, TypeOK', Lasts, ReferencesUnique', NEW r,
         \A q \in DOMAIN requests' :
            q = r \/ (q \in DOMAIN requests /\ requests'[q] = requests[q]),
         SoundRequest(r)',
         \A i \in DOMAIN issues' :
            SoundIssue(i)' \/ (i \in DOMAIN issues /\ issues'[i].work = issues[i].work),
         \A q \in DOMAIN tasks' :
            SoundMail(q)' \/ (q \in DOMAIN tasks /\ tasks'[q] = tasks[q])
  PROVE  Inv'
  <1>1. ASSUME NEW q \in DOMAIN requests'
        PROVE  SoundRequest(q)'
    <2>1. CASE q = r
      BY <2>1
    <2>2. CASE q \in DOMAIN requests /\ requests'[q] = requests[q]
      <3>1. SoundRequest(q)
        BY <2>2 DEF Inv
      <3>2. \A step : At(q, step)' <=> At(q, step)
        BY <2>2 DEF At
      <3>3. Restated(q)' <=> Restated(q)
        BY <2>2 DEF Restated
      <3>4. requests[q].at \in {"confirm", "save", "audit", "note", "event", "mail"} =>
              requests[q].issue \in DOMAIN issues
        BY <3>1 DEF SoundRequest
      <3>5. At(q, "confirm") => requests[q].issue \in DOMAIN issues
        BY <3>4 DEF At
      <3>6. At(q, "save") => requests[q].issue \in DOMAIN issues
        BY <3>4 DEF At
      <3>7. At(q, "mail") => requests[q].issue \in DOMAIN issues
        BY <3>4 DEF At
      <3>8. QED
        BY <2>2, <3>1, <3>2, <3>3, <3>4, <3>5, <3>6, <3>7 DEF SoundRequest, Lasts
    <2>3. QED
      BY <2>1, <2>2
  <1>2. ASSUME NEW i \in DOMAIN issues'
        PROVE  SoundIssue(i)'
    BY DEF Inv, Lasts, SoundIssue
  <1>3. ASSUME NEW q \in DOMAIN tasks'
        PROVE  SoundMail(q)'
    BY DEF Inv, Lasts, SoundMail
  <1>4. QED
    BY <1>1, <1>2, <1>3 DEF Inv

(***************************************************************************)
(* A step that writes no report, event or audit: the request was not       *)
(* recording, goes on to record, or died and is remembered.                *)
(***************************************************************************)
LEMMA QuietLasts ==
  ASSUME Inv, NEW r, UNCHANGED <<issues, timeline, audits>>, unrecorded \subseteq unrecorded',
         \A q \in DOMAIN requests : q # r => q \in DOMAIN requests' /\ requests'[q] = requests[q],
         \A i \in DOMAIN issues : Recording(r, i) =>
            \/ i \in unrecorded'
            \/ /\ ~At(r, "audit") /\ Recording(r, i)'
               /\ requests'[r].new = requests[r].new /\ requests'[r].old = requests[r].old
               /\ requests'[r].message = requests[r].message
  PROVE  Lasts
  <1>1. \A i, t : InTimeline(i, t) => InTimeline(i, t)'
    BY DEF InTimeline
  <1>2. \A i, a : Audited(i, a) => Audited(i, a)'
    BY DEF Audited
  <1>3. ASSUME NEW i \in DOMAIN issues, NEW t, StatusTold(i, t)
        PROVE  StatusTold(i, t)'
    <2>1. ASSUME r \in DOMAIN requests, Recording(r, i), requests[r].new.status = t,
                 requests[r].message \/ Restated(r)
          PROVE  StatusTold(i, t)'
      <3>1. CASE i \in unrecorded'
        BY <3>1 DEF StatusTold
      <3>2. CASE /\ Recording(r, i)' /\ requests'[r].new = requests[r].new
                 /\ requests'[r].old = requests[r].old /\ requests'[r].message = requests[r].message
        <4>1. r \in DOMAIN requests' /\ (requests'[r].message \/ Restated(r)')
          BY <2>1, <3>2 DEF Recording, Restated
        <4>2. QED
          BY <2>1, <3>2, <4>1 DEF StatusTold
      <3>3. QED
        BY <2>1, <3>1, <3>2
    <2>2. QED
      BY <1>1, <1>3, <2>1, StatusLasts
  <1>4. ASSUME NEW i \in DOMAIN issues, NEW a, AssignmentTold(i, a)
        PROVE  AssignmentTold(i, a)'
    <2>1. ASSUME r \in DOMAIN requests, At(r, "audit"), requests[r].issue = i
          PROVE  AssignmentTold(i, a)'
      BY <2>1 DEF At, Recording, AssignmentTold
    <2>2. QED
      BY <1>2, <1>4, <2>1, AssignmentLasts
  <1>5. QED
    BY <1>1, <1>3, <1>4 DEF Lasts

(* The rest of such a step: only its request and its mail must be sound.   *)
LEMMA QuietInv ==
  ASSUME Inv, NEW r \in Request, NEW row \in RequestRow, requests' = Put(requests, r, row),
         UNCHANGED <<issues, timeline, audits>>,
         unrecorded \subseteq unrecorded', unrecorded' \subseteq Issue,
         notes' \subseteq Request, IsTable(tasks', Request, Task),
         Lasts, SoundRequest(r)',
         \A q \in DOMAIN tasks' :
            SoundMail(q)' \/ (q \in DOMAIN tasks /\ tasks'[q] = tasks[q])
  PROVE  Inv'
  <1>1. TypeOK'
    BY PutRequest DEF Inv, TypeOK, RequestRow
  <1>2. ReferencesUnique'
    BY DEF Inv, ReferencesUnique
  <1>3. QED
    BY <1>1, <1>2, PutRequest, StepInv

-----------------------------------------------------------------------------
LEMMA CheckReferenceInv ==
  ASSUME Inv, NEW r \in Request, NEW ref \in Reference, NEW email \in BOOLEAN,
         CheckReference(r, ref, email)
  PROVE  Inv'
  <1> DEFINE row == [at |-> "store", reference |-> ref, email |-> email]
  <1>1. /\ r \notin DOMAIN requests /\ requests' = Put(requests, r, row)
        /\ UNCHANGED <<issues, timeline, audits, notes, tasks, unrecorded>>
    BY DEF CheckReference
  <1>2. row \in RequestRow /\ row.at = "store"
    BY DEF RequestRow, SubmitRequest
  <1> HIDE DEF row
  <1>3. SoundRequest(r)'
    BY <1>1, <1>2, PutRequest DEF SoundRequest, At
  <1>4. Lasts
    BY <1>1, <1>2, PutRequest, QuietLasts DEF Recording
  <1>5. QED
    BY <1>1, <1>2, <1>3, <1>4, QuietInv DEF Inv, TypeOK

LEMMA ReadIssueInv ==
  ASSUME Inv, NEW r \in Request, NEW i \in Issue, NEW new \in Work,
         NEW message \in BOOLEAN, NEW note \in BOOLEAN, ReadIssue(r, i, new, message, note)
  PROVE  Inv'
  <1> DEFINE row == [at |-> "save", issue |-> i, old |-> issues[i].work,
                     new |-> new, message |-> message, note |-> note]
  <1>1. /\ r \notin DOMAIN requests /\ requests' = Put(requests, r, row) /\ i \in DOMAIN issues
        /\ UNCHANGED <<issues, timeline, audits, notes, tasks, unrecorded>>
    BY DEF ReadIssue
  <1>2. issues[i].work \in Work
    BY <1>1 DEF Inv, TypeOK, IsTable, IssueRow
  <1>3. row \in RequestRow /\ row.at = "save" /\ row.issue = i /\ row.old = issues[i].work
    BY <1>2 DEF RequestRow, UpdateRequest
  <1> HIDE DEF row
  <1>4. Lasts
    BY <1>1, <1>3, PutRequest, QuietLasts DEF Recording
  <1>5. SoundRequest(r)'
    <2>1. StatusTold(i, issues[i].work.status) /\ AssignmentTold(i, issues[i].work.assignment)
      BY <1>1 DEF Inv, SoundIssue
    <2>2. StatusTold(i, issues[i].work.status)' /\ AssignmentTold(i, issues[i].work.assignment)'
      BY <1>1, <1>4, <2>1 DEF Lasts
    <2>3. requests'[r] = row
      BY <1>1, <1>3, PutRequest
    <2>4. requests'[r].old = issues'[i].work /\ requests'[r].issue = i /\ requests'[r].at = "save"
      BY <1>1, <1>3, <2>3
    <2>5. QED
      BY <1>1, <2>2, <2>4 DEF SoundRequest, At
  <1>6. QED
    BY <1>1, <1>3, <1>4, <1>5, QuietInv DEF Inv, TypeOK

LEMMA RecordNoteInv ==
  ASSUME Inv, NEW r \in Request, RecordNote(r)
  PROVE  Inv'
  <1> DEFINE row == [requests[r] EXCEPT !.at = "event"]
  <1>1. /\ r \in DOMAIN requests /\ requests[r].at = "note" /\ requests' = Put(requests, r, row)
        /\ notes' \subseteq notes \cup {r}
        /\ UNCHANGED <<issues, timeline, audits, tasks, unrecorded>>
    BY DEF RecordNote, At, GoOn
  <1>2. /\ row \in RequestRow /\ row.at = "event"
        /\ row.issue = requests[r].issue /\ row.old = requests[r].old
        /\ row.new = requests[r].new /\ row.message = requests[r].message
    BY <1>1, UpdateRow
  <1> HIDE DEF row
  <1>3. requests'[r] = row /\ r \in DOMAIN requests'
    BY <1>1, <1>2, PutRequest
  <1>4. Lasts
    <2>1. \A i : Recording(r, i) => ~At(r, "audit") /\ Recording(r, i)'
      BY <1>1, <1>2, <1>3 DEF Recording, At
    <2>2. \A q \in DOMAIN requests : q # r => q \in DOMAIN requests' /\ requests'[q] = requests[q]
      BY <1>1, <1>2, PutRequest
    <2>3. QED
      BY <1>1, <1>2, <1>3, <2>1, <2>2, QuietLasts
  <1>5. SoundRequest(r)'
    BY <1>1, <1>2, <1>3, RequestTypes DEF SoundRequest, At
  <1>6. QED
    BY <1>1, <1>2, <1>4, <1>5, QuietInv DEF Inv, TypeOK

(* A request that ends, with or without queueing a mail. *)
LEMMA EndInv ==
  ASSUME Inv, NEW r \in DOMAIN requests, requests' = Put(requests, r, Done),
         UNCHANGED <<issues, timeline, audits, notes>>,
         unrecorded \subseteq unrecorded', unrecorded' \subseteq Issue,
         \A i \in DOMAIN issues : Recording(r, i) => i \in unrecorded',
         IsTable(tasks', Request, Task),
         \A q \in DOMAIN tasks' :
            SoundMail(q)' \/ (q \in DOMAIN tasks /\ tasks'[q] = tasks[q])
  PROVE  Inv'
  <1>1. r \in Request
    BY RequestTypes
  <1>2. Lasts
    BY <1>1, DoneRow, PutRequest, QuietLasts
  <1>3. SoundRequest(r)'
    BY <1>1, DoneRow, PutRequest DEF SoundRequest, At
  <1>4. QED
    BY <1>1, <1>2, <1>3, DoneRow, QuietInv DEF Inv, TypeOK

LEMMA AbortInv ==
  ASSUME Inv, NEW r \in Request, Abort(r)
  PROVE  Inv'
  <1>1. /\ r \in DOMAIN requests /\ requests' = Put(requests, r, Done)
        /\ unrecorded' = unrecorded \cup
             {i \in Issue : requests[r].at \in {"audit", "note", "event"} /\ requests[r].issue = i}
        /\ UNCHANGED <<issues, timeline, audits, notes, tasks>>
    BY DEF Abort
  <1>2. \A i \in DOMAIN issues : Recording(r, i) => i \in unrecorded'
    BY <1>1 DEF Recording, Inv, TypeOK, IsTable
  <1>3. unrecorded' \subseteq Issue
    BY <1>1 DEF Inv, TypeOK
  <1>4. QED
    BY <1>1, <1>2, <1>3, EndInv DEF Inv, TypeOK

(* The mail that is queued names a status that is in the timeline. *)
LEMMA QueueInv ==
  ASSUME Inv, NEW r \in DOMAIN requests, NEW i \in DOMAIN issues, NEW status \in Status,
         Queue(r, i, status), UNCHANGED <<issues, timeline, audits, notes, unrecorded>>,
         issues[i].email, InTimeline(i, status), \A j : ~Recording(r, j)
  PROVE  Inv'
  <1> DEFINE row == [issue |-> i, status |-> status]
  <1>1. requests' = Put(requests, r, Done) /\ tasks' = Put(tasks, r, row)
    BY DEF Queue
  <1>2. row \in Task /\ row.issue = i /\ row.status = status
    BY DEF Inv, TypeOK, IsTable, Task
  <1> HIDE DEF row
  <1>3. /\ IsTable(tasks', Request, Task) /\ tasks'[r] = row
        /\ \A q \in DOMAIN tasks' : q = r \/ (q \in DOMAIN tasks /\ tasks'[q] = tasks[q])
    BY <1>1, <1>2, RequestTypes DEF Put, IsTable, Inv, TypeOK
  <1>4. SoundMail(r)'
    BY <1>2, <1>3 DEF SoundMail, InTimeline
  <1>5. QED
    BY <1>1, <1>3, <1>4, EndInv DEF Inv, TypeOK

LEMMA ConfirmInv ==
  ASSUME Inv, NEW r \in Request, Confirm(r)
  PROVE  Inv'
  <1>1. r \in DOMAIN requests /\ At(r, "confirm")
    BY DEF Confirm, At
  <1>2. /\ requests[r].issue \in DOMAIN issues /\ issues[requests[r].issue].email
        /\ InTimeline(requests[r].issue, Submitted)
    BY <1>1, RequestTypes DEF SoundRequest, At
  <1>3. \A j : ~Recording(r, j)
    BY <1>1 DEF At, Recording
  <1>4. QED
    BY <1>1, <1>2, <1>3, QueueInv, DefaultsAssumption DEF Confirm

LEMMA QueueUpdateInv ==
  ASSUME Inv, NEW r \in Request, QueueUpdate(r)
  PROVE  Inv'
  <1>1. r \in DOMAIN requests /\ At(r, "mail") /\ \A j : ~Recording(r, j)
    BY DEF QueueUpdate, At, Recording
  <1>2. CASE Restated(r) /\ issues[requests[r].issue].email
    <2>1. /\ requests[r].issue \in DOMAIN issues /\ requests[r].new.status \in Status
          /\ InTimeline(requests[r].issue, requests[r].new.status)
      BY <1>1, <1>2, RequestTypes DEF SoundRequest, At, UpdateRequest, Work
    <2>2. QED
      BY <1>1, <1>2, <2>1, QueueInv DEF QueueUpdate
  <1>3. CASE ~(Restated(r) /\ issues[requests[r].issue].email)
    BY <1>1, <1>3, EndInv DEF QueueUpdate, Inv, TypeOK
  <1>4. QED
    BY <1>2, <1>3

-----------------------------------------------------------------------------
LEMMA AppendKeeps ==
  ASSUME NEW S, NEW seq \in Seq(S), NEW x \in S
  PROVE  /\ Append(seq, x) \in Seq(S)
         /\ \A k \in DOMAIN seq : k \in DOMAIN Append(seq, x) /\ Append(seq, x)[k] = seq[k]
         /\ Len(seq) + 1 \in DOMAIN Append(seq, x)
         /\ Append(seq, x)[Len(seq) + 1] = x
  OBVIOUS

(* One status is added to the timeline of report i. *)
LEMMA EventKeeps ==
  ASSUME Inv, NEW i \in DOMAIN issues, NEW status \in Status,
         timeline' = [timeline EXCEPT ![i] = Append(@, status)]
  PROVE  /\ IsTable(timeline', Issue, Seq(Status)) /\ DOMAIN timeline' = DOMAIN timeline
         /\ \A j \in DOMAIN issues : \A s : InTimeline(j, s) => InTimeline(j, s)'
         /\ InTimeline(i, status)'
  <1>1. i \in DOMAIN timeline /\ timeline[i] \in Seq(Status)
    BY DEF Inv, TypeOK, IsTable
  <1> DEFINE longer == Append(timeline[i], status)
  <1>2. /\ longer \in Seq(Status)
        /\ \A k \in DOMAIN timeline[i] : k \in DOMAIN longer /\ longer[k] = timeline[i][k]
        /\ Len(timeline[i]) + 1 \in DOMAIN longer /\ longer[Len(timeline[i]) + 1] = status
    BY <1>1, AppendKeeps
  <1>3. timeline'[i] = longer /\ DOMAIN timeline' = DOMAIN timeline
    BY <1>1
  <1>4. \A j \in DOMAIN timeline : j # i => timeline'[j] = timeline[j]
    BY <1>1
  <1> HIDE DEF longer
  <1>5. IsTable(timeline', Issue, Seq(Status))
    BY <1>2, <1>3, <1>4 DEF Inv, TypeOK, IsTable
  <1>6. ASSUME NEW j \in DOMAIN issues, NEW s, InTimeline(j, s)
        PROVE  InTimeline(j, s)'
    <2>1. j \in DOMAIN timeline
      BY DEF Inv, TypeOK
    <2>2. QED
      BY <1>2, <1>3, <1>4, <1>6, <2>1 DEF InTimeline
  <1>7. InTimeline(i, status)'
    BY <1>2, <1>3 DEF InTimeline
  <1>8. QED
    BY <1>3, <1>5, <1>6, <1>7

(* One entry is added to the audits of report i. *)
LEMMA AuditKeeps ==
  ASSUME Inv, NEW i \in DOMAIN issues, NEW audit \in Audit,
         audits' = [audits EXCEPT ![i] = Append(@, audit)]
  PROVE  /\ IsTable(audits', Issue, Seq(Audit)) /\ DOMAIN audits' = DOMAIN audits
         /\ \A j \in DOMAIN issues : \A a : Audited(j, a) => Audited(j, a)'
         /\ Audited(i, audit.new)'
  <1>1. i \in DOMAIN audits /\ audits[i] \in Seq(Audit)
    BY DEF Inv, TypeOK, IsTable
  <1> DEFINE longer == Append(audits[i], audit)
  <1>2. /\ longer \in Seq(Audit)
        /\ \A k \in DOMAIN audits[i] : k \in DOMAIN longer /\ longer[k] = audits[i][k]
        /\ Len(audits[i]) + 1 \in DOMAIN longer /\ longer[Len(audits[i]) + 1] = audit
    BY <1>1, AppendKeeps
  <1>3. audits'[i] = longer /\ DOMAIN audits' = DOMAIN audits
    BY <1>1
  <1>4. \A j \in DOMAIN audits : j # i => audits'[j] = audits[j]
    BY <1>1
  <1> HIDE DEF longer
  <1>5. IsTable(audits', Issue, Seq(Audit))
    BY <1>2, <1>3, <1>4 DEF Inv, TypeOK, IsTable
  <1>6. ASSUME NEW j \in DOMAIN issues, NEW a, Audited(j, a)
        PROVE  Audited(j, a)'
    <2>1. j \in DOMAIN audits
      BY DEF Inv, TypeOK
    <2>2. QED
      BY <1>2, <1>3, <1>4, <1>6, <2>1 DEF Audited
  <1>7. Audited(i, audit.new)'
    BY <1>2, <1>3 DEF Audited
  <1>8. QED
    BY <1>3, <1>5, <1>6, <1>7

(***************************************************************************)
(* SaveIssue: the new values are told by this update if they differ from   *)
(* those it read, and were told already if they do not.                    *)
(***************************************************************************)
LEMMA SaveIssueInv ==
  ASSUME Inv, NEW r \in Request, SaveIssue(r)
  PROVE  Inv'
  <1> DEFINE i   == requests[r].issue
             old == requests[r].old
             new == requests[r].new
             row == [requests[r] EXCEPT !.at = "audit"]
  <1>1. /\ r \in DOMAIN requests /\ requests[r].at = "save" /\ requests' = Put(requests, r, row)
        /\ issues' = [issues EXCEPT ![i].work = new]
        /\ UNCHANGED <<timeline, audits, notes, tasks, unrecorded>>
    BY DEF SaveIssue, At, GoOn
  <1>2. /\ row \in RequestRow /\ row.at = "audit" /\ row.issue = i /\ row.old = old
        /\ row.new = new /\ row.message = requests[r].message
    BY <1>1, UpdateRow
  <1>3. /\ r \in Request /\ new \in Work /\ old \in Work
        /\ i \in DOMAIN issues /\ StatusTold(i, old.status)
        /\ AssignmentTold(i, old.assignment)
    BY <1>1, RequestTypes DEF UpdateRequest, SoundRequest, At
  <1> HIDE DEF row, i, old, new
  <1>4. /\ requests'[r] = row /\ r \in DOMAIN requests'
        /\ IsTable(requests', Request, RequestRow)
        /\ \A q \in DOMAIN requests : q # r => q \in DOMAIN requests' /\ requests'[q] = requests[q]
        /\ \A q \in DOMAIN requests' : q = r \/ (q \in DOMAIN requests /\ requests'[q] = requests[q])
    BY <1>1, <1>2, PutRequest
  <1>5. /\ DOMAIN issues' = DOMAIN issues /\ issues'[i].work = new
        /\ \A j \in DOMAIN issues : /\ issues'[j].reference = issues[j].reference
                                    /\ issues'[j].email = issues[j].email
                                    /\ j # i => issues'[j].work = issues[j].work
        /\ IsTable(issues', Issue, IssueRow)
    BY <1>1, <1>3 DEF Inv, TypeOK, IsTable, IssueRow
  <1>6. TypeOK'
    BY <1>1, <1>4, <1>5 DEF Inv, TypeOK, RequestRow
  <1>7. Lasts
    <2>1. ASSUME NEW j \in DOMAIN issues, NEW s
          PROVE  InTimeline(j, s) => InTimeline(j, s)'
      BY <1>1 DEF InTimeline
    <2>2. ASSUME NEW j \in DOMAIN issues, NEW a
          PROVE  Audited(j, a) => Audited(j, a)'
      BY <1>1 DEF Audited
    <2>3. ASSUME NEW j \in DOMAIN issues, NEW s, StatusTold(j, s)
          PROVE  StatusTold(j, s)'
      BY <1>1, <1>4, <2>1, <2>3, StatusLasts DEF Recording
    <2>4. ASSUME NEW j \in DOMAIN issues, NEW a, AssignmentTold(j, a)
          PROVE  AssignmentTold(j, a)'
      BY <1>1, <1>4, <2>2, <2>4, AssignmentLasts DEF At
    <2>5. QED
      BY <1>5, <2>1, <2>3, <2>4 DEF Lasts
  <1>8. SoundRequest(r)'
    BY <1>2, <1>3, <1>4, <1>5 DEF SoundRequest, At
  <1>9. ASSUME NEW j \in DOMAIN issues, j = i, NEW n, n = new
        PROVE  SoundIssue(j)'
    <2>1. StatusTold(j, n.status)'
      <3>1. CASE n.status = old.status
        BY <1>3, <1>7, <1>9, <3>1 DEF Lasts
      <3>2. CASE n.status # old.status
        <4>1. Recording(r, j)' /\ Restated(r)' /\ requests'[r].new.status = n.status
          BY <1>2, <1>4, <1>9, <3>2 DEF Recording, Restated
        <4>2. QED
          BY <1>4, <4>1 DEF StatusTold
      <3>3. QED
        BY <3>1, <3>2
    <2>2. AssignmentTold(j, n.assignment)'
      <3>1. CASE n.assignment = old.assignment
        BY <1>3, <1>7, <1>9, <3>1 DEF Lasts
      <3>2. CASE n.assignment # old.assignment
        <4>1. At(r, "audit")' /\ Reassigned(r)' /\ requests'[r].new.assignment = n.assignment
              /\ requests'[r].issue = j
          BY <1>2, <1>4, <1>9, <3>2 DEF At, Reassigned
        <4>2. QED
          BY <1>4, <4>1 DEF AssignmentTold
      <3>3. QED
        BY <3>1, <3>2
    <2>3. issues'[j].work = n
      BY <1>5, <1>9
    <2>4. QED
      BY <2>1, <2>2, <2>3 DEF SoundIssue
  <1>10. ReferencesUnique'
    BY <1>5 DEF Inv, ReferencesUnique
  <1>11. QED
    BY <1>1, <1>4, <1>5, <1>6, <1>7, <1>8, <1>9, <1>10, StepInv

(* A step of an update that writes no report and ends nothing: it told     *)
(* what it no longer will.                                                 *)
LEMMA RecordInv ==
  ASSUME Inv, NEW r \in DOMAIN requests, requests[r].at \in {"audit", "event"},
         NEW step \in {"note", "mail"},
         requests' = GoOn(r, step),
         UNCHANGED <<issues, notes, tasks, unrecorded>>,
         IsTable(timeline', Issue, Seq(Status)), DOMAIN timeline' = DOMAIN timeline,
         IsTable(audits', Issue, Seq(Audit)), DOMAIN audits' = DOMAIN audits,
         \A i \in DOMAIN issues : \A s : InTimeline(i, s) => InTimeline(i, s)',
         \A i \in DOMAIN issues : \A a : Audited(i, a) => Audited(i, a)',
         requests[r].at = "audit" /\ Reassigned(r) =>
            \A i, a : i = requests[r].issue /\ a = requests[r].new.assignment => Audited(i, a)',
         requests[r].at = "audit" => step = "note",
         requests[r].at = "event" /\ (requests[r].message \/ Restated(r)) =>
            \A i, s : i = requests[r].issue /\ s = requests[r].new.status => InTimeline(i, s)'
  PROVE  Inv'
  <1> DEFINE row == [requests[r] EXCEPT !.at = step]
  <1>1. requests' = Put(requests, r, row)
    BY DEF GoOn
  <1>2. /\ row \in RequestRow /\ row.at = step /\ row.issue = requests[r].issue
        /\ row.old = requests[r].old /\ row.new = requests[r].new
        /\ row.message = requests[r].message
    BY UpdateRow
  <1> HIDE DEF row
  <1>3. /\ requests'[r] = row /\ r \in DOMAIN requests' /\ r \in Request
        /\ IsTable(requests', Request, RequestRow)
        /\ \A q \in DOMAIN requests : q # r => q \in DOMAIN requests' /\ requests'[q] = requests[q]
        /\ \A q \in DOMAIN requests' : q = r \/ (q \in DOMAIN requests /\ requests'[q] = requests[q])
    BY <1>1, <1>2, RequestTypes, PutRequest
  <1>4. TypeOK'
    BY <1>3 DEF Inv, TypeOK, RequestRow
  <1>5. ASSUME NEW i \in DOMAIN issues, NEW s, StatusTold(i, s)
        PROVE  StatusTold(i, s)'
    <2>1. ASSUME Recording(r, i), requests[r].new.status = s, requests[r].message \/ Restated(r)
          PROVE  StatusTold(i, s)'
      <3>1. CASE requests[r].at = "event"
        <4>1. InTimeline(i, s)'
          BY <2>1, <3>1 DEF Recording
        <4>2. QED
          BY <4>1 DEF StatusTold
      <3>2. CASE requests[r].at = "audit"
        <4>1. Recording(r, i)' /\ requests'[r].new.status = s
          BY <1>2, <1>3, <2>1, <3>2 DEF Recording
        <4>2. requests'[r].message \/ Restated(r)'
          BY <1>2, <1>3, <2>1 DEF Restated
        <4>3. QED
          BY <1>3, <4>1, <4>2 DEF StatusTold
      <3>3. QED
        BY <3>1, <3>2
    <2>2. QED
      BY <1>3, <1>5, <2>1, StatusLasts
  <1>6. ASSUME NEW i \in DOMAIN issues, NEW a, AssignmentTold(i, a)
        PROVE  AssignmentTold(i, a)'
    <2>1. ASSUME At(r, "audit"), requests[r].issue = i,
                 requests[r].new.assignment = a, Reassigned(r)
          PROVE  AssignmentTold(i, a)'
      <3>1. Audited(i, a)'
        BY <2>1 DEF At
      <3>2. QED
        BY <3>1 DEF AssignmentTold
    <2>2. QED
      BY <1>3, <1>6, <2>1, AssignmentLasts
  <1>7. Lasts
    BY <1>5, <1>6 DEF Lasts
  <1>8. SoundRequest(r)'
    <2>1. requests'[r].issue \in DOMAIN issues'
      BY <1>2, <1>3, RequestTypes DEF SoundRequest
    <2>2. CASE requests[r].at = "audit"
      BY <1>2, <1>3, <2>1, <2>2 DEF SoundRequest, At
    <2>3. CASE requests[r].at = "event"
      <3>1. Restated(r)' => Restated(r)
        BY <1>2, <1>3 DEF Restated
      <3>2. ASSUME NEW i, NEW s, i = requests[r].issue, s = requests[r].new.status, Restated(r)
            PROVE  InTimeline(i, s)'
        BY <2>3, <3>2
      <3>3. Restated(r)' => InTimeline(requests[r].issue, requests[r].new.status)'
        BY <1>2, <1>3, <3>1, <3>2
      <3>4. QED
        BY <1>2, <1>3, <2>1, <3>3 DEF SoundRequest, At
    <2>4. QED
      BY <2>2, <2>3
  <1>9. ReferencesUnique'
    BY DEF Inv, ReferencesUnique
  <1>10. QED
    BY <1>3, <1>4, <1>7, <1>8, <1>9, StepInv

LEMMA RecordAuditInv ==
  ASSUME Inv, NEW r \in Request, RecordAudit(r)
  PROVE  Inv'
  <1> DEFINE audit == [previous |-> requests[r].old.assignment, new |-> requests[r].new.assignment]
  <1>1. /\ r \in DOMAIN requests /\ requests[r].at = "audit" /\ requests' = GoOn(r, "note")
        /\ UNCHANGED <<issues, timeline, notes, tasks, unrecorded>>
    BY DEF RecordAudit, At
  <1>2. requests[r] \in UpdateRequest /\ requests[r].issue \in DOMAIN issues
    BY <1>1, RequestTypes DEF SoundRequest
  <1>3. audit \in Audit /\ audit.new = requests[r].new.assignment
    BY <1>2 DEF UpdateRequest, Work, Audit
  <1>4. \A i \in DOMAIN issues : \A s : InTimeline(i, s) => InTimeline(i, s)'
    BY <1>1 DEF InTimeline
  <1>5. CASE Reassigned(r)
    <2>1. audits' = [audits EXCEPT ![requests[r].issue] = Append(@, audit)]
      BY <1>5 DEF RecordAudit
    <2> HIDE DEF audit
    <2>2. ASSUME NEW i, i = requests[r].issue, NEW new, new = audit
          PROVE  /\ IsTable(audits', Issue, Seq(Audit)) /\ DOMAIN audits' = DOMAIN audits
                 /\ \A j \in DOMAIN issues : \A a : Audited(j, a) => Audited(j, a)'
                 /\ Audited(i, new.new)'
      BY <1>2, <1>3, <2>1, <2>2, AuditKeeps
    <2>3. QED
      BY <1>1, <1>3, <1>4, <2>2, RecordInv DEF Inv, TypeOK
  <1>6. CASE ~Reassigned(r)
    <2>1. audits' = audits
      BY <1>6 DEF RecordAudit
    <2>2. \A j \in DOMAIN issues : \A a : Audited(j, a) => Audited(j, a)'
      BY <2>1 DEF Audited
    <2>3. QED
      BY <1>1, <1>4, <1>6, <2>1, <2>2, RecordInv DEF Inv, TypeOK
  <1>7. QED
    BY <1>5, <1>6

LEMMA RecordEventInv ==
  ASSUME Inv, NEW r \in Request, RecordEvent(r)
  PROVE  Inv'
  <1>1. /\ r \in DOMAIN requests /\ requests[r].at = "event" /\ requests' = GoOn(r, "mail")
        /\ UNCHANGED <<issues, audits, notes, tasks, unrecorded>>
    BY DEF RecordEvent, At
  <1>2. requests[r].issue \in DOMAIN issues /\ requests[r].new.status \in Status
    BY <1>1, RequestTypes DEF SoundRequest, UpdateRequest, Work
  <1>3. \A i \in DOMAIN issues : \A a : Audited(i, a) => Audited(i, a)'
    BY <1>1 DEF Audited
  <1>4. CASE requests[r].message \/ Restated(r)
    <2>1. timeline' = [timeline EXCEPT ![requests[r].issue] = Append(@, requests[r].new.status)]
      BY <1>4 DEF RecordEvent
    <2>2. ASSUME NEW i, i = requests[r].issue, NEW s, s = requests[r].new.status
          PROVE  /\ IsTable(timeline', Issue, Seq(Status)) /\ DOMAIN timeline' = DOMAIN timeline
                 /\ \A j \in DOMAIN issues : \A t : InTimeline(j, t) => InTimeline(j, t)'
                 /\ InTimeline(i, s)'
      BY <1>2, <2>1, <2>2, EventKeeps
    <2>3. QED
      BY <1>1, <1>3, <2>2, RecordInv DEF Inv, TypeOK
  <1>5. CASE ~(requests[r].message \/ Restated(r))
    <2>1. timeline' = timeline
      BY <1>5 DEF RecordEvent
    <2>2. \A j \in DOMAIN issues : \A t : InTimeline(j, t) => InTimeline(j, t)'
      BY <2>1 DEF InTimeline
    <2>3. QED
      BY <1>1, <1>3, <1>5, <2>1, <2>2, RecordInv DEF Inv, TypeOK
  <1>6. QED
    BY <1>4, <1>5

-----------------------------------------------------------------------------
(***************************************************************************)
(* StoreReport: the unique index refuses a reference that was taken after  *)
(* the look-up, so a stored report is a new one with a reference of its    *)
(* own; nothing of the other reports is touched.                           *)
(***************************************************************************)
LEMMA StoreReportInv ==
  ASSUME Inv, NEW r \in Request, NEW i \in Issue, StoreReport(r, i)
  PROVE  Inv'
  <1> DEFINE report == [reference |-> requests[r].reference, email |-> requests[r].email,
                        work |-> [status |-> Submitted, assignment |-> Unassigned]]
             row == IF requests[r].email THEN [at |-> "confirm", issue |-> i] ELSE Done
  <1>1. /\ r \in DOMAIN requests /\ requests[r].at = "store" /\ i \notin DOMAIN issues
        /\ UNCHANGED <<notes, tasks, unrecorded>>
    BY DEF StoreReport, At
  <1>2. \A j : ~Recording(r, j)
    BY <1>1 DEF Recording
  <1>3. CASE Taken(requests[r].reference)
    BY <1>1, <1>2, <1>3, EndInv DEF StoreReport, Inv, TypeOK
  <1>4. CASE ~Taken(requests[r].reference)
    <2>1. /\ issues' = Put(issues, i, report) /\ timeline' = Put(timeline, i, <<Submitted>>)
          /\ audits' = Put(audits, i, <<>>) /\ requests' = Put(requests, r, row)
      BY <1>4 DEF StoreReport
    <2>2. requests[r].reference \in Reference /\ requests[r].email \in BOOLEAN
      BY <1>1, RequestTypes DEF SubmitRequest
    <2>3. /\ report \in IssueRow /\ report.email = requests[r].email
          /\ report.reference = requests[r].reference
          /\ report.work = [status |-> Submitted, assignment |-> Unassigned]
      BY <2>2, DefaultsAssumption DEF IssueRow, Work
    <2>4. /\ row \in RequestRow /\ row.at \in {"confirm", "done"}
          /\ row.at = "confirm" => row.issue = i /\ report.email
      BY <2>2, DoneRow DEF RequestRow, ConfirmRequest
    <2> HIDE DEF report, row
    <2>5. /\ requests'[r] = row /\ r \in DOMAIN requests'
          /\ IsTable(requests', Request, RequestRow)
          /\ \A q \in DOMAIN requests : q # r => q \in DOMAIN requests' /\ requests'[q] = requests[q]
          /\ \A q \in DOMAIN requests' : q = r \/ (q \in DOMAIN requests /\ requests'[q] = requests[q])
      BY <2>1, <2>4, PutRequest
    <2>6. /\ DOMAIN issues' = DOMAIN issues \cup {i} /\ issues'[i] = report
          /\ \A j \in DOMAIN issues : issues'[j] = issues[j]
          /\ IsTable(issues', Issue, IssueRow)
      BY <1>1, <2>1, <2>3 DEF Put, Inv, TypeOK, IsTable
    <2>7. /\ DOMAIN timeline' = DOMAIN timeline \cup {i} /\ timeline'[i] = <<Submitted>>
          /\ \A j \in DOMAIN issues : timeline'[j] = timeline[j]
          /\ IsTable(timeline', Issue, Seq(Status))
      BY <1>1, <2>1, DefaultsAssumption DEF Put, Inv, TypeOK, IsTable
    <2>8. /\ DOMAIN audits' = DOMAIN audits \cup {i}
          /\ \A j \in DOMAIN issues : audits'[j] = audits[j]
          /\ IsTable(audits', Issue, Seq(Audit))
      BY <1>1, <2>1 DEF Put, Inv, TypeOK, IsTable
    <2>9. TypeOK'
      BY <1>1, <2>5, <2>6, <2>7, <2>8 DEF Inv, TypeOK, RequestRow
    <2>10. InTimeline(i, Submitted)'
      BY <2>7 DEF InTimeline
    <2>11. Lasts
      <3>1. ASSUME NEW j \in DOMAIN issues, NEW s
            PROVE  InTimeline(j, s) => InTimeline(j, s)'
        BY <2>7 DEF InTimeline
      <3>2. ASSUME NEW j \in DOMAIN issues, NEW a
            PROVE  Audited(j, a) => Audited(j, a)'
        BY <2>8 DEF Audited
      <3>3. ASSUME NEW j \in DOMAIN issues, NEW s, StatusTold(j, s)
            PROVE  StatusTold(j, s)'
        BY <1>1, <1>2, <2>5, <3>1, <3>3, StatusLasts
      <3>4. ASSUME NEW j \in DOMAIN issues, NEW a, AssignmentTold(j, a)
            PROVE  AssignmentTold(j, a)'
        BY <1>1, <2>5, <3>2, <3>4, AssignmentLasts DEF At
      <3>5. QED
        BY <2>6, <3>1, <3>3, <3>4 DEF Lasts
    <2>12. SoundRequest(r)'
      BY <2>4, <2>5, <2>6, <2>10 DEF SoundRequest, At
    <2>13. SoundIssue(i)'
      <3>1. StatusTold(i, Submitted)' /\ AssignmentTold(i, Unassigned)'
        BY <2>10 DEF StatusTold, AssignmentTold
      <3>2. issues'[i].work.status = Submitted /\ issues'[i].work.assignment = Unassigned
        BY <2>3, <2>6
      <3>3. QED
        BY <3>1, <3>2 DEF SoundIssue
    <2>14. ReferencesUnique'
      <3>1. \A j \in DOMAIN issues : issues[j].reference # report.reference
        BY <1>4, <2>3 DEF Taken
      <3>2. QED
        BY <2>6, <3>1 DEF Inv, ReferencesUnique
    <2>15. QED
      BY <1>1, <2>5, <2>6, <2>9, <2>11, <2>12, <2>13, <2>14, StepInv
  <1>5. QED
    BY <1>3, <1>4

-----------------------------------------------------------------------------
LEMMA InitInv == Init => Inv
  BY DEF Init, Inv, TypeOK, IsTable, Empty, ReferencesUnique

LEMMA NextInv == Inv /\ [Next]_vars => Inv'
  <1>1. Inv /\ Next => Inv'
    BY CheckReferenceInv, StoreReportInv, ReadIssueInv, ConfirmInv, SaveIssueInv, RecordAuditInv,
       RecordNoteInv, RecordEventInv, QueueUpdateInv, AbortInv
       DEF Next
  <1>2. Inv /\ UNCHANGED vars => Inv'
    <2> SUFFICES ASSUME Inv, UNCHANGED vars
                 PROVE  Inv'
      OBVIOUS
    <2>1. TypeOK' /\ ReferencesUnique'
      BY DEF vars, Inv, TypeOK, ReferencesUnique
    <2>2. \A i, t : StatusTold(i, t)' <=> StatusTold(i, t)
      BY DEF vars, StatusTold, InTimeline, Recording, Restated
    <2>3. \A i, a : AssignmentTold(i, a)' <=> AssignmentTold(i, a)
      BY DEF vars, AssignmentTold, Audited, At, Reassigned
    <2>4. \A i, t : InTimeline(i, t)' <=> InTimeline(i, t)
      BY DEF vars, InTimeline
    <2>5. \A r \in DOMAIN requests' : SoundRequest(r)'
      BY <2>2, <2>3, <2>4 DEF vars, Inv, SoundRequest, At, Restated
    <2>6. \A i \in DOMAIN issues' : SoundIssue(i)'
      BY <2>2, <2>3 DEF vars, Inv, SoundIssue
    <2>7. \A r \in DOMAIN tasks' : SoundMail(r)'
      BY <2>4 DEF vars, Inv, SoundMail
    <2>8. QED
      BY <2>1, <2>5, <2>6, <2>7 DEF Inv
  <1>3. QED
    BY <1>1, <1>2

LEMMA InvHolds == Spec => []Inv
  BY InitInv, NextInv, PTL DEF Spec

(* Every reachable state is well typed. *)
THEOREM TypeCorrect == Spec => []TypeOK
  <1>1. Inv => TypeOK
    BY DEF Inv
  <1>2. QED
    BY <1>1, InvHolds, PTL

(***************************************************************************)
(* submit_issue: a reference names one report, for any number of requests  *)
(* that looked the same reference up before any of them stored it.         *)
(***************************************************************************)
THEOREM OneReport == Spec => []ReferencesUnique
  <1>1. Inv => ReferencesUnique
    BY DEF Inv
  <1>2. QED
    BY <1>1, InvHolds, PTL

(***************************************************************************)
(* IssueOperationsDetailView.post: the status of a report is in the public *)
(* timeline, or an update is about to add it, or an update died, for any   *)
(* number of updates that overlap and read each other's values.            *)
(***************************************************************************)
THEOREM StatusIsTold == Spec => []StatusInTimeline
  <1>1. Inv => StatusInTimeline
    BY DEF Inv, TypeOK, IsTable, SoundIssue, StatusTold, StatusInTimeline
  <1>2. QED
    BY <1>1, InvHolds, PTL

(***************************************************************************)
(* Likewise for the staff member and department of a report and the audits *)
(* of its assignments.                                                     *)
(***************************************************************************)
THEOREM AssignmentIsAudited == Spec => []AssignmentAudited
  <1>1. Inv => AssignmentAudited
    BY DEF Inv, TypeOK, IsTable, SoundIssue, AssignmentTold, Audited, AssignmentAudited,
           Recording, At
  <1>2. QED
    BY <1>1, InvHolds, PTL

(***************************************************************************)
(* A mail names a status that the public timeline holds, and goes to a     *)
(* reporter who asked for mail.                                            *)
(***************************************************************************)
THEOREM MailsAreTold == Spec => []MailsToldByTimeline
  <1>1. Inv => MailsToldByTimeline
    BY DEF Inv, SoundMail, MailsToldByTimeline
  <1>2. QED
    BY <1>1, InvHolds, PTL
=============================================================================
