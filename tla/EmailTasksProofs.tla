-------------------------- MODULE EmailTasksProofs --------------------------
(***************************************************************************)
(* Theorems about EmailTasks for every set of tasks and every number of    *)
(* retries.                                                                *)
(***************************************************************************)
EXTENDS EmailTasks, TLAPS

(* A waiting task has an attempt left, a running one is within the limit.  *)
(* Each attempt, the running one excepted, may have got a mail through.    *)
RowSound(row) ==
  /\ row.attempts <= MaxRetries + 1
  /\ row.state = "queued" => row.attempts <= MaxRetries
  /\ row.copies <= row.attempts
  /\ row.state = "running" => row.copies < row.attempts
  /\ row.state = "sent" => row.copies > 0
  /\ row.state = "failed" => row.attempts = MaxRetries + 1

Inv == TypeOK /\ \A t \in DOMAIN tasks : RowSound(tasks[t])

-----------------------------------------------------------------------------
(* A step writes one row. *)
LEMMA PutInv ==
  ASSUME Inv, NEW t \in Task, NEW row \in TaskRow, RowSound(row), tasks' = Put(tasks, t, row)
  PROVE  Inv'
  <1>1. TypeOK'
    BY DEF Inv, TypeOK, IsTable, Put
  <1>2. \A u \in DOMAIN tasks' : RowSound(tasks'[u])
    BY DEF Inv, Put
  <1>3. QED
    BY <1>1, <1>2 DEF Inv, RowSound

LEMMA RowTypes ==
  ASSUME Inv, NEW t \in DOMAIN tasks
  PROVE  tasks[t] \in TaskRow /\ RowSound(tasks[t])
  BY DEF Inv, TypeOK, IsTable

LEMMA QueueInv ==
  ASSUME Inv, NEW t \in Task, Queue(t)
  PROVE  Inv'
  <1> DEFINE row == [state |-> "queued", attempts |-> 0, copies |-> 0]
  <1>1. row \in TaskRow /\ RowSound(row)
    BY RetriesAssumption DEF TaskRow, RowSound
  <1>2. tasks' = Put(tasks, t, row)
    BY DEF Queue
  <1> HIDE DEF row
  <1>3. QED
    BY <1>1, <1>2, PutInv

(* The attempt that is started is one that a waiting task has left. *)
LEMMA StartInv ==
  ASSUME Inv, NEW t \in Task, Start(t)
  PROVE  Inv'
  <1> DEFINE row == [tasks[t] EXCEPT !.state = "running", !.attempts = @ + 1]
  <1>1. t \in DOMAIN tasks /\ tasks[t].state = "queued" /\ tasks' = Put(tasks, t, row)
    BY DEF Start, Is
  <1>2. tasks[t] \in TaskRow /\ RowSound(tasks[t])
    BY <1>1, RowTypes
  <1>3. /\ row \in TaskRow
        /\ row.state = "running" /\ row.attempts = tasks[t].attempts + 1
        /\ row.copies = tasks[t].copies
    <2>1. tasks[t].attempts + 1 \in Nat
      BY <1>2 DEF TaskRow
    <2>2. row = [tasks[t] EXCEPT !.state = "running", !.attempts = tasks[t].attempts + 1]
      BY Zenon
    <2>3. QED
      BY <1>2, <2>1, <2>2 DEF TaskRow
  <1>4. RowSound(row)
    BY <1>1, <1>2, <1>3, RetriesAssumption DEF TaskRow, RowSound
  <1> HIDE DEF row
  <1>5. QED
    BY <1>1, <1>3, <1>4, PutInv

(* An attempt ends in a state that its count allows. *)
LEMMA EndInv ==
  ASSUME Inv, NEW t \in Task, NEW copies \in {0, 1},
         NEW state \in {"queued", "sent", "failed", "lost"}, End(t, copies, state),
         state = "queued" => tasks[t].attempts <= MaxRetries,
         state = "sent" => copies = 1,
         state = "failed" => tasks[t].attempts > MaxRetries
  PROVE  Inv'
  <1> DEFINE row == [tasks[t] EXCEPT !.state = state, !.copies = @ + copies]
  <1>1. t \in DOMAIN tasks /\ tasks[t].state = "running" /\ tasks' = Put(tasks, t, row)
    BY DEF End, Is
  <1>2. tasks[t] \in TaskRow /\ RowSound(tasks[t])
    BY <1>1, RowTypes
  <1>3. /\ row \in TaskRow
        /\ row.state = state /\ row.attempts = tasks[t].attempts
        /\ row.copies = tasks[t].copies + copies
    <2>1. tasks[t].copies + copies \in Nat
      BY <1>2 DEF TaskRow
    <2>2. row = [tasks[t] EXCEPT !.state = state, !.copies = tasks[t].copies + copies]
      BY Zenon
    <2>3. QED
      BY <1>2, <2>1, <2>2 DEF TaskRow
  <1>4. RowSound(row)
    BY <1>1, <1>2, <1>3, RetriesAssumption DEF TaskRow, RowSound
  <1> HIDE DEF row
  <1>5. QED
    BY <1>1, <1>3, <1>4, PutInv

LEMMA RunInv ==
  ASSUME Inv, NEW t \in Task, Run(t)
  PROVE  Inv'
  <1>1. CASE Start(t)
    BY <1>1, StartInv
  <1>2. CASE Deliver(t)
    BY <1>2, EndInv DEF Deliver
  <1>3. CASE Fail(t)
    <2>1. PICK copies \in {0, 1} : End(t, copies, IF MayRetry(t) THEN "queued" ELSE "failed")
      BY <1>3 DEF Fail
    <2>2. tasks[t].attempts \in Nat
      BY <2>1, RowTypes DEF End, Is, TaskRow
    <2>3. CASE MayRetry(t)
      BY <2>1, <2>3, EndInv DEF MayRetry
    <2>4. CASE ~MayRetry(t)
      BY <2>1, <2>2, <2>4, EndInv, RetriesAssumption DEF MayRetry
    <2>5. QED
      BY <2>3, <2>4
  <1>4. CASE Lose(t)
    BY <1>4, EndInv DEF Lose
  <1>5. QED
    BY <1>1, <1>2, <1>3, <1>4 DEF Run

LEMMA InvHolds == Spec => []Inv
  <1>1. Init => Inv
    BY DEF Init, Inv, TypeOK, IsTable, Empty
  <1>2. Inv /\ [Next]_tasks => Inv'
    <2>1. Inv /\ Next => Inv'
      BY QueueInv, RunInv DEF Next
    <2>2. Inv /\ UNCHANGED tasks => Inv'
      BY DEF Inv, TypeOK, RowSound
    <2>3. QED
      BY <2>1, <2>2
  <1>3. QED
    BY <1>1, <1>2, PTL DEF Spec

(* Every reachable state is well typed. *)
THEOREM TypeCorrect == Spec => []TypeOK
  <1>1. Inv => TypeOK
    BY DEF Inv
  <1>2. QED
    BY <1>1, InvHolds, PTL

(***************************************************************************)
(* send_issue_received_email and send_issue_status_email: whatever fails   *)
(* and is retried, the reporter gets no more copies than attempts, and     *)
(* there are no more of these than max_retries and one.                    *)
(***************************************************************************)
THEOREM CopiesLimited == Spec => []CopiesBounded
  <1>1. Inv => CopiesBounded
    BY DEF Inv, RowSound, CopiesBounded
  <1>2. QED
    BY <1>1, InvHolds, PTL
=============================================================================
