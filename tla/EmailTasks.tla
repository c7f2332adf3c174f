----------------------------- MODULE EmailTasks -----------------------------
(***************************************************************************)
(* The two Celery tasks of apps/issues/tasks.py, queued by IssueWorkflow.  *)
(* Celery acknowledges a task before it runs, so a worker that dies loses  *)
(* it.  Any exception is retried with a delay, max_retries times, and the  *)
(* mail server may have taken the mail before the exception was raised.    *)
(* While a task waits for its retry, a later one may overtake it.          *)
(***************************************************************************)
EXTENDS Naturals, Tables

CONSTANTS Task,        \* the updates mailed to one reporter, in any order
          MaxRetries   \* max_retries

ASSUME RetriesAssumption == MaxRetries \in Nat

VARIABLES tasks     \* table Task -> TaskRow

TaskRow == [state : {"queued", "running", "sent", "failed", "lost"},
            attempts : Nat,     \* times the task was started
            copies : Nat]       \* mails the server took

Init == tasks = Empty

Is(t, state) == t \in DOMAIN tasks /\ tasks[t].state = state

Queue(t) ==
  /\ t \notin DOMAIN tasks
  /\ tasks' = Put(tasks, t, [state |-> "queued", attempts |-> 0, copies |-> 0])

Start(t) ==
  /\ Is(t, "queued")
  /\ tasks' = Put(tasks, t, [tasks[t] EXCEPT !.state = "running", !.attempts = @ + 1])

(* A worker ends its attempt; copies is 1 if the server took the mail. *)
End(t, copies, state) ==
  /\ Is(t, "running")
  /\ tasks' = Put(tasks, t, [tasks[t] EXCEPT !.state = state, !.copies = @ + copies])

Deliver(t) == End(t, 1, "sent")

OneRetryMore(t) == tasks[t].attempts <= MaxRetries + 1

MayRetry(t) == tasks[t].attempts <= MaxRetries

QueueAfresh(t) ==
  /\ Is(t, "running")
  /\ tasks' = Put(tasks, t, [state |-> "queued", attempts |-> 0, copies |-> 0])

FailAsRetry(t) ==
  \E copies \in {0, 1} : End(t, copies, IF MayRetry(t) THEN "retry" ELSE "failed")

Fail(t) ==
  \E copies \in {0, 1} : End(t, copies, IF MayRetry(t) THEN "queued" ELSE "failed")

Lose(t) == \E copies \in {0, 1} : End(t, copies, "lost")

Run(t) == Start(t) \/ Deliver(t) \/ Fail(t) \/ Lose(t)

Next == \E t \in Task : Queue(t) \/ Run(t)

Spec == Init /\ [][Next]_tasks

(* The workers keep taking queued tasks, and an attempt ends one way or    *)
(* another: send_mail raises on a socket timeout.                          *)
FairSpec == Spec /\ \A t \in Task : WF_tasks(Run(t))

-----------------------------------------------------------------------------
TypeOK == IsTable(tasks, Task, TaskRow)

(* Whatever fails, the reporter gets an update at most MaxRetries + 1      *)
(* times.  A task that succeeds had a mail taken by the server; one that   *)
(* fails for good made all its attempts first (and some of their mails may *)
(* have been taken before the exception).                                  *)
CopiesBounded ==
  \A t \in DOMAIN tasks :
     /\ tasks[t].attempts <= MaxRetries + 1
     /\ tasks[t].copies <= tasks[t].attempts
     /\ tasks[t].state = "sent" => tasks[t].copies > 0
     /\ tasks[t].state = "failed" => tasks[t].attempts = MaxRetries + 1

(* Every queued mail is in the end sent, given up or lost with its worker. *)
TasksSettle ==
  \A t \in Task :
     t \in DOMAIN tasks ~> \E state \in {"sent", "failed", "lost"} : Is(t, state)
=============================================================================
