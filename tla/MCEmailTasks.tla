----------------------------- MODULE MCEmailTasks ---------------------------
(* EmailTasks for TLC: two updates on their way to one reporter.           *)
EXTENDS EmailTasks
=============================================================================
