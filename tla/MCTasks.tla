------------------------------ MODULE MCTasks ------------------------------
(***************************************************************************)
(* Tasks for TLC: task_tty is 0, task_sys 1, task_hd 2, TestA 3, TestB 4.  *)
(* TestC, like task_tty, never calls the kernel and adds nothing.          *)
(***************************************************************************)
EXTENDS Tasks

\* The calls the programs make.
TaskSends    == ((Clients \cup {2}) \X {1}) \cup ({1} \X (Clients \cup {2})) \cup {<<3, 2>>}
TaskReceives == ((Clients \cup {2}) \X {1}) \cup {<<1, ANY>>, <<2, ANY>>, <<2, INTERRUPT>>}
=============================================================================
