------------------------------- MODULE MCIpc -------------------------------
(***************************************************************************)
(* Ipc for TLC.  Process 0 sends nothing, 2 is the disk driver; the other  *)
(* numbers stand for TASK_SYS and the user processes.                      *)
(***************************************************************************)
EXTENDS IpcRefinement, IpcInductive

\* Every process may call any other and wait for anyone.
AnySends    == Procs \X Procs
AnyReceives == Procs \X (Procs \cup {ANY, INTERRUPT})

\* 1, 3 and 4 send to process 2, which receives from each by name and from
\* ANY: a queue of three is emptied from the head, the middle and the tail.
QueueSends    == {1, 3, 4} \X {2}
QueueReceives == {2} \X {1, 3, 4, ANY, INTERRUPT}
=============================================================================
