--------------------------- MODULE IpcRefinement ---------------------------
(***************************************************************************)
(* The linked lists, flags and message buffers of Ipc seen as the queues,  *)
(* waits and inboxes of Rendezvous.                                        *)
(***************************************************************************)
EXTENDS Ipc, Sequences

NOBODY == NO_TASK

\* The messages of the first n senders of the list that starts at p.
ListFrom[n \in 0 .. NProc] ==
    [p \in Procs \cup {NULL} |->
        IF n = 0 \/ p = NULL THEN <<>> ELSE <<buf[p]>> \o ListFrom[n - 1][next_sending[p]]]

Queue == [d \in Procs |-> ListFrom[NProc][first_sending[d]]]

\* p_recvfrom holds proc2pid(0) where the receiver said INTERRUPT.
Waits == [p \in Procs |->
            CASE ~Receiving(p)                        -> NOBODY
              [] Receiving(p) /\ p_recvfrom[p] = NilPid -> INTERRUPT
              [] OTHER                                -> p_recvfrom[p]]

\* A message in p's buffer is p's to read when somebody else wrote it and p is
\* not blocked.
Inbox == [p \in Procs |-> IF p_flags[p] # {} \/ buf[p].source = p
                          THEN [source |-> NOBODY, type |-> HARD_INT]
                          ELSE buf[p]]

\* Who is still writing to the driver that an interrupt has woken meanwhile.
Late == IF pc \in {"address", "copy"} /\ peer = HD /\ ~Receiving(HD)
        THEN caller ELSE NOBODY

Abstract == INSTANCE Rendezvous WITH
    queue <- Queue, waits <- Waits, inbox <- Inbox,
    pending <- [p \in Procs |-> has_int_msg[p] = 1],
    cpu <- p_proc_ready, refused <- fault = "deadlock",
    late <- Late, Unasked <- Spurious

\* Every step of the kernel is a step of the abstract rendezvous, or none.
ImplementsRendezvous == Abstract!Spec
=============================================================================
