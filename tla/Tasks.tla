------------------------------- MODULE Tasks -------------------------------
(***************************************************************************)
(* The programs of the image on top of the message passing of Ipc:         *)
(*   task_sys answers GET_TICKS (kernel/systask.c);                        *)
(*   task_hd serves DEV_OPEN: it asks for the ticks while it waits for the *)
(*   disk, issues a command and waits for IRQ 14, twice on the first open  *)
(*   (kernel/systask.c, kernel/hd.c);                                      *)
(*   TestA opens the disk, then it and TestB ask for the ticks for ever    *)
(*   (kernel/main.c, kernel/usercall.c, kernel/8253.c).                    *)
(* at[p] is the next thing p does at user level; what a call returned is   *)
(* in buf[p] when p runs again.  task_tty and TestC are in Busy.           *)
(***************************************************************************)
EXTENDS Ipc

CONSTANTS
    SYS,                    \* TASK_SYS
    Clients,                \* the user processes that call the tasks
    TestA,                  \* the one of them that opens the disk
    GET_TICKS, DEV_OPEN     \* message types

ASSUME TasksAssumption ==
    /\ {SYS, HD} \cup Clients \subseteq Procs \ (Busy \cup {0}) /\ TestA \in Clients
    /\ SYS # HD /\ SYS \notin Clients /\ HD \notin Clients
    /\ GET_TICKS \in Types /\ DEV_OPEN \in Types /\ GET_TICKS # DEV_OPEN
    /\ Clients \X {SYS} \subseteq Sends /\ {SYS} \X (Clients \cup {HD}) \subseteq Sends
    /\ {<<TestA, HD>>, <<HD, SYS>>} \subseteq Sends
    /\ (Clients \cup {HD}) \X {SYS} \subseteq Receives
    /\ {<<SYS, ANY>>, <<HD, ANY>>, <<HD, INTERRUPT>>} \subseteq Receives

VARIABLES at,       \* the program point of each process
          open_cnt  \* 0 before the first open is over, then 1
allVars == <<vars, at, open_cnt>>

TasksInit ==
    /\ Init
    /\ at = [p \in Procs |-> CASE p \in {SYS, HD}         -> "receive"
                               [] p = TestA              -> "open"
                               [] p \in Clients \ {TestA} -> "ask"
                               [] OTHER                  -> "busy"]
    /\ open_cnt = 0

Goto(p, here, there) == /\ p_proc_ready = p /\ at[p] = here
                        /\ at' = [at EXCEPT ![p] = there]

\* A call of panic() where p is.
Panic(p, here) == Goto(p, here, here) /\ TaskPanic /\ UNCHANGED open_cnt

-----------------------------------------------------------------------------
\* get_ticks: the request ...  A bug: the caller does not stay for the answer.
AskAndGoOn(p, here, there) ==
    SysSend(SYS, GET_TICKS) /\ Goto(p, here, here) /\ UNCHANGED open_cnt
Ask(p, here, there) ==
    SysSend(SYS, GET_TICKS) /\ Goto(p, here, there) /\ UNCHANGED open_cnt

\* ... and the answer.
Answer(p, here, there) == SysReceive(SYS) /\ Goto(p, here, there) /\ UNCHANGED open_cnt

\* milli_dalay calls it again and again.
ClientStep(p) == Ask(p, "ask", "answer") \/ Answer(p, "answer", "ask")

\* TestA starts with dev_open(0).
OpenStep == SysSend(HD, DEV_OPEN) /\ Goto(TestA, "open", "ask") /\ UNCHANGED open_cnt

-----------------------------------------------------------------------------
\* task_sys replies to whoever asked.  A bug: no reply (as in task_hd).
NoReply == Goto(SYS, "serve", "receive") /\ pc = "user" /\ UNCHANGED <<vars, open_cnt>>
Reply   == /\ buf[SYS].type = GET_TICKS
           /\ SysSend(buf[SYS].source, GET_TICKS)
           /\ Goto(SYS, "serve", "receive") /\ UNCHANGED open_cnt

SysStep ==
    \/ SysReceive(ANY) /\ Goto(SYS, "receive", "serve") /\ UNCHANGED open_cnt
    \/ Reply
    \/ buf[SYS].type # GET_TICKS /\ Panic(SYS, "serve")

-----------------------------------------------------------------------------
\* The user-level steps of the disk driver.
HdSkip(here, there) == Goto(HD, here, there) /\ pc = "user" /\ UNCHANGED <<vars, open_cnt>>

\* task_hd's loop and switch.
HdReceive == SysReceive(ANY) /\ Goto(HD, "receive", "serve") /\ UNCHANGED open_cnt
HdServe   == \/ buf[HD].type = DEV_OPEN /\ HdSkip("serve", "start")
             \/ buf[HD].type # DEV_OPEN /\ Panic(HD, "serve")

\* waitfor: the ticks it starts at, then the ticks and the status in turn until
\* the disk is ready or the time is over.
HdWaitfor == \/ Ask(HD, "start", "started") \/ Answer(HD, "started", "ask")
             \/ Ask(HD, "ask", "answer")    \/ Answer(HD, "answer", "poll")
             \/ HdSkip("poll", "ask")
             \/ HdSkip("poll", "command")
             \/ Panic(HD, "poll")

HdCommand == HdCmdOut /\ Goto(HD, "command", "wait") /\ UNCHANGED open_cnt
HdWait    == SysReceive(INTERRUPT) /\ Goto(HD, "wait", "done") /\ UNCHANGED open_cnt

\* hd_identify is over; the first open goes on to read the partition table.
\* (open_cnt only tells the first from the others.)
FirstOpen   == \/ open_cnt = 0 /\ open_cnt' = 1 /\ at' = [at EXCEPT ![HD] = "start"]
               \/ open_cnt = 1 /\ at' = [at EXCEPT ![HD] = "receive"] /\ UNCHANGED open_cnt
HdDone == /\ pc = "user" /\ p_proc_ready = HD /\ at[HD] = "done"
          /\ FirstOpen
          /\ UNCHANGED vars

HdStep == HdReceive \/ HdServe \/ HdWaitfor \/ HdCommand \/ HdWait \/ HdDone

-----------------------------------------------------------------------------
\* What process p does at user level.
Step(p) == \/ p \in Clients /\ ClientStep(p)
           \/ p = TestA /\ OpenStep
           \/ p = SYS /\ SysStep
           \/ p = HD /\ HdStep

SwitchTo(p) == Preempt /\ p_proc_ready' = p /\ UNCHANGED <<at, open_cnt>>

TasksNext ==
    \/ \E p \in Procs : Step(p) \/ SwitchTo(p)
    \/ (Kernel \/ HdInterrupt \/ Halted) /\ UNCHANGED <<at, open_cnt>>

TasksSpec == TasksInit /\ [][TasksNext]_allVars

\* The kernel and the disk go on; the scheduler lets every ready process run
\* (Sched!NoStarvation), and long enough to take its next step.
TasksFairSpec ==
    /\ TasksSpec
    /\ WF_allVars(Kernel /\ UNCHANGED <<at, open_cnt>>)
    /\ WF_allVars(HdInterrupt /\ UNCHANGED <<at, open_cnt>>)
    /\ \A p \in Clients \cup {SYS, HD} : SF_allVars(SwitchTo(p)) /\ SF_allVars(Step(p))

-----------------------------------------------------------------------------
(* Properties                                                              *)

\* With these programs neither deadlock()'s panic, nor the panics of task_sys
\* and task_hd for an unknown message can happen (systask.c 23, 42): only the
\* disk (it does not get ready in time, or interrupts too early) can stop it.
OnlyDiskStops == \/ fault \in {"none", "intmsg"}
                 \/ fault = "panic" /\ p_proc_ready = HD /\ at[HD] = "poll"

\* task_sys never owes an answer to a process that does not wait for one: it
\* would block in its reply, and every other caller with it (systask.c 19-20).
OwesOne ==
    at[SYS] = "serve" /\ pc = "user" /\ p_proc_ready = SYS
        => LET src == buf[SYS].source
           IN  at[src] \in {"started", "answer"} \/ p_recvfrom[src] = SYS

\* Every call of dev_open() and of get_ticks() by a user process returns, also
\* while the disk driver sleeps: from before the SEND of the one, and from the
\* SEND of the other, the process gets back to user level behind the call, and it
\* goes on to its next one, unless the system was stopped.
Returned(p) == pc = "user" /\ p_proc_ready = p /\ at[p] = "ask"
CallsReturn ==
    \A p \in Clients :
        /\ at[p] \in {"open", "answer"} ~> Returned(p) \/ fault # "none"
        /\ Returned(p) ~> at[p] = "answer" \/ fault # "none"
=============================================================================
