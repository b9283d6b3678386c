------------------------------- MODULE Sched -------------------------------
(***************************************************************************)
(* The scheduler of the TtaoOS kernel (kernel/clock.c).                    *)
(*                                                                         *)
(* proc_schedule gives the CPU to the ready process with the most ticks    *)
(* left, and hands out new ticks when no ready process has any.  It runs   *)
(* in the clock interrupt, where IRQ 14 may nest and make the disk driver  *)
(* ready, and at the end of a system call that blocks, where the clock     *)
(* may nest too and take a tick from whoever p_proc_ready points to at     *)
(* that moment.  So its two loops are modelled visit by visit.             *)
(*                                                                         *)
(* Why a process blocks or is woken is module Ipc's; here any process that *)
(* calls the kernel may block, and may make a blocked one ready.           *)
(***************************************************************************)
EXTENDS Integers

CONSTANTS
    NProc,      \* NR_ALL_TASKS_PROC
    TTY, HD,    \* TASK_TTY, TASK_HD
    Busy,       \* processes that never block (task_tty, TestC)
    Priority,   \* the ticks of a new share
    NrConsole,  \* NR_CONSOLE
    MinTicks    \* bound: nested clock interrupts take no ticks below this

Procs    == 0 .. NProc - 1
Consoles == 0 .. NrConsole - 1

ASSUME ProcAssumption == NProc \in Nat /\ HD \in Procs \ Busy
ASSUME BusyAssumption == Busy \subseteq Procs /\ TTY \in Busy
ASSUME NumbersAssumption == /\ Priority \in Nat \ {0} /\ NrConsole \in Nat \ {0}
                            /\ MinTicks \in Int /\ MinTicks <= 0

VARIABLES
    blocked,            \* the processes with p_flags # 0
    ticks,              \* PROCESS.ticks
    p_proc_ready,
    nr_tty, nr_current_console,
    pc,                 \* "user", or the loop of proc_schedule being executed
    by,                 \* who runs it: "clock", "call", or "none"
    p, greatest_ticks   \* its locals
vars == <<blocked, ticks, p_proc_ready, nr_tty, nr_current_console, pc, by, p,
          greatest_ticks>>

Init ==
    /\ blocked = {}
    /\ ticks = [q \in Procs |-> Priority]
    /\ p_proc_ready = 0
    /\ nr_tty = [q \in Procs |-> 0] /\ nr_current_console = 0
    /\ pc = "user" /\ by = "none" /\ p = 0 /\ greatest_ticks = 0

\* Entering proc_schedule.
Schedule(who) == pc' = "scan" /\ by' = who /\ p' = 0 /\ greatest_ticks' = 0

-----------------------------------------------------------------------------
\* clock_handler at user level: k_reenter is 0.
ClockUser ==
    /\ pc = "user"
    /\ ticks' = [ticks EXCEPT ![p_proc_ready] = @ - 1]
    /\ \/ /\ ticks'[p_proc_ready] > 0
          /\ UNCHANGED <<pc, by, p, greatest_ticks>>
       \/ /\ ticks'[p_proc_ready] <= 0
          /\ Schedule("clock")
    /\ UNCHANGED <<blocked, p_proc_ready, nr_tty, nr_current_console>>

\* clock_handler in a system call or another handler: it only counts.  Inside
\* the clock's own proc_schedule its line is masked.
ClockNested ==
    /\ by # "clock" /\ ticks[p_proc_ready] > MinTicks
    /\ ticks' = [ticks EXCEPT ![p_proc_ready] = @ - 1]
    /\ UNCHANGED <<blocked, p_proc_ready, nr_tty, nr_current_console, pc, by, p,
                   greatest_ticks>>

\* A system call that completes a rendezvous makes its partner ready ...
CallWakes(q) ==
    /\ pc = "user" /\ p_proc_ready \notin Busy /\ q \in blocked
    /\ blocked' = blocked \ {q}
    /\ UNCHANGED <<ticks, p_proc_ready, nr_tty, nr_current_console, pc, by, p,
                   greatest_ticks>>

\* ... and one that does not blocks the caller: block().
CallBlocks ==
    /\ pc = "user" /\ p_proc_ready \notin Busy
    /\ blocked' = blocked \cup {p_proc_ready}
    /\ Schedule("call")
    /\ UNCHANGED <<ticks, p_proc_ready, nr_tty, nr_current_console>>

\* inform_int(TASK_HD), at any moment.
HdInterrupt ==
    /\ HD \in blocked
    /\ blocked' = blocked \ {HD}
    /\ UNCHANGED <<ticks, p_proc_ready, nr_tty, nr_current_console, pc, by, p,
                   greatest_ticks>>

\* task_tty obeys Ctrl+Alt+F1 .. F3 (tty.c 63, 69, 75).
SelectConsole(c) ==
    /\ pc = "user" /\ p_proc_ready = TTY /\ c # nr_current_console
    /\ nr_current_console' = c
    /\ UNCHANGED <<blocked, ticks, p_proc_ready, nr_tty, pc, by, p, greatest_ticks>>

-----------------------------------------------------------------------------
(* proc_schedule                                                           *)

\* Lines 33-34.  A bug: p_flags is not looked at.
MostTicksEvenBlocked == ticks[p] > greatest_ticks
MostTicks            == p \notin blocked /\ ticks[p] > greatest_ticks

\* Lines 32-39, one process.
ScanVisit ==
    /\ pc = "scan" /\ p < NProc
    /\ IF MostTicks
       THEN greatest_ticks' = ticks[p] /\ p_proc_ready' = p
       ELSE UNCHANGED <<greatest_ticks, p_proc_ready>>
    /\ p' = p + 1
    /\ UNCHANGED <<blocked, ticks, nr_tty, nr_current_console, pc, by>>

\* Line 40: nobody ready has ticks left.
ScanNobody ==
    /\ pc = "scan" /\ p = NProc /\ greatest_ticks = 0
    /\ pc' = "refill" /\ p' = 0
    /\ UNCHANGED <<blocked, ticks, p_proc_ready, nr_tty, nr_current_console, by,
                   greatest_ticks>>

\* Lines 42-43.  Bugs: the blocked get a share too; only the process that ran
\* last gets one; nobody does.
RefillEvenBlocked == [ticks EXCEPT ![p] = Priority]
RefillLast        == IF p # p_proc_ready THEN ticks ELSE [ticks EXCEPT ![p] = Priority]
RefillNobody      == ticks
Refilled          == IF p \in blocked THEN ticks ELSE [ticks EXCEPT ![p] = Priority]

\* Lines 41-44, one process.
RefillVisit ==
    /\ pc = "refill" /\ p < NProc
    /\ ticks' = Refilled
    /\ p' = p + 1
    /\ UNCHANGED <<blocked, p_proc_ready, nr_tty, nr_current_console, pc, by,
                   greatest_ticks>>

RefillEnd ==
    /\ pc = "refill" /\ p = NProc
    /\ pc' = "scan" /\ p' = 0
    /\ UNCHANGED <<blocked, ticks, p_proc_ready, nr_tty, nr_current_console, by,
                   greatest_ticks>>

\* Line 47.  A bug: the console is not noted.
KeepTty   == nr_tty
FollowTty == [nr_tty EXCEPT ![p_proc_ready] = nr_current_console]

\* The loop ends; the kernel returns to p_proc_ready.
ScanDone ==
    /\ pc = "scan" /\ p = NProc /\ greatest_ticks # 0
    /\ nr_tty' = FollowTty
    /\ pc' = "user" /\ by' = "none" /\ p' = 0 /\ greatest_ticks' = 0
    /\ UNCHANGED <<blocked, ticks, p_proc_ready, nr_current_console>>

ProcSchedule == ScanVisit \/ ScanNobody \/ RefillVisit \/ RefillEnd \/ ScanDone

-----------------------------------------------------------------------------
Next ==
    \/ ClockUser \/ ClockNested
    \/ \E q \in Procs : CallWakes(q)
    \/ CallBlocks
    \/ HdInterrupt
    \/ \E c \in Consoles : SelectConsole(c)
    \/ ProcSchedule

Spec == Init /\ [][Next]_vars

\* The CPU goes on executing the kernel.  A call takes microseconds and the
\* clock ticks every 10 ms, so a process that keeps returning to user level is
\* found there by the clock again and again.
FairSpec == Spec /\ WF_vars(ProcSchedule) /\ SF_vars(ClockUser)

-----------------------------------------------------------------------------
(* Properties                                                              *)

\* The counters and locals stay in their ranges: no share is larger than
\* priority, whichever interrupt comes between the visits.
TypeOK ==
    /\ blocked \subseteq Procs \ Busy
    /\ ticks \in [Procs -> (MinTicks - 1) .. Priority]
    /\ p_proc_ready \in Procs
    /\ nr_tty \in [Procs -> Consoles] /\ nr_current_console \in Consoles
    /\ pc \in {"user", "scan", "refill"}
    /\ by \in {"none", "clock", "call"}
    /\ p \in 0 .. NProc /\ greatest_ticks \in 0 .. Priority

\* proc_schedule never ends with a blocked process on the CPU, although
\* p_proc_ready is assigned before the scan is over (clock.c 33-36).
ReadyRuns == pc = "user" => p_proc_ready \notin blocked

\* A process that runs writes to the console the user looks at (clock.c:47,
\* process.c:43): task_tty may have changed it since the process ran last.
OutputFollowsUser ==
    pc = "user" /\ p_proc_ready # TTY => nr_tty[p_proc_ready] = nr_current_console

\* Nobody gets a new share before the old one is used up (clock.c 40-44); only
\* the disk driver may, when its interrupt comes between the two loops.
NoEarlyRefill ==
    [][\A q \in Procs \ {HD} : ticks'[q] > ticks[q] => ticks[q] <= 0]_vars

\* while(!greatest_ticks) ends: somebody is always ready (clock.c 31).
ScheduleEnds == pc # "user" ~> pc = "user"

\* Every process that is ready runs at user level in the end, whoever else
\* blocks, wakes and is interrupted (clock.c 28-46).
NoStarvation ==
    \A q \in Procs : q \notin blocked ~> pc = "user" /\ p_proc_ready = q
=============================================================================
