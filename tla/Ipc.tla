-------------------------------- MODULE Ipc --------------------------------
(***************************************************************************)
(* Rendezvous message passing of the TtaoOS kernel (kernel/process.c).     *)
(*                                                                         *)
(* A process enters the kernel with sendrec(SEND | RECEIVE, peer, &msg).   *)
(* sys_call executes sti, so the C code of the call runs with interrupts   *)
(* on: the clock only counts (k_reenter # 0) but the disk interrupt runs   *)
(* inform_int() between any two steps of it.  The model keeps the process  *)
(* table field by field, the queue of blocked senders as the linked list   *)
(* it is, and splits msg_send and msg_receive exactly where an interrupt   *)
(* can tell the difference.  Every assert() on the way is a transition     *)
(* that stops the system and records its name in fault.                    *)
(*                                                                         *)
(* Not here: how proc_schedule picks among the runnable processes (module  *)
(* Sched), addresses and segments (p_msg keeps only "is it 0").            *)
(***************************************************************************)
EXTENDS Integers, FiniteSets

CONSTANTS
    NProc,      \* NR_ALL_TASKS_PROC
    Busy,       \* processes that never call sendrec (task_tty, TestC)
    HD,         \* TASK_HD, the process hd_handler informs
    NilPid,     \* the value of proc2pid(0), whatever the image's layout makes it
    NULL,       \* the null PROCESS pointer
    Types,      \* message types the processes send
    HARD_INT,   \* the type of an interrupt message
    Spurious,   \* may IRQ 14 arrive with no disk command outstanding?
    Sends,      \* the <<process, destination>> pairs the programs use
    Receives    \* the <<process, source>> pairs the programs use

Procs     == 0 .. NProc - 1
ANY       == NProc + 10
NO_TASK   == NProc + 20
INTERRUPT == -10
GARBLED   == -20    \* a source of which some bytes are INTERRUPT's

ASSUME ProcAssumption == NProc \in Nat /\ HD \in Procs /\ NULL \notin Procs
ASSUME BusyAssumption == Busy \subseteq Procs /\ Busy # {} /\ HD \notin Busy
ASSUME NilAssumption  == NilPid \notin Procs \cup {ANY, NO_TASK, INTERRUPT}
ASSUME TypeAssumption == HARD_INT \notin Types /\ Types # {}
ASSUME SpuriousAssumption == Spurious \in BOOLEAN
ASSUME PairAssumption ==
    /\ Sends \subseteq Procs \X Procs
    /\ Receives \subseteq Procs \X (Procs \cup {ANY, INTERRUPT})

VARIABLES
    p_flags,        \* set of the SENDING and RECEIVING bits
    p_msg,          \* 0, or 1 for the address of the process's message
    p_recvfrom, p_sendto,
    has_int_msg,
    first_sending, next_sending,
    p_proc_ready,   \* the process the CPU returns to
    buf,            \* the message each process passes to sendrec
    pc,             \* where the kernel is; "user" outside it
    caller, op, peer,   \* arguments of the system call being executed
    walk, prev,     \* the list pointers p and prev of its loops
    hd_busy,        \* a disk command was issued and IRQ 14 has not come yet
    must_wait,      \* the driver issued a command and owes interrupt_wait()
    fault           \* the assertion or panic that stopped the system

procVars == <<p_flags, p_msg, p_recvfrom, p_sendto, has_int_msg>>
listVars == <<first_sending, next_sending>>
callVars == <<caller, op, peer>>
vars == <<procVars, listVars, callVars, p_proc_ready, buf, pc, walk, prev,
          hd_busy, must_wait, fault>>

-----------------------------------------------------------------------------
Messages == [source : Procs \cup {INTERRUPT, GARBLED}, type : Types \cup {HARD_INT}]
IntMsg   == [source |-> INTERRUPT, type |-> HARD_INT]

Sending(p)   == "SENDING" \in p_flags[p]
Receiving(p) == "RECEIVING" \in p_flags[p]

Runnable == {p \in Procs : p_flags[p] = {}}

\* A process with these fields is out of any message operation.
Idle(p) == p_flags[p] = {} /\ p_msg[p] = 0 /\ p_sendto[p] = NO_TASK

Init ==
    /\ p_flags       = [p \in Procs |-> {}]
    /\ p_msg         = [p \in Procs |-> 0]
    /\ p_recvfrom    = [p \in Procs |-> NO_TASK]
    /\ p_sendto      = [p \in Procs |-> NO_TASK]
    /\ has_int_msg   = [p \in Procs |-> 0]
    /\ first_sending = [p \in Procs |-> NULL]
    /\ next_sending  = [p \in Procs |-> NULL]
    /\ p_proc_ready  = 0
    /\ buf = [p \in Procs |-> [source |-> p, type |-> HARD_INT]]
    /\ pc = "user" /\ caller = NULL /\ op = "none" /\ peer = NO_TASK
    /\ walk = NULL /\ prev = NULL
    /\ hd_busy = FALSE /\ must_wait = FALSE
    /\ fault = "none"

\* assert(), panic(): the step's remaining effects do not happen.
Fail(name) == /\ pc' = "halt" /\ fault' = name
              /\ UNCHANGED <<procVars, listVars, callVars, p_proc_ready, buf,
                             walk, prev, hd_busy, must_wait>>

\* The kernel returns to user level; the call's locals are gone.
Leave == /\ pc' = "user" /\ caller' = NULL /\ op' = "none" /\ peer' = NO_TASK
         /\ walk' = NULL /\ prev' = NULL

\* The call returns 0: a driver that waited for its interrupt has it.
Return ==
    /\ Leave
    /\ must_wait' = (must_wait /\ ~(op = "receive" /\ peer = INTERRUPT))
    /\ UNCHANGED <<hd_busy, fault>>

-----------------------------------------------------------------------------
(* User level: calls into the kernel, disk commands, the clock.            *)

\* After hd_cmd_out the driver's next call is interrupt_wait.
MayCall == /\ pc = "user" /\ p_proc_ready \notin Busy

\* sendrec(SEND, d, &msg), lines 123-137 and the entry of deadlock().
SysSend(d, t) ==
    /\ MayCall /\ <<p_proc_ready, d>> \in Sends /\ d # p_proc_ready
    /\ ~(p_proc_ready = HD /\ must_wait)
    /\ buf' = [buf EXCEPT ![p_proc_ready] = [source |-> p_proc_ready, type |-> t]]
    /\ caller' = p_proc_ready /\ op' = "send" /\ peer' = d
    /\ walk' = d /\ pc' = "deadlock"
    /\ UNCHANGED <<procVars, listVars, p_proc_ready, prev, hd_busy, must_wait, fault>>

\* sendrec(RECEIVE, s, &msg); only the disk driver receives from INTERRUPT,
\* and only after a command.
SysReceive(s) ==
    /\ MayCall /\ <<p_proc_ready, s>> \in Receives /\ s # p_proc_ready
    /\ s = INTERRUPT <=> (p_proc_ready = HD /\ must_wait)
    /\ buf' = [buf EXCEPT ![p_proc_ready].source = p_proc_ready]
    /\ caller' = p_proc_ready /\ op' = "receive" /\ peer' = s
    /\ prev' = NULL /\ pc' = "receive"
    /\ UNCHANGED <<procVars, listVars, p_proc_ready, walk, hd_busy, must_wait, fault>>

\* hd_cmd_out writes the command register; the disk will raise IRQ 14.
HdCmdOut ==
    /\ pc = "user" /\ p_proc_ready = HD /\ ~must_wait
    /\ hd_busy' = TRUE /\ must_wait' = TRUE
    /\ UNCHANGED <<procVars, listVars, callVars, p_proc_ready, buf, pc, walk, prev, fault>>

\* The clock interrupt at user level: proc_schedule chooses a runnable process.
Preempt ==
    /\ pc = "user"
    /\ p_proc_ready' \in Runnable
    /\ UNCHANGED <<procVars, listVars, callVars, buf, pc, walk, prev,
                   hd_busy, must_wait, fault>>

\* A task calls panic() itself (systask.c 23 and 42, hd.c 173).
TaskPanic == pc = "user" /\ p_proc_ready \notin Busy /\ Fail("panic")

-----------------------------------------------------------------------------
(* msg_send                                                                *)

\* deadlock(src, dest) stops at a process that is not sending.  Bugs: it looks
\* at dest only; it never looks.
WalkEndsAtFirst  == walk = peer /\ ~(Sending(walk) /\ p_sendto[walk] = caller)
WalkEndsAtOnce   == TRUE
WalkEnds         == ~Sending(walk)

\* A bug: the circle is not recognised.
ReachesNobody == FALSE
ReachesCaller == p_sendto[walk] = caller

\* One turn of the loop of deadlock(src, dest).
DeadlockStep ==
    /\ pc = "deadlock"
    /\ \/ /\ ~WalkEnds /\ ReachesCaller
          /\ Fail("deadlock")
       \/ /\ ~WalkEnds /\ ~ReachesCaller
          /\ walk' = p_sendto[walk]
          /\ UNCHANGED <<procVars, listVars, callVars, p_proc_ready, buf, pc,
                         prev, hd_busy, must_wait, fault>>
       \/ /\ WalkEnds
          /\ pc' = "match" /\ walk' = NULL
          /\ UNCHANGED <<procVars, listVars, callVars, p_proc_ready, buf, prev,
                         hd_busy, must_wait, fault>>

\* Line 159: is the destination waiting for this sender?
Matches(d, s) == Receiving(d) /\ p_recvfrom[d] \in {s, ANY}

SendMatch ==
    /\ pc = "match"
    /\ pc' = IF Matches(peer, caller) THEN "address" ELSE "enqueue"
    /\ UNCHANGED <<procVars, listVars, callVars, p_proc_ready, buf, walk, prev,
                   hd_busy, must_wait, fault>>

\* Line 162, the argument va2la(dest, p_dest->p_msg).  If an interrupt has
\* cleared p_msg by now, the bytes go to address 0 and to nobody's buffer.
SendAddress ==
    /\ pc = "address"
    /\ pc' = IF p_msg[peer] # 0 THEN "copy" ELSE "clear"
    /\ UNCHANGED <<procVars, listVars, callVars, p_proc_ready, buf, walk, prev,
                   hd_busy, must_wait, fault>>

\* memcpy (string.asm 129-139) copies byte by byte with interrupts on.  If the
\* interrupt message of inform_int came while it copied m, the bytes before that
\* moment are the interrupt's and those after it are m's.
Mixed(m) == {m, IntMsg} \cup [source : {GARBLED, INTERRUPT}, type : {m.type}]

\* Lines 162-164, from the reading of the address to the last byte.  A receiver
\* that does not wait any more was woken by an interrupt in that time.  A bug:
\* nothing is copied.
NotCopied == buf[peer]
Copied    == buf[caller]

SendCopy ==
    /\ pc = "copy"
    /\ \E m \in IF Receiving(peer) THEN {Copied} ELSE Mixed(Copied) :
          buf' = [buf EXCEPT ![peer] = m]
    /\ pc' = "clear"
    /\ UNCHANGED <<procVars, listVars, callVars, p_proc_ready, walk, prev,
                   hd_busy, must_wait, fault>>

SendClear ==
    /\ pc = "clear"
    /\ p_msg' = [p_msg EXCEPT ![peer] = 0]
    /\ pc' = "wake"
    /\ UNCHANGED <<p_flags, p_recvfrom, p_sendto, has_int_msg, listVars, callVars,
                   p_proc_ready, buf, walk, prev, hd_busy, must_wait, fault>>

\* Lines 166-177: the destination becomes runnable; eight assertions.
SendWake ==
    /\ pc = "wake"
    /\ IF /\ p_flags[peer] \subseteq {"RECEIVING"} /\ p_msg[peer] = 0
          /\ p_sendto[peer] = NO_TASK
          /\ Idle(caller) /\ p_recvfrom[caller] = NO_TASK
       THEN /\ p_flags' = [p_flags EXCEPT ![peer] = @ \ {"RECEIVING"}]
            /\ p_recvfrom' = [p_recvfrom EXCEPT ![peer] = NO_TASK]
            /\ Return
            /\ UNCHANGED <<p_msg, p_sendto, has_int_msg, listVars, p_proc_ready, buf>>
       ELSE Fail("wake")

\* Lines 179-194: the sender joins the destination's queue.  An empty queue
\* gets it as its head, otherwise the loop below looks for the tail.
SendEnqueue ==
    /\ pc = "enqueue"
    /\ IF p_flags[caller] = {}
       THEN /\ p_flags' = [p_flags EXCEPT ![caller] = {"SENDING"}]
            /\ p_sendto' = [p_sendto EXCEPT ![caller] = peer]
            /\ p_msg' = [p_msg EXCEPT ![caller] = 1]
            /\ IF first_sending[peer] = NULL
               THEN /\ first_sending' = [first_sending EXCEPT ![peer] = caller]
                    /\ next_sending' = [next_sending EXCEPT ![caller] = NULL]
                    /\ pc' = "block" /\ UNCHANGED walk
               ELSE /\ walk' = first_sending[peer] /\ pc' = "tail"
                    /\ UNCHANGED listVars
            /\ UNCHANGED <<p_recvfrom, has_int_msg, callVars, p_proc_ready, buf,
                           prev, hd_busy, must_wait, fault>>
       ELSE Fail("enqueue")

\* A bug: the head is taken for the tail.
TailAssumed == TRUE
TailFound   == next_sending[walk] = NULL

\* Lines 187-194: one turn of the loop, or the link at the tail.
SendTail ==
    /\ pc = "tail"
    /\ IF ~TailFound
       THEN /\ walk' = next_sending[walk]
            /\ UNCHANGED <<next_sending, pc>>
       ELSE /\ next_sending' = [next_sending EXCEPT ![walk] = caller, ![caller] = NULL]
            /\ pc' = "block" /\ walk' = NULL
    /\ UNCHANGED <<procVars, first_sending, callVars, p_proc_ready, buf, prev,
                   hd_busy, must_wait, fault>>

-----------------------------------------------------------------------------
(* msg_receive                                                             *)

\* The sender whose message is taken: the head of the queue or the named one.
From == IF peer = ANY THEN first_sending[caller] ELSE peer

\* Lines 216, 236 and 251-254: a pending interrupt goes first, then a sender
\* that already waits; otherwise the receiver will.
\* Bugs: the named source is not asked whether it already sends; or not whom it
\* sends to.
SenderWaitsIfAny    == peer = ANY /\ first_sending[caller] # NULL
SenderWaitsAnywhere == \/ peer = ANY /\ first_sending[caller] # NULL
                       \/ peer \in Procs /\ Sending(peer)
TakesInterrupt == has_int_msg[caller] = 1 /\ peer \in {ANY, INTERRUPT}
SenderWaits    == \/ peer = ANY /\ first_sending[caller] # NULL
                  \/ peer \in Procs /\ Sending(peer) /\ p_sendto[peer] = caller

ReceiveCheck ==
    /\ pc = "receive"
    /\ \/ TakesInterrupt /\ pc' = "takeint"
       \/ ~TakesInterrupt /\ SenderWaits /\ peer = ANY /\ pc' = "take"
       \/ SenderWaits /\ peer \in Procs \ {0} /\ pc' = "search"
       \/ ~TakesInterrupt /\ ~SenderWaits /\ peer # 0 /\ pc' = "mark"
    /\ walk' = IF pc' = "search" THEN first_sending[caller] ELSE NULL
    /\ UNCHANGED <<procVars, listVars, callVars, p_proc_ready, buf, prev,
                   hd_busy, must_wait, fault>>

\* assert(src): process 0 cannot be named.
ReceiveFromZero == pc = "receive" /\ peer = 0 /\ Fail("src0")

\* Lines 218-226.
ReceiveInt ==
    /\ pc = "takeint"
    /\ buf' = [buf EXCEPT ![caller] = IntMsg]
    /\ has_int_msg' = [has_int_msg EXCEPT ![caller] = 0]
    /\ pc' = "tookint"
    /\ UNCHANGED <<p_flags, p_msg, p_recvfrom, p_sendto, listVars, callVars,
                   p_proc_ready, walk, prev, hd_busy, must_wait, fault>>

\* Lines 228-233.
ReceiveIntDone ==
    /\ pc = "tookint"
    /\ IF Idle(caller) /\ has_int_msg[caller] = 0
       THEN /\ Return
            /\ UNCHANGED <<procVars, listVars, p_proc_ready, buf>>
       ELSE Fail("tookint")

\* Lines 255-266: one turn of the loop that finds src and its predecessor.
ReceiveSearch ==
    /\ pc = "search"
    /\ \/ /\ walk = NULL /\ prev = NULL    \* assert(p) on an empty queue
          /\ Fail("search")
       \/ /\ walk = peer \/ (walk = NULL /\ prev # NULL)
          /\ pc' = "take"
          /\ UNCHANGED <<procVars, listVars, callVars, p_proc_ready, buf, walk,
                         prev, hd_busy, must_wait, fault>>
       \/ /\ walk \notin {peer, NULL}
          /\ prev' = walk /\ walk' = next_sending[walk]
          /\ UNCHANGED <<procVars, listVars, callVars, p_proc_ready, buf, pc,
                         hd_busy, must_wait, fault>>

\* What lines 240-248, 268-276 and 282-292 assert before the message is taken.
TakeAsserts ==
    /\ Idle(caller) /\ p_recvfrom[caller] = NO_TASK
    /\ first_sending[caller] # NULL
    /\ p_flags[From] = {"SENDING"} /\ p_msg[From] # 0
    /\ p_recvfrom[From] = NO_TASK /\ p_sendto[From] = caller
    /\ (From = first_sending[caller]) <=> (prev = NULL)

\* Lines 288-289: the list without From.  A bug: its predecessor keeps the link.
DanglingFrom == [next_sending EXCEPT ![From] = NULL]
WithoutFrom  == [next_sending EXCEPT ![prev] = next_sending[From], ![From] = NULL]

\* Lines 280-303: unlink the sender, copy its message, make it runnable.
ReceiveTake ==
    /\ pc = "take"
    /\ IF TakeAsserts
       THEN /\ IF From = first_sending[caller]
               THEN /\ first_sending' = [first_sending EXCEPT ![caller] = next_sending[From]]
                    /\ next_sending' = [next_sending EXCEPT ![caller] = NULL]
               ELSE /\ next_sending' = WithoutFrom
                    /\ UNCHANGED first_sending
            /\ buf' = [buf EXCEPT ![caller] = buf[From]]
            /\ p_msg' = [p_msg EXCEPT ![From] = 0]
            /\ p_flags' = [p_flags EXCEPT ![From] = @ \ {"SENDING"}]
            /\ p_sendto' = [p_sendto EXCEPT ![From] = NO_TASK]
            /\ Return
            /\ UNCHANGED <<p_recvfrom, has_int_msg, p_proc_ready>>
       ELSE Fail("take")

\* Lines 306-312.  With src = INTERRUPT p_from is still 0, so what is recorded
\* is proc2pid(0).  inform_int treats a process between 306 and 312 as it
\* treats a running one, so the three stores are one step.
ReceiveMark ==
    /\ pc = "mark"
    /\ p_flags' = [p_flags EXCEPT ![caller] = @ \cup {"RECEIVING"}]
    /\ p_msg' = [p_msg EXCEPT ![caller] = 1]
    /\ p_recvfrom' = [p_recvfrom EXCEPT
                        ![caller] = IF peer = INTERRUPT THEN NilPid ELSE peer]
    /\ pc' = "block"
    /\ UNCHANGED <<p_sendto, has_int_msg, listVars, callVars, p_proc_ready, buf,
                   walk, prev, hd_busy, must_wait, fault>>

-----------------------------------------------------------------------------
\* block(): assert(p_flags), then proc_schedule() picks the next process.
Block ==
    /\ pc = "block"
    /\ IF p_flags[caller] # {}
       THEN /\ p_proc_ready' \in Runnable
            /\ pc' = "exit"
            /\ UNCHANGED <<procVars, listVars, callVars, buf, walk, prev,
                           hd_busy, must_wait, fault>>
       ELSE Fail("block")

\* What lines 198-201 and 315-319 assert once block() has returned.
SentAsserts ==
    /\ p_flags[caller] = {"SENDING"} /\ p_msg[caller] # 0
    /\ p_recvfrom[caller] = NO_TASK /\ p_sendto[caller] = peer
WaitAsserts ==
    /\ p_flags[caller] = {"RECEIVING"} /\ p_msg[caller] # 0
    /\ p_recvfrom[caller] # NO_TASK /\ p_sendto[caller] = NO_TASK
ExitAsserts == IF op = "send" THEN SentAsserts
               ELSE WaitAsserts /\ has_int_msg[caller] = 0

\* The call leaves the kernel for the process proc_schedule chose, with the
\* caller blocked.
BlockExit ==
    /\ pc = "exit"
    /\ IF ExitAsserts
       THEN /\ Leave
            /\ UNCHANGED <<procVars, listVars, p_proc_ready, buf, hd_busy,
                           must_wait, fault>>
       ELSE Fail(IF op = "send" THEN "sent"
                 ELSE IF WaitAsserts THEN "intmsg" ELSE "wait")

-----------------------------------------------------------------------------
(* IRQ 14                                                                  *)

\* Line 373.  A bug: the interrupt of a driver that does not wait yet is dropped.
DropInterrupt == UNCHANGED has_int_msg
NoteInterrupt == has_int_msg' = [has_int_msg EXCEPT ![HD] = 1]

\* inform_int(HD), with k_reenter telling whether it nests in a call.
HdInterrupt ==
    /\ pc # "halt" /\ (hd_busy \/ Spurious)
    /\ hd_busy' = FALSE
    /\ IF Receiving(HD) /\ p_recvfrom[HD] \in {INTERRUPT, ANY}
       THEN /\ buf' = IF p_msg[HD] # 0 THEN [buf EXCEPT ![HD] = IntMsg] ELSE buf
            /\ p_msg' = [p_msg EXCEPT ![HD] = 0]
            /\ has_int_msg' = [has_int_msg EXCEPT ![HD] = 0]
            /\ p_flags' = [p_flags EXCEPT ![HD] = @ \ {"RECEIVING"}]
            /\ p_recvfrom' = [p_recvfrom EXCEPT ![HD] = NO_TASK]
            /\ IF p_flags[HD] = {"RECEIVING"} /\ p_sendto[HD] = NO_TASK
               THEN UNCHANGED <<pc, fault>>
               ELSE pc' = "halt" /\ fault' = "inform"
            /\ UNCHANGED p_sendto
       ELSE /\ NoteInterrupt
            /\ UNCHANGED <<p_flags, p_msg, p_recvfrom, p_sendto, buf, pc, fault>>
    /\ UNCHANGED <<listVars, callVars, p_proc_ready, walk, prev, must_wait>>

\* A failed assertion ends in spin() or in hlt with interrupts off.
Halted == pc = "halt" /\ UNCHANGED vars

-----------------------------------------------------------------------------
User == \/ \E d \in Procs, t \in Types : SysSend(d, t)
        \/ \E s \in Procs \cup {ANY, INTERRUPT} : SysReceive(s)
        \/ HdCmdOut \/ TaskPanic

Kernel == \/ DeadlockStep \/ SendMatch \/ SendAddress \/ SendCopy
          \/ SendClear \/ SendWake \/ SendEnqueue \/ SendTail
          \/ ReceiveCheck \/ ReceiveFromZero \/ ReceiveInt \/ ReceiveIntDone
          \/ ReceiveSearch \/ ReceiveTake \/ ReceiveMark
          \/ Block \/ BlockExit

Next == User \/ Preempt \/ Kernel \/ HdInterrupt \/ Halted

Spec == Init /\ [][Next]_vars

\* The CPU keeps executing the kernel, and a command is answered.
FairSpec == Spec /\ WF_vars(Kernel) /\ WF_vars(HdInterrupt)

-----------------------------------------------------------------------------
(* Properties                                                              *)

Pcs == {"user", "deadlock", "match", "address", "copy", "clear", "wake", "enqueue", "tail",
        "receive", "takeint", "tookint", "search", "take", "mark", "block",
        "exit", "halt"}
Faults == {"none", "deadlock", "wake", "enqueue", "src0", "tookint", "search",
           "take", "block", "sent", "wait", "intmsg", "inform", "panic"}

\* The process table's fields stay in their types (include/proc.h 52-79).
TypeOK ==
    /\ p_flags \in [Procs -> SUBSET {"SENDING", "RECEIVING"}]
    /\ p_msg \in [Procs -> {0, 1}]
    /\ p_recvfrom \in [Procs -> Procs \cup {ANY, NO_TASK, NilPid}]
    /\ p_sendto \in [Procs -> Procs \cup {NO_TASK}]
    /\ has_int_msg \in [Procs -> {0, 1}]
    /\ first_sending \in [Procs -> Procs \cup {NULL}]
    /\ next_sending \in [Procs -> Procs \cup {NULL}]
    /\ p_proc_ready \in Procs
    /\ buf \in [Procs -> Messages]
    /\ pc \in Pcs
    /\ caller \in Procs \cup {NULL} /\ op \in {"none", "send", "receive"}
    /\ peer \in Procs \cup {ANY, INTERRUPT, NO_TASK}
    /\ walk \in Procs \cup {NULL} /\ prev \in Procs \cup {NULL}
    /\ hd_busy \in BOOLEAN /\ must_wait \in BOOLEAN
    /\ fault \in Faults

\* Linked(d): the processes whose SENDING to d is complete, so they must be in
\* the list that starts at first_sending[d].
Linked(d) == {p \in Procs : /\ Sending(p) /\ p_sendto[p] = d
                            /\ ~(pc = "tail" /\ p = caller)}

\* V holds everything the list of L's elements leads to from its head f.
Holds(V, f, next, L) == /\ f \in V \cup {NULL}
                        /\ \A p \in V \cap L : next[p] \in V \cup {NULL}

\* The list from head f holds exactly the elements of L, each once: it stays in
\* L, does not run into itself, and leaves nothing of L out.
IsList(f, next, L) ==
    /\ f \in L \cup {NULL}
    /\ \A p \in L : next[p] \in L \cup {NULL}
    /\ \A p \in L : next[p] # NULL => next[p] # f
    /\ \A p, q \in L : next[p] = next[q] /\ next[p] # NULL => p = q
    /\ \A V \in SUBSET Procs : Holds(V, f, next, L) => L \subseteq V

\* No blocked sender is ever lost from, or doubled in, its destination's queue
\* (process.c 185-194 and 280-290).
QueueInv == \A d \in Procs : IsList(first_sending[d], next_sending, Linked(d))

\* No set of processes all wait to send to one another: what deadlock()
\* (process.c 98-121) is there to rule out, for cycles of any length.
NoSendCycle ==
    \A T \in SUBSET Procs :
        T # {} => \E p \in T : ~(Sending(p) /\ p_sendto[p] \in T)

\* A sender and a receiver that could meet are never both left blocked
\* (process.c 159 and 235-278).
NoMissedRendezvous ==
    \A p, d \in Procs : ~(/\ Sending(p) /\ p_sendto[p] = d
                           /\ Receiving(d) /\ p_recvfrom[d] \in {p, ANY})

\* The process that runs at user level is one that is not blocked
\* (process.c 196, 313: block() gives the CPU away).
RunningIsReady == pc = "user" => p_flags[p_proc_ready] = {}

\* Besides a task's own panic only these can stop the kernel: the deadlock
\* panic, assert(src) for process 0, and has_int_msg == 0 after a receive.  If
\* the disk may interrupt unasked, also the assertions of a receive it cut short.
AssertionsHold ==
    fault \in {"none", "deadlock", "src0", "intmsg", "panic"}
              \cup IF Spurious THEN {"block", "wait", "tookint"} ELSE {}

\* A command whose IRQ 14 has come and which the driver has not waited for yet
\* has left its mark in has_int_msg (process.c 373, 216-226).
IrqNotLost ==
    ~Spurious /\ must_wait /\ ~hd_busy
        => has_int_msg[HD] = 1 \/ (pc = "tookint" /\ caller = HD)

\* sendrec(SEND) is over only once the destination has the message: when it
\* found the receiver waiting, and when it was queued and is released.
SendMeansDelivered ==
    [][/\ pc = "wake" /\ pc' = "user" => buf[peer] = buf[caller]
       /\ \A p \in Procs : Sending(p) /\ ~Sending(p)'
                              => buf'[p_sendto[p]] = buf[p]]_vars

\* Every system call returns or stops the system: the loops over p_sendto and
\* next_sending (process.c 100-119, 187, 258-266) end.
CallsEnd == pc # "user" ~> pc \in {"user", "halt"}

-----------------------------------------------------------------------------
(* What the source says of itself and does not keep.                       *)

\* process.c:319 asserts has_int_msg == 0 once the receiver is blocked; but the
\* interrupt may come between the test on line 216 and the assertion.
NoInterruptBeforeSleep == fault # "intmsg"

\* process.c:349 says of inform_int that it tells the process of the interrupt;
\* a driver in interrupt_wait() has p_recvfrom = proc2pid(0), and sleeps on.
InterruptNotifies ==
    [][hd_busy /\ ~hd_busy' /\ must_wait /\ Receiving(HD) => ~Receiving(HD)']_vars
=============================================================================
