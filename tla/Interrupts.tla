----------------------------- MODULE Interrupts -----------------------------
(***************************************************************************)
(* How the processor enters and leaves the kernel of TtaoOS: save, restart *)
(* and sys_call (kernel/process.asm), the handlers of the interrupt lines  *)
(* (kernel/8259A.asm) and the mask registers of the two 8259A              *)
(* (kernel/8259A.c), from kernel_main on, which starts with interrupts off *)
(* but does not stay so: Init_Tty sets a cursor, and set_cursor ends with  *)
(* sti.                                                                    *)
(*                                                                         *)
(* The kernel runs on one stack.  From an interrupt to the sti that follows *)
(* is one step.  What the C code does is Ipc, Sched, Console and Keyboard; *)
(* here it only chooses p_proc_ready.                                      *)
(***************************************************************************)
EXTENDS Integers, FiniteSets

CONSTANTS
    Procs,          \* pids: 0, 1, ...
    NR_SYS_TASKS_PROC,
    CLOCK, CASCADE, \* the lines of the clock and of the slave 8259A
    EarlyLines,     \* enabled by Init_Clock and Init_Keyboard
    LateLines,      \* enabled by Init_Hd: CASCADE and lines of the slave
    SysCalls,       \* the system calls programs use
    Leftover        \* what memory may hold where .bss has k_reenter

Lines     == 0 .. 15
Master    == 0 .. 7
Devices   == (EarlyLines \cup LateLines) \ {CASCADE}
Printings == {"assert", "panic", "print"}       \* what printx is called for

ASSUME InterruptsAssumption ==
    /\ Procs \subseteq Nat /\ 0 \in Procs /\ NR_SYS_TASKS_PROC \in Nat
    /\ CASCADE \in LateLines \cap Master /\ CLOCK \in EarlyLines
    /\ EarlyLines \subseteq Master \ LateLines /\ LateLines \subseteq Lines
    /\ SysCalls \subseteq {"send_rec", "write"} \cup Printings /\ Leftover \subseteq Int

None    == -1       \* no pid, no line
OnStack == -2       \* a place: the kernel's stack
NoOne   == [proc |-> None, n |-> 0, eax |-> None]

VARIABLES
    k_reenter,
    sti,            \* the interrupt flag
    depth, stack,   \* activations of the kernel on its stack, the oldest first
    p_proc_ready,
    sp0,            \* tss.esp0: in whose regs the next entry will save
    regs,           \* proc_table[p].regs: n stands for all registers but eax
    cpu,            \* at user level: the process, and its registers
    masked,         \* the bits set in the mask registers
    temp,           \* enable_irq: the register as it was read
    state,          \* "running"; "stopped" by sys_printx; or "wild"
    done            \* history: n as p's own instructions left it
vars == <<k_reenter, sti, depth, stack, p_proc_ready, sp0, regs, cpu, masked, temp, state, done>>

\* kernel_main is the first activation.  Nothing zeroes .bss, with k_reenter in
\* it: the loader copies what the file holds (loader.asm 661).
MainFrame(pc) == [kind |-> "main", irq |-> None, sys |-> "none", pc |-> pc,
                  home |-> OnStack, ret |-> "restart", arg |-> None]

Init ==
    /\ k_reenter \in Leftover /\ sti = FALSE /\ depth = 1 /\ stack = [i \in 1 .. 1 |-> MainFrame("early")]
    /\ p_proc_ready = None /\ sp0 = None
    /\ regs = [p \in Procs |-> [n |-> 0, eax |-> None]]
    /\ cpu = NoOne /\ masked = Lines /\ temp = {} /\ state = "running"
    /\ done = [p \in Procs |-> 0]

Top        == stack[depth]
At(pc)     == state = "running" /\ depth > 0 /\ Top.pc = pc
AtUser     == state = "running" /\ depth = 0
Goto(f)    == stack' = [stack EXCEPT ![depth] = f]
InMain(pc) == At(pc) /\ Top.kind = "main"

-----------------------------------------------------------------------------
(* Entry and exit                                                          *)

\* save: a frame for the interrupted code and one for the new activation.
\* At the first level esp starts again at StackTop and restart will be the
\* return address.  The rest of old stays on the stack.
Save(f, old) ==
    LET level == k_reenter + 1
        frame == [f EXCEPT !.ret  = IF level = 0 THEN "restart" ELSE "reenter",
                           !.home = IF depth = 0 THEN sp0 ELSE OnStack]
        base  == IF level = 0 THEN 0 ELSE depth
    IN  /\ k_reenter' = level /\ sti' = TRUE
        /\ depth' = base + 1
        /\ stack' = [i \in 1 .. base + 1 |-> IF i = base + 1 THEN frame ELSE old[i]]
        /\ regs' = IF depth = 0 THEN [regs EXCEPT ![sp0] = [n |-> cpu.n, eax |-> cpu.eax]]
                   ELSE regs
        /\ cpu' = NoOne

\* With k_reenter at -1 save starts at StackTop again though the stack is in use,
\* and the way back is restart: kernel_main, interrupted before it has set
\* k_reenter, is lost, and what runs is no process.
Overwrites == depth > 0 /\ k_reenter + 1 = 0
Wild       == state' = "wild" /\ UNCHANGED <<k_reenter, sti, depth, stack, regs, cpu>>

\* cli and ret: to restart, where the process table becomes the stack, or to
\* restart_reenter.  Bugs: no cli; the task state segment is forgotten.
StillOn == sti
Off     == FALSE
SameSp0 == sp0
NewSp0  == IF Top.ret = "restart" THEN p_proc_ready ELSE sp0
Return  == Goto([Top EXCEPT !.pc = "frame"]) /\ sti' = Off /\ sp0' = NewSp0

\* restart_reenter: the registers are taken from where esp points, a process or
\* the next older activation; the flags all have interrupts on.
LevelAfter == k_reenter - 1
Iret ==
    /\ At("frame")
    /\ k_reenter' = LevelAfter /\ sti' = TRUE
    /\ LET left == IF Top.ret = "restart" THEN 0 ELSE depth - 1
       IN  depth' = left /\ stack' = [i \in 1 .. left |-> stack[i]]
    /\ cpu' = IF Top.ret = "restart"
              THEN [proc |-> p_proc_ready, n |-> regs[p_proc_ready].n, eax |-> regs[p_proc_ready].eax]
              ELSE cpu
    /\ UNCHANGED <<p_proc_ready, sp0, regs, masked, temp, state, done>>

-----------------------------------------------------------------------------
(* The lines                                                               *)

Deliverable(l) == l \in Devices \ masked /\ (l \notin Master => CASCADE \notin masked)

\* hwintNN up to sti: the line is masked, the 8259A told.  A bug: not masked.
NotMasked(l) == masked
Masked(l)    == masked \cup {l}

\* An interrupt that comes between restart and iretd saves its frame over
\* what lies below the process's in memory, and finds k_reenter one too small.
Interrupt(l) ==
    /\ state = "running" /\ sti /\ Deliverable(l)
    /\ \/ /\ ~At("frame") /\ ~Overwrites
          /\ Save([kind |-> "irq", irq |-> l, sys |-> "none", pc |-> "body",
                   home |-> OnStack, ret |-> "reenter", arg |-> None], stack)
          /\ masked' = Masked(l)
          /\ UNCHANGED state
       \/ /\ At("frame") \/ Overwrites
          /\ Wild /\ UNCHANGED masked
    /\ UNCHANGED <<p_proc_ready, sp0, temp, done>>

\* clock_handler calls proc_schedule only if it interrupted a process.
\* A bug: always.
AlwaysSwitch == TRUE
MaySwitch    == k_reenter = 0

Handler ==
    /\ At("body") /\ Top.kind = "irq"
    /\ \/ UNCHANGED p_proc_ready
       \/ Top.irq = CLOCK /\ MaySwitch /\ p_proc_ready' \in Procs
    /\ Goto([Top EXCEPT !.pc = "exit"])
    /\ UNCHANGED <<k_reenter, sti, depth, sp0, regs, cpu, masked, temp, state, done>>

\* From cli to ret.  A bug: the slave's register is not written.
UnmaskedMaster(l) == masked \ ({l} \cap Master)
Unmasked(l)       == masked \ {l}
HandlerExit ==
    /\ At("exit") /\ Top.kind = "irq"
    /\ masked' = Unmasked(Top.irq)
    /\ Return
    /\ UNCHANGED <<k_reenter, depth, p_proc_ready, regs, cpu, temp, state, done>>

-----------------------------------------------------------------------------
(* System calls                                                            *)

Call(s) == [kind |-> "call", irq |-> None, sys |-> s, pc |-> "args",
            home |-> OnStack, ret |-> "reenter", arg |-> None]

\* int 0x90 at user level.
SysCall(s) ==
    /\ AtUser /\ Save(Call(s), stack)
    /\ UNCHANGED <<p_proc_ready, sp0, masked, temp, state, done>>

\* The kernel itself calls printx, and goes on at pc when that returns.
Nested(s, pc) ==
    /\ \/ /\ ~Overwrites
          /\ Save(Call(s), [stack EXCEPT ![depth].pc = pc]) /\ UNCHANGED state
       \/ Overwrites /\ Wild
    /\ UNCHANGED <<p_proc_ready, sp0, masked, temp, done>>

\* An assertion fails: after printx spin() loops.  Of kernel_main's the only one
\* with interrupts on is the first of Init_Hd.
KernelAssert ==
    /\ \/ At("body") /\ Top.sys \notin Printings
       \/ InMain("put")
    /\ Nested("assert", "spin")

\* sys_send_rec: deadlock() prints the circle it finds, and for it, or for an
\* unknown function, panic() follows.
KernelPrint ==
    /\ At("body") /\ Top.sys = "send_rec"
    /\ Nested("print", "body") \/ Nested("panic", "spin")

\* push dword [p_proc_ready]
PushArgs ==
    /\ At("args") /\ Goto([Top EXCEPT !.arg = p_proc_ready, !.pc = "body"])
    /\ UNCHANGED <<k_reenter, sti, depth, p_proc_ready, sp0, regs, cpu, masked, temp, state, done>>

\* sys_printx stops the system for a panic, for a negative k_reenter, and for an
\* assertion that failed in a task: with a <= where < was meant.  Before
\* kernel_main has set p_proc_ready it points anywhere.
Unset    == p_proc_ready = None /\ k_reenter >= 0
Stops(s) == s = "panic" \/ k_reenter < 0 \/ (s = "assert" /\ p_proc_ready <= NR_SYS_TASKS_PROC)

\* sys_send_rec may end in block() and proc_schedule(), sys_write and
\* sys_printx do not.
Body ==
    /\ At("body") /\ Top.kind = "call"
    /\ \/ Stops(Top.sys) /\ state' = "stopped" /\ UNCHANGED <<stack, p_proc_ready>>
       \/ /\ (~Stops(Top.sys) \/ Unset) /\ Goto([Top EXCEPT !.pc = "exit"])
          /\ \/ UNCHANGED p_proc_ready
             \/ Top.sys = "send_rec" /\ p_proc_ready' \in Procs
          /\ UNCHANGED state
    /\ UNCHANGED <<k_reenter, sti, depth, sp0, regs, cpu, masked, temp, done>>

\* The result, which stands for itself by the pid it was computed for, goes to
\* where esi points.  A bug: to the process that will run next.
ToReady  == [regs EXCEPT ![p_proc_ready].eax = Top.arg]
ToCaller == IF Top.home = OnStack THEN regs ELSE [regs EXCEPT ![Top.home].eax = Top.arg]

CallExit ==
    /\ At("exit") /\ Top.kind = "call"
    /\ regs' = ToCaller /\ Return
    /\ UNCHANGED <<k_reenter, depth, p_proc_ready, cpu, masked, temp, state, done>>

-----------------------------------------------------------------------------
(* kernel_main                                                             *)

MainGoto(here, there) ==
    /\ InMain(here) /\ Goto([Top EXCEPT !.pc = there])
    /\ UNCHANGED <<depth, regs, cpu, state, done>>

\* Init_Clock and Init_Keyboard, then Init_Tty, which turns interrupts on.
MainEarly ==
    /\ MainGoto("early", "put")
    /\ masked' = masked \ EarlyLines /\ sti' = TRUE
    /\ UNCHANGED <<k_reenter, p_proc_ready, sp0, temp>>

\* Init_Hd: put_irq_handler calls disable_irq, which reads the slave's register
\* and writes it back with the disk's bit.
MainPut ==
    /\ MainGoto("put", "mask") /\ temp' = masked \ Master
    /\ UNCHANGED <<k_reenter, sti, p_proc_ready, sp0, masked>>
MainMask ==
    /\ MainGoto("mask", "late")
    /\ masked' = (masked \cap Master) \cup temp \cup (LateLines \ Master) /\ temp' = {}
    /\ UNCHANGED <<k_reenter, sti, p_proc_ready, sp0>>

\* enable_irq reads the register of the line ...
Register(l) == IF l \in Master THEN Master ELSE Lines \ Master
MainRead(l) ==
    /\ InMain("late") /\ l \in LateLines \cap masked
    /\ temp' = masked \cap Register(l)
    /\ Goto([Top EXCEPT !.pc = "write", !.irq = l])
    /\ UNCHANGED <<k_reenter, sti, depth, p_proc_ready, sp0, regs, cpu, masked, state, done>>

\* ... and writes it back without its bit.
MainWrite ==
    /\ MainGoto("write", "late")
    /\ masked' = (masked \ Register(Top.irq)) \cup (temp \ {Top.irq})
    /\ temp' = {}
    /\ UNCHANGED <<k_reenter, sti, p_proc_ready, sp0>>

\* k_reenter and the process table, then restart.
MainTable ==
    /\ LateLines \cap masked = {} /\ MainGoto("late", "restart")
    /\ k_reenter' = 0 /\ p_proc_ready' = 0
    /\ UNCHANGED <<sti, sp0, masked, temp>>
MainRestart ==
    /\ MainGoto("restart", "frame") /\ sp0' = p_proc_ready
    /\ UNCHANGED <<k_reenter, sti, p_proc_ready, masked, temp>>

-----------------------------------------------------------------------------
\* A process executes its own instructions.
UserStep ==
    /\ AtUser
    /\ cpu' = [cpu EXCEPT !.n = 1 - cpu.n]
    /\ done' = [done EXCEPT ![cpu.proc] = 1 - done[cpu.proc]]
    /\ UNCHANGED <<k_reenter, sti, depth, stack, p_proc_ready, sp0, regs, masked, temp, state>>

\* hlt with interrupts off; what follows an overwritten table; spin().
Halted == (state # "running" \/ At("spin")) /\ UNCHANGED vars

Next ==
    \/ \E l \in Devices : Interrupt(l)
    \/ Handler \/ HandlerExit
    \/ \E s \in SysCalls : SysCall(s)
    \/ KernelAssert \/ KernelPrint \/ PushArgs \/ Body \/ CallExit \/ Iret
    \/ MainEarly \/ MainPut \/ MainMask \/ (\E l \in LateLines : MainRead(l)) \/ MainWrite
    \/ MainTable \/ MainRestart
    \/ UserStep \/ Halted

Spec == Init /\ [][Next]_vars
-----------------------------------------------------------------------------
(* Properties                                                              *)

Frames == [kind : {"main", "irq", "call"}, irq : Lines \cup {None},
           sys : {"none"} \cup Printings \cup SysCalls,
           pc : {"early", "put", "mask", "late", "write", "restart", "args", "body",
                 "spin", "exit", "frame"},
           home : Procs \cup {OnStack}, ret : {"restart", "reenter"},
           arg : Procs \cup {None}]

TypeOK ==
    /\ k_reenter \in Int /\ sti \in BOOLEAN
    /\ depth \in Nat /\ stack \in [1 .. depth -> Frames]
    /\ p_proc_ready \in Procs \cup {None} /\ sp0 \in Procs \cup {None}
    /\ regs \in [Procs -> [n : {0, 1}, eax : Procs \cup {None}]]
    /\ cpu \in [proc : Procs \cup {None}, n : {0, 1}, eax : Procs \cup {None}]
    /\ masked \subseteq Lines /\ temp \subseteq Lines
    /\ state \in {"running", "stopped", "wild"}
    /\ done \in [Procs -> {0, 1}]

\* k_reenter tells the code that runs whether it interrupted a process, however
\* deep interrupts and printing have nested: clock_handler, sys_printx and
\* sys_send_rec rely on it (clock.c 17, process.c 52, 124).  Until kernel_main has
\* set it, it counts from what was left there, and is 0 in no handler or call.
Early == depth > 0 /\ stack[1].kind = "main" /\ stack[1].pc \notin {"restart", "frame"}
ReenterIsDepth ==
    IF Early
    THEN \E l \in Leftover : k_reenter = l + depth - 1 /\ \A i \in 1 .. depth - 1 : l + i # 0
    ELSE k_reenter = depth - 1

\* A line never interrupts its own handler, and the stack of 2 KB holds no more
\* than one activation for each line and for a call, and one printing in each
\* (8259A.asm 51-53, kernel.asm 15).
NestingBounded ==
    /\ depth <= 2 * (Cardinality(Devices) + 1)
    /\ \A i, j \in 1 .. depth :
          stack[i].kind = "irq" /\ stack[j].kind = "irq" /\ stack[i].irq = stack[j].irq
              => i = j

\* A register of the 8259A is read, changed and written back by handlers in the
\* middle of kernel_main's doing the same (8259A.c 63-65); still, no line is
\* lost: what is masked once kernel_main has ended is what is being handled.
Booted == \A i \in 1 .. depth : stack[i].kind # "main"
Handled == {stack[i].irq : i \in {j \in 1 .. depth : stack[j].kind = "irq" /\ stack[j].pc # "frame"}}
NoLineLost == Booted => masked = (Lines \ (EarlyLines \cup LateLines)) \cup Handled

\* A process goes on exactly where it was interrupted, whichever processes and
\* activations ran in between (process.asm 17-47, 74-89).
ContextKept ==
    \A p \in Procs : done[p] = IF cpu.proc = p THEN cpu.n ELSE regs[p].n

\* The result of a system call goes to the process that made it, also when the
\* call ended with another one chosen (process.asm 55, 64-65).
ResultIsMine ==
    /\ \A p \in Procs : regs[p].eax \in {None, p}
    /\ cpu.eax \in {None, cpu.proc}

\* The kernel acts for the process that called, though p_proc_ready is read with
\* interrupts on; and sys_printx translates the address of buf if and only if
\* it came from a process (process.asm 54-60, process.c 52-58).
CallerServed ==
    At("body") /\ Top.kind = "call" =>
        /\ Top.home \in Procs => Top.arg = Top.home
        /\ k_reenter = 0 <=> Top.home \in Procs

\* Only the activation that interrupted a process chooses another one, so nobody
\* finds p_proc_ready changed by an interrupt (clock.c 17-19).
SwitchAtBottom == [][p_proc_ready' # p_proc_ready => depth = 1]_vars

\* Once the first process runs, no interrupt comes while the process table is the
\* stack (process.asm 67, 8259A.asm 66), and none starts the kernel's stack again
\* while it is in use; before, both may be, since kernel_main calls restart with
\* interrupts on (console.c 136), and has them on before it sets k_reenter.
FrameSafe == state = "wild" => ~Booted
=============================================================================
