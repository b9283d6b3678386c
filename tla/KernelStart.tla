----------------------------- MODULE KernelStart -----------------------------
(***************************************************************************)
(* From the kernel's entry to the first process: the descriptor tables     *)
(* (kernel.asm, start.c, protect.c), the table of processes (main.c), and  *)
(* what happens on an exception from then on (protect.asm, protect.c).     *)
(*                                                                         *)
(* Descriptors are kept field by field, as the processor reads them.  What *)
(* the processor does is external.                                         *)
(***************************************************************************)
EXTENDS Integers, Sequences

CONSTANTS
    GDT_SIZE,
    NR_SYS_TASKS_PROC,
    stacksize,                      \* of each entry of the task tables
    STACK_SIZE_TOTAL,               \* size of task_stack, a sum of its own
    TssAddress, ProcTable, TaskStack,   \* where the linker put these
    Codes                           \* error codes the processor may push

NR_ALL_TASKS_PROC == Len(stacksize)
Procs             == 0 .. NR_ALL_TASKS_PROC - 1

SumUpTo[n \in 0 .. NR_ALL_TASKS_PROC] ==
    IF n = 0 THEN 0 ELSE stacksize[n] + SumUpTo[n - 1]

\* Selectors and attributes (const.h); the sizes are those of proc.h.
KERNEL_CS     == 8
KERNEL_DS     == 16
KERNEL_GS     == 24 + 3
LDT_FIRST     == \h28
TSS           == \h20
DA_C          == \h98
DA_CR         == \h9A
DA_DRW        == \h92
DA_LDT        == \h82
DA_386TSS     == \h89
DA_32_4K      == \hC000      \* DA_32 | DA_LIMIT_4K
SYS_CALL      == \h90
SizeofTss     == 104
SizeofProcess == 152
LdtsOffset    == 74          \* behind regs and ldt_sel
SizeofLdts    == 16

Exceptions == 0 .. 14 \cup {16}
Irqs       == \h20 .. \h2F

ASSUME KernelAssumption ==
    /\ stacksize \in Seq(Nat) /\ NR_SYS_TASKS_PROC \in 0 .. NR_ALL_TASKS_PROC
    /\ {TssAddress, ProcTable, TaskStack, STACK_SIZE_TOTAL} \subseteq Nat /\ Codes \subseteq Nat
    /\ GDT_SIZE \in Nat /\ 5 + NR_ALL_TASKS_PROC <= GDT_SIZE
    /\ TssAddress \div \h1000000 < 256     \* addresses have 32 bits
    /\ (ProcTable + SizeofProcess * NR_ALL_TASKS_PROC) \div \h1000000 < 256

VARIABLES
    at,                     \* where the kernel is
    gdt,                    \* the descriptors, by index
    idt,                    \* the privilege of each gate, by vector
    tr,                     \* the task register
    proc_table,             \* the processes made so far
    raised,                 \* the exception, and who is to blame
    displayed               \* what exception_handler says of it
kstart == <<at, gdt, idt, tr, proc_table, raised, displayed>>

-----------------------------------------------------------------------------
(* Descriptors                                                             *)

init_descriptor(base, limit, attribute) ==
    [limit_low |-> limit % \h10000, base_low |-> base % \h10000,
     base_mid |-> (base \div \h10000) % 256, attr1 |-> attribute % 256,
     limit_high_attr2 |-> ((limit \div \h10000) % 16) + 16 * (attribute \div \h1000),
     base_high |-> (base \div \h1000000) % 256]

seg2phys(seg) == LET d == gdt[seg \div 8]
                 IN  d.base_high * \h1000000 + d.base_mid * \h10000 + d.base_low

\* As the processor reads them.
Base(d)  == d.base_low + \h10000 * d.base_mid + \h1000000 * d.base_high
Limit(d) == d.limit_low + \h10000 * (d.limit_high_attr2 % 16)
Dpl(d)   == (d.attr1 \div 32) % 4

Empty == init_descriptor(0, 0, 0)
LoaderGdt == <<Empty, init_descriptor(0, \hFFFFF, DA_CR + DA_32_4K),
               init_descriptor(0, \hFFFFF, DA_DRW + DA_32_4K),
               init_descriptor(\hB8000, \hFFFF, DA_DRW + \h60)>>

KernelInit ==
    /\ at = "cstart"
    /\ gdt = [i \in 0 .. GDT_SIZE - 1 |-> Empty]
    /\ idt = [v \in {} |-> 0] /\ tr = 0
    /\ proc_table = <<>> /\ raised = <<>> /\ displayed = <<>>

-----------------------------------------------------------------------------
(* start.c and protect.c                                                   *)

\* cstart: the loader's table, in one twice as long.
cstart ==
    /\ at = "cstart" /\ at' = "idt"
    /\ gdt' = [i \in DOMAIN gdt |-> IF i < Len(LoaderGdt) THEN LoaderGdt[i + 1] ELSE gdt[i]]
    /\ UNCHANGED <<idt, tr, proc_table, raised, displayed>>

\* init_protect: the gates.  A bug: every gate may be called by everybody.
OpenGate(v)  == 3
Privilege(v) == IF v \in {3, 4, SYS_CALL} THEN 3 ELSE 0
InitGates ==
    /\ at = "idt" /\ at' = "gdt"
    /\ idt' = [v \in Exceptions \cup Irqs \cup {SYS_CALL} |-> Privilege(v)]
    /\ UNCHANGED <<gdt, tr, proc_table, raised, displayed>>

\* init_protect: the TSS, and the LDT of each process, which lies in its entry of
\* proc_table.
LdtAddress(i) == seg2phys(KERNEL_DS) + ProcTable + SizeofProcess * i + LdtsOffset
InitSegments ==
    /\ at = "gdt" /\ at' = "tables"
    /\ gdt' = [i \in DOMAIN gdt |->
                  CASE i = TSS \div 8 ->
                         init_descriptor(seg2phys(KERNEL_DS) + TssAddress, SizeofTss - 1,
                                         DA_386TSS)
                    [] i - (LDT_FIRST \div 8) \in Procs ->
                         init_descriptor(LdtAddress(i - (LDT_FIRST \div 8)),
                                         SizeofLdts - 1, DA_LDT)
                    [] OTHER -> gdt[i]]
    /\ UNCHANGED <<idt, tr, proc_table, raised, displayed>>

\* lgdt, lidt, csinit.
csinit ==
    /\ at = "tables" /\ at' = "main" /\ tr' = TSS
    /\ UNCHANGED <<gdt, idt, proc_table, raised, displayed>>

-----------------------------------------------------------------------------
(* kernel_main                                                             *)

\* The selector of the next process, a u8.  A bug: the next byte, not the next
\* descriptor.
NextByte(i)     == LDT_FIRST + i
SelectorLdt(i)  == (LDT_FIRST + 8 * i) % 256

\* Where its stack starts, downwards.
TaskStackTop(i) == TaskStack + STACK_SIZE_TOTAL - SumUpTo[i]

MakeProcess ==
    LET i   == Len(proc_table)
        rpl == IF i < NR_SYS_TASKS_PROC THEN 1 ELSE 3
    IN  /\ at = "main" /\ i < NR_ALL_TASKS_PROC
        /\ proc_table' = Append(proc_table,
               [ldt_sel |-> SelectorLdt(i),
                ldts |-> <<[gdt[KERNEL_CS \div 8] EXCEPT !.attr1 = DA_C + 32 * rpl],
                           [gdt[KERNEL_DS \div 8] EXCEPT !.attr1 = DA_DRW + 32 * rpl]>>,
                cs |-> 4 + rpl, ds |-> 8 + 4 + rpl, ss |-> 8 + 4 + rpl,
                gs |-> (KERNEL_GS \div 4) * 4 + rpl,
                eflags |-> IF i < NR_SYS_TASKS_PROC THEN \h1202 ELSE \h202,
                esp |-> TaskStackTop(i)])
        /\ UNCHANGED <<at, gdt, idt, tr, raised, displayed>>

Restart ==
    /\ at = "main" /\ Len(proc_table) = NR_ALL_TASKS_PROC
    /\ at' = "running"
    /\ UNCHANGED <<gdt, idt, tr, proc_table, raised, displayed>>

-----------------------------------------------------------------------------
(* Exceptions                                                              *)

\* What the kernel or a process p was about to execute.
InKernel   == [cs |-> KERNEL_CS, eflags |-> \h1202, eip |-> <<"kernel">>, outer |-> <<>>]
InProc(p)  == [cs |-> p.cs, eflags |-> p.eflags, eip |-> <<"process", p.ldt_sel>>,
               outer |-> <<p.esp, p.ss>>]
Running    == IF at = "running" THEN {InProc(proc_table[i]) : i \in DOMAIN proc_table} ELSE {}

\* Vectors for which the processor pushes an error code, and what its stub pushes
\* then, the last one first.
HasCode   == {8, 10, 11, 12, 13, 14}
Pushed(v) == IF v \in HasCode THEN <<v>> ELSE <<v, -1>>

\* The gate of v, its stub, exception_handler with what it finds on the stack,
\* and hlt with interrupts off.  code is what the processor pushes, if anything.
Handle(v, code, who, blame) ==
    LET stack == Pushed(v) \o code \o <<who.eip, who.cs, who.eflags>> \o who.outer
    IN  /\ at' = "halted"
        /\ raised' = blame
        /\ displayed' = [vec_no |-> stack[1], err_code |-> stack[2], eip |-> stack[3],
                         cs |-> stack[4], eflags |-> stack[5]]
        /\ UNCHANGED <<gdt, idt, tr, proc_table>>

Blame(v, code, who) == [vec_no |-> v, err_code |-> code, eip |-> who.eip,
                        cs |-> who.cs, eflags |-> who.eflags]

\* A fault, trap or abort of the processor, in the kernel or in a process.
Raise(v) ==
    /\ at \in {"main", "running"}
    /\ \E who \in Running \cup {InKernel} :
          \/ /\ v \in HasCode
             /\ \E c \in Codes : Handle(v, <<c>>, who, Blame(v, c, who))
          \/ v \notin HasCode /\ Handle(v, <<>>, who, Blame(v, -1, who))

\* A process executes int v, of any gate but the system call's; one it has no
\* right to call is a general protection fault instead.
SoftwareInt(v) ==
    /\ \E who \in Running :
          IF who.cs % 4 <= idt[v]
          THEN Handle(v, <<>>, who, Blame(v, -1, who))
          ELSE Handle(13, <<8 * v + 2>>, who, Blame(13, 8 * v + 2, who))

KernelStep ==
    \/ cstart \/ InitGates \/ InitSegments \/ csinit
    \/ MakeProcess \/ Restart
    \/ \E v \in Exceptions : Raise(v) \/ SoftwareInt(v)
    \/ \E v \in Irqs : SoftwareInt(v)

-----------------------------------------------------------------------------
(* Properties                                                              *)

\* exception_handler names the exception there was, its error code and the
\* instruction it was at, whoever caused it, be it with an int instruction
\* (protect.c 83-98, 147-195; protect.asm 22-83).
ReportIsTrue == at = "halted" => displayed = raised

\* The LDT selector of a process leads to its own LDT, which ends within its own
\* entry, and its other selectors by that LDT to flat segments of its own privilege.
OwnLdt(i) ==
    LET p   == proc_table[i + 1]
        ldt == gdt[p.ldt_sel \div 8]
    IN  /\ ldt.attr1 = DA_LDT
        /\ Base(ldt) = ProcTable + SizeofProcess * i + LdtsOffset
        /\ Base(ldt) + Limit(ldt) < ProcTable + SizeofProcess * (i + 1)
        /\ \A sel \in {p.cs, p.ds, p.ss} :
              LET d == p.ldts[sel \div 8 + 1]
              IN  /\ (sel \div 4) % 2 = 1 /\ 8 * (sel \div 8) + 7 <= Limit(ldt)
                  /\ Dpl(d) = sel % 4 /\ Base(d) = 0 /\ Limit(d) = \hFFFFF

\* No other process's stack overlaps that of i, and it lies in task_stack if that
\* was given the room of them all.
StackApart(i) ==
    LET bottom(j) == proc_table[j + 1].esp - stacksize[j + 1]
    IN  /\ \A j \in Procs \ {i} :
              bottom(j) >= proc_table[i + 1].esp \/ proc_table[j + 1].esp <= bottom(i)
        /\ proc_table[i + 1].esp <= TaskStack + STACK_SIZE_TOTAL
        /\ SumUpTo[NR_ALL_TASKS_PROC] <= STACK_SIZE_TOTAL => TaskStack <= bottom(i)

\* The segments of every process whose LDT selector fits a u8, the first 27, are
\* its own; the flags of every process let the tasks and only them use the ports,
\* and its stack is its own (protect.c 100-102, 125-141; main.c 36-79).
ProcessesApart ==
    at = "running" =>
        /\ Base(gdt[tr \div 8]) = TssAddress
        /\ \A i \in Procs :
              LET p == proc_table[i + 1]
              IN  /\ LDT_FIRST + 8 * i < 256 => OwnLdt(i)
                  /\ (p.eflags \div \h1000) % 4 >= p.cs % 4 <=> i < NR_SYS_TASKS_PROC
                  /\ StackApart(i)
=============================================================================
