# TtaoOS in TLA+

TtaoOS is a small 32-bit teaching kernel for the PC: a boot sector and a loader, a
clock-driven scheduler, rendezvous message passing between three system tasks and three
user processes, a keyboard and console driver and the beginnings of a disk driver. This
directory holds a TLA+ model of its core, TLC runs on small instances, and proofs checked
by TLAPS. File and line references are to `src/` of the repository; all definitions are
translated from the code there. `PROJECT.json` maps each definition to its lines.

To run: `tlc -config MCIpcAny.cfg MCIpc` (module and configuration of every run are
in the table below), `tlapm IpcProofs.tla`.

## 1. The system: inventory

| Component | Source | State it keeps | Operations | Modules |
|---|---|---|---|---|
| Message passing | `kernel/process.c`, `kernel/syscall.asm` | per process `p_flags`, `p_msg`, `p_sendto`, `p_recvfrom`, `has_int_msg`, and the linked list `first_sending` / `next_sending` of the senders blocked on it | `sys_send_rec`, `msg_send`, `msg_receive`, `deadlock`, `block`, `unblock`, `inform_int` | `Ipc`, `IpcInductive`, `IpcProofs`, `Rendezvous`, `IpcRefinement`, `IpcRefinementProofs` |
| Scheduler | `kernel/clock.c` | `ticks` and `priority` of each process, `p_proc_ready`, `nr_tty` | `clock_handler`, `proc_schedule` | `Sched`, `SchedProofs` |
| System task, disk driver, user processes | `kernel/systask.c`, `hd.c`, `usercall.c`, `main.c` | program counters, `open_cnt` | `task_sys`, `task_hd`, `hd_open`, `hd_cmd_out`, `waitfor`, `get_ticks`, `dev_open` | `Tasks`, `TasksProofs` |
| Console | `kernel/console.c` | `cursor`, `current_start_addr`, the second copy `cursor_table`, the registers of the CRT controller | `out_char`, `flush`, `scroll_screen`, `select_console`, `InitScreen` | `Console`, `ConsoleWriters`, `ConsoleProofs` |
| Keyboard and tty | `kernel/keyboard.c`, `tty.c`, `include/keymap.h` | the rings `kb_in` and `in_buf`, the modifier flags, `nr_current_console` | `keyboard_handler`, `get_byte_from_kbuf`, `keyboard_read`, `in_process`, `tty_do_read`, `tty_do_write`, `task_tty` | `Keyboard`, `BoundedQueue`, `KeyboardProofs` |
| Interrupt entry and exit | `kernel/process.asm`, `8259A.asm`, `8259A.c`, `main.c` | `k_reenter`, the kernel's stack, `tss.esp0`, the saved registers, the mask registers | `save`, `restart`, `sys_call`, the handler macros, `enable_irq`, `kernel_main` | `Interrupts`, `InterruptsProofs` |
| `write` and `printx` | `kernel/process.c` 31-84, `printf.c`, `lib/misc.c` | none of its own | `tty_write`, `sys_printx`, `assertion_failure` | `Interrupts` (whom the call acts for, what it stops), `ConsoleWriters` (what it writes) |
| Boot sector and loader | `boot/boot.asm`, `loader.asm` | registers, the sector being read, memory ranges and size, page tables | search of the root directory, walk of the FAT12 chain, `.MemChkLoop`, `DispMemInfo`, `SetupPaging`, `InitKernel` | `Boot`, `Loader`, `Startup`, `StartupProofs` |
| Descriptor tables, exceptions | `kernel/start.c`, `protect.c`, `protect.asm`, `main.c` | GDT, IDT, TSS, LDTs, the table of processes | `cstart`, `init_protect`, `kernel_main`, `exception_handler` | `KernelStart`, `Startup`, `StartupProofs` |
| Formatting and strings | `kernel/vsprintf.c`, `lib/` | none | pure functions | not modelled |
| File system task | `fs/main.c` | none | not in the task table; never runs | not modelled |

How they interact. A process calls `sendrec()`, which enters the kernel through `sys_call`.
The kernel executes `sti` first, so **the C code of a system call is interrupted** by the
clock, the disk and the keyboard; what saves it is that a process switch happens only at the
end of a clock interrupt that came from user level, or in `block()`. The disk interrupt calls
`inform_int(TASK_HD)`, which changes the same process-table fields the interrupted call is
working on. The keyboard interrupt only writes to `kb_in`, which `task_tty` polls; task_tty
decodes, switches consoles and echoes through `out_char`, which user processes also reach
through `write`. `proc_schedule` copies the current console into the process it picks.
The disk driver serves `dev_open` messages, waits for the disk by polling `get_ticks()`
of the system task, and sleeps in `interrupt_wait()`.

What makes it hard: `inform_int` between any two statements of a call; receivers that
unlink a sender from the head, middle or tail of a queue; circles of senders of any
length; a scheduler loop with no idle process, whose result variable is live while the loop
runs; a producer and a consumer on a ring with interrupts switched off for only part of
the consumer; a cursor that is kept twice, and two processes that move it; handlers that nest
in handlers and in system calls on one stack, with a counter to tell them apart; interrupts
that come while the kernel still initialises itself; 12-bit table entries across sectors.
`PROJECT.json` lists the hazards one by one with the properties that cover them.

What makes each part correct, in a sentence:

* message passing: a sender and a receiver that can meet do; nobody is lost from a queue; no
  circle of senders; no interrupt is lost; no assertion fails but those named;
* scheduler: only a ready process runs, every ready process runs, the loop ends;
* tasks: no protocol error stops the system, every user call returns;
* console: the consoles never touch each other's memory, the registers of the controller
  follow, and operations interleaved with other processes' printing are still operations;
* keyboard: what is echoed is what was typed, in order, on the console of the moment;
* interrupts: a process goes on where it was, the result of a call goes to its caller, only the
  outermost activation switches, the stack is bounded, no line stays masked;
* boot: the file is loaded whole and in order, usable memory is mapped, the kernel's segments
  are where they were linked; every process has its own memory and its own privilege, and an
  exception is reported as what it was.

## 2. The modules

### Ipc — `kernel/process.c`
The process table field by field and the queue of blocked senders as the linked list it is.
One system call is a walk through `pc`; it is cut exactly where `inform_int` can tell the
difference, and `HdInterrupt` is enabled between any two of the steps:

| Step | Code |
|---|---|
| `SysSend`, `SysReceive` | `sys_send_rec` 123-147 |
| `DeadlockStep` | one round of the loop in `deadlock` 98-121 |
| `SendMatch`, `SendAddress`, `SendCopy`, `SendClear`, `SendWake` | `msg_send` 159-177: the receiver waits; the address of its buffer is read before the bytes are copied |
| `SendEnqueue`, `SendTail` | 179-194: it does not; one round of the walk to the tail |
| `ReceiveCheck`, `ReceiveInt`, `ReceiveIntDone` | `msg_receive` 207-257: a pending interrupt first |
| `ReceiveFromZero`, `ReceiveSearch`, `ReceiveTake` | 235-303: a waiting sender, unlinked from the head or from behind `prev` |
| `ReceiveMark` | 306-312: nobody waits |
| `Block`, `BlockExit` | `block` and the assertions after it |
| `HdInterrupt` | `inform_int` 354-375 |

Every `assert` and `panic` on these paths is a transition to `pc = "halt"` that records its
name in `fault`. Conventions and abstractions:

* `NilPid` is the value of `proc2pid(0)`, a number the layout of the image determines; it
  lies outside the process table, and is assumed different from every pid and special value.
* `p_msg` keeps only whether the address is 0, the message itself is in `buf`. A message is its `source` and its
  `type`; `GARBLED` is a source put together from the bytes of two.
* `SendCopy` stands for the time from the reading of the address to the last byte. If IRQ 14 woke the receiver in that
  time, the buffer ends up with what the interrupt wrote, with the message, or with a part of each (`Mixed`).
* `inform_int` is one step: its own line is masked while it runs, and the clock and keyboard
  handlers do not touch these fields.
* The three stores of 306-312 are one step: an interrupt between them finds, as before
  them, a process that is not `RECEIVING` from it.
* The assertion of `block()` and its `proc_schedule` are one step, which may choose any
  runnable process (`Runnable`); how it chooses is `Sched`, whose `ReadyRuns` justifies it.
* `Sends` and `Receives` say who calls whom. `SEND` to `ANY` or `INTERRUPT` is
  not modelled: no caller does it. Only the disk driver receives from `INTERRUPT`, after
  `hd_cmd_out`. With `Spurious = TRUE` IRQ 14 may also come without a command: only then can it meet a copy to the
  driver (`SendMeansDelivered` is checked and proved without, `QueueInv` and the refinement also with it).

### Rendezvous, IpcRefinement
What `sendrec` promises: a first-in first-out queue per destination, a send is over
when the message is in the receiver's hands, a receive takes the oldest message of
whoever it names, a send is refused exactly when it closes a circle. `IpcRefinement` maps
lists to sequences and flags to waits and states `ImplementsRendezvous == Abstract!Spec`.
The abstract module also says that a receiver of `INTERRUPT` may be left sleeping with the
interrupt pending, because the code does that (see Findings). One more liberty is there only if the device may
interrupt `Unasked`: when it wakes the driver while the running process hands it a message, that process is `late`
until its copy is over, and `Spoil` leaves the driver with the interrupt's message, the sender's or a mixture.

### Sched — `kernel/clock.c`
`clock_handler` and both loops of `proc_schedule`, one process per step (`ScanVisit`,
`ScanNobody`, `RefillVisit`, `RefillEnd`, `ScanDone`), because the disk interrupt may
make the driver ready, and a nested clock interrupt may take a tick, between two visits.
`CallWakes` and `CallBlocks` over-approximate `Ipc`: any call may wake any blocked process.
`MinTicks` bounds how far nested clock interrupts may count down a process's ticks.

### Tasks — `systask.c`, `hd.c`, `usercall.c`, `main.c`
`EXTENDS Ipc`: the programs of the image as program counters `at` over the calls of `Ipc`.
`TestA` opens the disk once and then, like `TestB`, calls `get_ticks()` for ever; `task_sys`
answers; `task_hd` receives, serves `hd_open` and polls in `waitfor()`. The contents of
the disk are left out, and with them the assertion on the number of partitions and the
`printf` of the identification. `Returned` is user level behind a call; `CallsReturn` claims it from before the `SEND` of
`dev_open()` (`at = "open"`) and from the `SEND` of `get_ticks()` on, and that from there the next call follows. `TestC` and `task_tty` never call the kernel and
are represented by the one busy process.

### Console — `kernel/console.c`
Addresses count cells. `NewLine`, `Backspace` and `Character` are whole calls of `out_char`
with the scrolling, `flush()` and register writes that end it (`Settle`); `ScrollScreen`
and `SelectConsole` are what `tty.c` calls. `stored` remembers the cell of the last store.
### ConsoleWriters
The same code as the compiler leaves it (the kernel is built without optimisation): each load of
a variable that another process may change, and each store, is a step of `task_tty`, from `pc` to
`pc`; `eax` and `p_vmem` are its registers and locals. `PrintChar` is a character that `tty_write` or
`sys_printx` puts on the current console in between, as one step: interrupts do not switch processes
within a system call. `task_tty`, at user level 1, may lose the CPU at any instruction. `Look` shows
what the fine-grained variables add up to, and `ImplementsConsole` says that this is a behaviour of
`Console`. It holds when characters are printed only between the operations of `task_tty` (`Overlap =
FALSE`); with `Overlap = TRUE`, as in the code, see finding 3.

### Keyboard, BoundedQueue — `kernel/keyboard.c`, `kernel/tty.c`
The user and the keyboard are external: a key sends the bytes of scan code set 1 that
`keymap.h` and `keyboard_read` expect, one interrupt per byte. `get_byte_from_kbuf` is
two steps, with the handler kept out in between by `disable_int()` (`InterruptsOn`; the
mutant of that guard breaks the ring). `keyboard_read` collects a scan code in `got`, so
that the handler runs between its bytes, then `Decode` does the rest: modifiers, console
switches, and `put_a_key`. `TtyDoWrite` echoes one character and goes on to the
next TTY. `BoundedQueue` is what `kb_in` promises, a first-in first-out queue that drops
what does not fit. `typed`, `wanted`, `down` and `dropped` are history: what the user
typed, the console he asked for, the keys he holds, whether a byte was lost.

### Interrupts — `process.asm`, `8259A.asm`, `8259A.c`, `main.c`
The processor at the level of activations: `stack` holds those of the kernel, `kernel_main` or the first
after user level at the bottom. `Save` is `save` with what leads to `sti`; `Return` is `cli` and `ret` to
`restart` or `restart_reenter`; `Iret` takes the registers from where `esp` points. `Interrupt(l)` may come
whenever the flag is on and neither 8259A masks the line; `SysCall`, `PushArgs`, `Body` and `CallExit`
are `sys_call` cut where interrupts are on. The kernel calls `printx` itself (`Nested`): for a failed assertion
(`KernelAssert`), and from `sys_send_rec` for the circle that `deadlock()` found and for `panic` (`KernelPrint`); the
interrupted call goes on only after the circle.

`kernel_main` runs with interrupts on from `Init_Tty` (its `set_cursor` ends with `sti`), so that
`disable_irq` and `enable_irq` (`MainPut`, `MainMask`; `MainRead`, `MainWrite`) are interrupted between their read and
their write, and so is `restart`, which loads `esp` with the process table: then the state is `"wild"`. It is so, too,
if an interrupt finds `k_reenter` at -1 before `kernel_main` has set it (`Overwrites`): `save` then starts the stack
again on top of `kernel_main`'s frame. Nothing sets it to 0 before, since the loader copies only what the file holds:
`Leftover` is what memory may have there. What the handlers and
calls do otherwise is `Ipc`, `Sched`, `Console` and `Keyboard`; here they at most choose `p_proc_ready`.
Registers are a bit that the process's own instructions flip, and `eax`. `done` is history.

### Boot, Loader, KernelStart, Startup — `boot/`, `start.c`, `protect.c`, `protect.asm`, `main.c`
The boot sector and the loader load their file by the same code, so `Boot` stands for both. A disk
is where the file's entry lies in the root directory and the chain of clusters in order;
`Entry` and `FatByte` lay out the table as FAT12 packs it, and `GetFATEntry` takes it apart as the code
does, from sectors the BIOS finds by cylinder, head and sector (`Chs`, `Found`). `bx` counts from where the file goes, which
is offset 100h for `LOADER.BIN` and 0 for the kernel. The BIOS does not read past the end of a track (`OneTrack`), and `RdSector` repeats what fails.
`Loader` puts the E820 loop before it and the walk over the ranges, the page tables and the copy of the ELF
segments behind it; `FileByte` is what lies at an offset of the file as it was loaded, a sector and a byte in it.
What lies behind the room of `_MemChkBuf` is unknown (`Slot`). `End` wraps to 32 bits as the addition does. `runaway` is
a `loop` that began with 0.
`KernelStart` goes on from the entry of the kernel: descriptors field by field, gates by their privilege,
the table of processes with stacks from an array of `STACK_SIZE_TOTAL` bytes, and from `kernel_main` on every exception and every `int n` of a process, with
what the stub finds on the stack. `Startup` puts the two one behind the other.

## 3. The runs

| Run | Configuration | States | Shows |
|---|---|---|---|
| `ipc_any` | `MCIpcAny` | 172 525 | three callers, everyone to everyone, with the disk interrupt: `NoSendCycle`, `NoMissedRendezvous`, `AssertionsHold`, `IrqNotLost`, `SendMeansDelivered`, `CallsEnd`, and the refinement of `Rendezvous` |
| `ipc_queue` | `MCIpcQueue` | 92 445 | three senders on one receiver that takes them by name or in order, with IRQ 14 also unasked, between the address of a copy and its last byte too: `QueueInv`, refinement (first in, first out) |
| `ipc_early_interrupt` | `MCIpcEarlyInt` | violation | finding 1 |
| `ipc_interrupt_notifies` | `MCIpcNotify` | violation | finding 2 |
| `sched` | `MCSched` | 60 232 | safety and liveness of the scheduler: `ReadyRuns`, `OutputFollowsUser`, `NoEarlyRefill`, `ScheduleEnds`, `NoStarvation` |
| `tasks` | `MCTasks` | 96 191 | two user processes, `task_sys`, `task_hd`: `OnlyDiskStops`, `OwesOne` |
| `tasks_return` | `MCTasksReturn` | 6 113 | `TestA`'s `dev_open()` and every `get_ticks()` return (`CallsReturn`) |
| `interrupts` | `MCInterrupts` | 865 032 | a task and a user process, four lines, from `kernel_main` on, whatever `k_reenter` was: `NestingBounded`, `NoLineLost`, `ContextKept`, `ResultIsMine`, `CallerServed`, `SwitchAtBottom`, `FrameSafe` |
| `console` | `MCConsole` | 620 464 | statement by statement, with printing between the operations: `ConsolesApart`, `StoresInside`, `TypingKeepsVisible`, `ImplementsConsole` |
| `console_writers` | `MCConsoleWriters` | violation | finding 3 |
| `keyboard` | `MCKeyboard` | 560 576 | `EchoFollowsTyping`, `RestAgrees`, `ReadEnds`, `KbInIsQueue` |
| `startup` | `MCStartup` | 417 002 | from the floppy to the processes: `FileLoaded`, `NoFileIfAbsent`, `LoadEnds`, `MemoryMapped`, `RunawayExplained`, `KernelInPlace`, `ProcessesApart`, `ReportIsTrue` |

Type invariants are proved, not checked; the properties of the table are the ones that say something.

Bounds, and why they suffice:

* `Ipc`: three processes that may call (plus a busy one the scheduler can always fall back to)
  give circles of length two and three, a queue of two, and every order of arrival. A queue with
  a head, a middle and a tail needs three senders; with everyone calling everyone that is too
  large, so `ipc_queue` fixes the pairs. One message type: the kernel does not look at it.
  The proofs lift all bounds.
* `Sched`: two processes that block (one of them the disk driver) and two that never do,
  a share of two ticks, nested clock interrupts down to 0.
* `Tasks`: two clients for safety, one for liveness, where each further process adds two
  strong fairness conditions.
* `Console`: lines of two cells, a screen of two lines, ten lines per console, so that the window
  has room above and below; two consoles, one of which borders on the other from below, where backspace
  goes. The proofs lift the bounds.
* `Interrupts`: one process on either side of the boundary `sys_printx` draws, two lines of the master, the
  cascade and one line of the slave, and the calls that may switch, print or fail. `k_reenter` is left at -2, -1 or 0:
  -1 is found by an interrupt nested in another, by the first one, or by none. Nesting is counted in activations, not in bytes.
* `Keyboard`: a ring of two bytes makes the handler overflow in the middle of every long scan
  code; one slot of `in_buf` is the smallest, and suffices, since `task_tty` echoes before it reads on. `KeySets` bounds which keys a behaviour uses: the console keys with modifiers
  that need `E0`, or shift with PrintScreen and Pause, the long codes. After a byte was lost
  only `KeysAfterLoss` are pressed, and what is echoed is no longer compared.
* `Startup`: sectors of four bytes put an entry across two sectors in every table; chains of up to four
  sectors over four clusters, in any order; a segment of three sectors, so that the longest files wrap;
  tracks of five sectors, so that the root directory and the data lie on other tracks and heads than the
  table. Two ranges fit into the buffer, up to three are reported: low and high memory, a hole, ranges that end at
  and pass the end of the address space, also alone. Any disk goes with the plainest BIOS, any BIOS with one disk: what they do
  meets in no variable. Two kernels: one segment, and two with a gap and an entry to be left out.

### Fairness
* `Ipc`: the processor goes on executing the kernel (`WF` on its steps).
* `Sched`: `WF(ProcSchedule)` likewise. `SF(ClockUser)`: a system call takes microseconds and
  the clock ticks every 10 ms, so a process that keeps coming back to user level is found
  there by the clock again and again. Weak fairness is not enough: TLC then shows a process that
  is always in the kernel when the clock ticks.
* `Tasks`: `WF` on the kernel and on the disk; `SF(SwitchTo(p))` and `SF(Step(p))`: every ready
  process gets the CPU (`Sched!NoStarvation`), and long enough to take its next step.
* `Keyboard`: `task_tty` never blocks and so is never starved; a keyboard that began a scan code
  sends the rest. Nothing is assumed of the user.
* `Startup`: one processor whose course interrupts do not change; only loading the file is claimed to end.

## 4. Findings

1. `process.c:319` asserts `has_int_msg == 0` after a receive. IRQ 14 between the test on
   line 216 and the blocking of the receiver sets it, and the kernel stops
   (`ipc_early_interrupt`, nine states). `AssertionsHold` therefore allows `"intmsg"`.
2. `inform_int` is documented to tell the process of the interrupt, and tests
   `p_recvfrom == INTERRUPT`; but `msg_receive` stores `proc2pid(p_from)` with `p_from` still
   0 (line 311), so a driver that already sleeps in `interrupt_wait()` is not
   woken (`ipc_interrupt_notifies`). `CallsReturn` shows that the user processes do not notice.
3. `out_char` keeps the address it will store to (`p_vmem`, `console.c:52`) while another process, scheduled in the
   middle of `task_tty`'s echo, may move the cursor of the same console. A backspace at the first cell then finds the
   cursor moved, and clears the cell before the old address: the last one of the console before
   (`console_writers`).

Also visible in the model: `assert(src)` makes a receive from process 0 by name stop the
system (`"src0"`, no program of the image does it); an IRQ 14 that nobody asked for, between the address and the end of a copy
to the driver, wakes the driver and leaves it a message put together from two (`Rendezvous!Spoil`); the right Alt key sets the flag of
the left one (`keyboard.c:159`), without observable effect; a file longer than 64 KB is loaded over itself
(`FileLoaded` says which sectors survive); `DispMemInfo` after a failed E820, and `SetupPaging` with no usable
memory, count from 0 down to 0 (`pc = "runaway"`, which `RunawayExplained` confines to these cases). A usable range that
ends exactly at 4 GB ends at 0 for the loader: it is not mapped beyond what the others need, and if there is no other
the loader runs away with it (`MemoryMapped` and `RunawayExplained` leave these ranges out and say so; no document of the
repository promises more, so this is no finding). More
ranges than the buffer holds are overwritten by the stack; both properties speak of those it holds. `sys_printx` stops the system for a failed assertion of
the first user process too, since `process.c:60` compares with `<=` (`Interrupts!Stops`), where `lib/misc.c:34-37`
speaks of tasks only. An interrupt that comes while `kernel_main` enters the first process overwrites the
process table, and one that comes before it has set `k_reenter`, which is in `.bss` and zeroed by nobody, overwrites
`kernel_main`'s own frame if there happens to be -1 (`state = "wild"`, which `FrameSafe` confines to the time before the
first process). After the user has scrolled away
from the cursor, `flush()` displays a window it does not record in `current_start_addr`.

## 5. The proofs

All theorems hold for every value of the constants that the named `ASSUME`s allow; TLC
evaluates these assumptions in every run.

**IpcProofs** (assumes: `HD` is a process that is not busy, some process never blocks,
`NilPid` is no pid, pairs and types are of the right sort). The inductive invariant `IInv`
of `IpcInductive` is proved part by part, each assuming the ones before:

* `Inv1`: types; the fields of a process agree with its flags (`Shape`); the call in
  progress belongs to the running process and fits its `pc` (`CallOK`).
* `Inv2`: every list holds exactly the blocked senders of its owner (`QueueInv`), the
  searches stand inside it, and what a search has passed does not contain the sender it
  looks for. A list is characterised without sequences or induction: it is closed under
  `next`, injective, nothing points to the head, and every set that contains the head and
  is closed under `next` contains it all. `ListFrame`, and the lemmas on linking and unlinking, are
  about this predicate alone.
* `Inv3`: no set of processes all send into itself. While `deadlock()` walks, a set `V` that the
  walk has left behind contains everything `peer` sends to, but not the caller; when the walk
  ends that set is closed, so that adding the caller's edge closes no circle.
* `Inv4`: no two blocked processes could meet. It needs `Inv2`: a receiver that found its
  list empty has no sender.
* `Inv5` (without spurious interrupts): a command's interrupt is outstanding, or noted in
  `has_int_msg`, or being handed over, so that no interrupt can find the receiver of a copy.

It follows: `TypeCorrect`, `QueuesIntact`, `NoSenderCircle`, `NothingMissed`,
`AssertionsSafe`, `RunningReady`, `InterruptKept` and, where `~Spurious`, `Delivery`.

**IpcRefinementProofs**: `sendrec` on lists, flags and buffers implements `Rendezvous` (`SendrecIsRendezvous`), whatever
the constants, `Spurious` included, where `Rendezvous` has the liberty described above (a step of the device that
meets a copy is `Interrupt` with the sender `late`, the end of the copy is `Spoil`). Beyond `IInv` the mapping needs `RInv`: each destination's list is one sequence of
distinct processes along `next_sending` (`Chained`), the buffers that matter name their writers, a pending interrupt is
the driver's, and `deadlock()` is inside every set that holds the receiver and everything its members send to, so that
a circle it finds is one the abstract queue has. Each group of steps of the code has a lemma that gives it its abstract
action, or shows that the mapping does not move: linking appends to the abstract queue, unlinking from anywhere takes
out the element at the place the search has reached. `ListFrom` is a recursive function; what it yields is shown for
the least length at which it would yield anything else (`LeastNat`, by well-foundedness of `<`).
`LoopsAdvance` is an action property of the loops of `deadlock()`, of the walk to the tail and of the search by name:
each turn leaves a process behind for good, whatever interrupts come between two turns. That bounds them by
`NProc` turns, and is the part of `CallsEnd` that can be proved.

**TasksProofs** shows that every step of the programs is a step of `Ipc` or a stutter (`ImageIsIpc`), so that these
theorems hold of the image (`ImageRendezvous`). Where `~Spurious`, `TalkOK` says what sender and receiver know of each
other: a process that sends, or blocks in a receive, is where its program sends to, or receives from, that partner, and
whoever's request `task_sys` holds waits for the answer and takes no other message before it. A receiver therefore
finds only types it knows, and `deadlock()` never comes back to its caller: `DiskOnly` and `OneOwed`. An interrupt nobody
asked for would reach `task_hd` in the receive from anyone that begins its loop, which `~Spurious` excludes.

**SchedProofs**: `ReadyRuns` is not inductive. The invariant says what is true inside the loops:
the process chosen so far is ready; the ready processes passed without a choice have no
ticks left, except the disk driver, whose interrupt may have come behind the scan. With it:
`TypeCorrect`, `OnlyReadyRun`, `OutputFollows`, and the action property `SharesUsedUp`.

**ConsoleProofs**: consoles and windows begin on lines (`Aligned`), because `InitScreen` rounds
the share of a console to whole lines. Two addresses that begin lines differ by a line at least,
so a window that moves by one line while it is not at the end does not pass the end.
The module proves first that `ConsoleWriters`, one load or store at a time, implements `Console` (`StatementsAddUp`). Hence
`TypeCorrect`, `Apart`, `Inside` (of every single store), `CursorFollows`, `TypingVisible`, for any screen and memory
size, all of `WritersSpec`. `WInv` says of every `pc` what the call has already
written, what is in the registers, and which of its tests have been passed, in terms of the console the call began
with. All these theorems assume `~Overlap`: otherwise they are false, as finding 3 shows.

**KeyboardProofs** (assumes: the rings have a place, the keys of `KeySets` are keys of the keyboard). `RingInv` places the
bytes that wait in `kb_in` between its pointers, also while `get_byte_from_kbuf` has taken one and not counted it; with
it `kb_in` implements `BoundedQueue` (`KbInImplementsQueue`). `EchoInv` says, unless a byte was dropped, that what
`keyboard_read` has collected, what waits and what is still on the wire is a *run*: scan codes of whole keys, the first
perhaps begun, that lead from the modifiers and the console `task_tty` goes by to those the user has reached, and that
make appear exactly what was typed and is not yet shown. A key pressed lengthens the run at its end, a scan code decoded shortens it at its front.
The runs are the least set closed under adding a key, so that no length appears in the proof. Hence
`EchoesWhatWasTyped`, and `RestsInAgreement`: a run of no bytes leads nowhere.

**InterruptsProofs** (assumes: lines are lines, the clock belongs to the master, the cascade is enabled by
`Init_Hd`, `Leftover` is any set of integers). `Inv1`: types; an activation's return address, where it saved the
registers and the argument it pushed fit its place on the stack (`FrameOK`), and the pointers fit what runs (`Flags`);
with it goes `k_reenter = depth - 1`, or as many more or less than what was left there until `kernel_main` sets it
(`ReenterIsDepth`). `Inv2`: the lines masked are those not enabled yet and those being handled, also with a copy of
the register in `kernel_main`'s hands, because a handler that came in between has put back what it found;
hence no line nests in itself, and the depth is bounded by counting, an injection of the activations into lines
and calls (activations: the bytes of each are the compiler's, and are not compared with the 2 KB of the stack). `Inv3`: registers and results. Nine theorems follow, an action property among them.

**StartupProofs** (assumes: the table's entries are on it, a segment is whole sectors, the table lies on one track, sizes
are positive, the BIOS reports natural numbers, a kernel has program headers, the GDT has a descriptor for every
process, addresses have 32 bits).
The first part is about `Boot`. Its lemmas compute: the byte pair at `3n / 2` of a table that packs `Entry` gives back
`Entry(n)`, whether it lies in one sector or across two (`EntryRead`); a sector's cylinder, head and number lead back to
it. `BInv` then says that the walk is at `chain[i]`, and that `memory` holds each of the first `i` sectors except those a
later one has wrapped over. It follows: `Absent`, `LoadedInPlace`, for every sector size, chain and segment.

The second part takes `StartupSpec`, the whole way from the BIOS to the processes, and uses the step of `BInv` for the
part that loads the file, so that `KernelLoaded` holds of the loader too. `MemInv`: the buffer repeats the BIOS's ranges,
and the walk, which counts `ecx` down, has taken into `dwMemSize` the ends of the `dwMCRNumber - ecx` ranges before it;
rounding up gives `AllMapped`, for what ends below 4 GB, and a walk or a number of tables that starts from 0
`RunawayOnly`, which needs that every usable end is 0 modulo 4 GB. `KernelInv`: the
segments before `esi` are in place, and none is overwritten by a later one, since they do not overlap; with the
remainders of the first part the bytes are those of the file's sectors (`KernelLinked`). `TablesInv`: no process is in
ring 0 and the gates keep `Privilege`, so that no `int` instruction gets through a gate for which the stub expects an
error code (`Reported`). `DescriptorInv`: the descriptors are, byte by byte, those of the TSS and of each
process's LDT, and the processes made so far have their own selectors and stacks. The base address is put together again
from the three fields it is split into, and the sums of stack sizes, computed by a recursive function, are ordered by the
least index at which they would not be: `OwnSegments`. The stacks are apart for any number of processes, and inside
`task_stack` if that is as long as their sum, which is a premise and not the definition of its length. Each process's
LDT lies in its own entry of the table as long as its selector fits the `u8` it is counted in, which is so for the first
27 processes; of the others nothing is claimed.

**Left to TLC**: liveness, which needs fairness and ENABLED: `CallsEnd`, `ScheduleEnds`, `NoStarvation`, `CallsReturn`,
`ReadEnds`, `LoadEnds`. Every other property of a passing run, refinements included, is stated by a theorem, some of them
under a condition the run's configuration fulfils (`Delivery`, `DiskOnly`, `OneOwed` need `~Spurious`, those of
`ConsoleProofs` need `~Overlap`).

## 6. What is not modelled, and what could follow

* Formatting (`vsprintf.c`, `klib.c`) and the string routines: pure functions, whose one hazard, the buffer `printf`
  hands on uninitialised, has no outcome a model could bound.
* The disk's data (identification, partition table) and with it the assertion on the number of partitions; the
  dialogue of `set_leds` with the 8042; the A20 line, the motor and the messages of the boot programs.
* Chains of clusters end with `FFFh`, the only end the code knows (`boot.asm:130`); FAT12 allows `FF8h` to `FFEh` too, and
  on those the boot programs would run on. The table lies on one track, as it does on the disk that `fat12hdr.inc`
  describes (two sectors and nine, of eighteen).
* What memory holds in `.bss` is modelled for `k_reenter`; other variables there are set before anything reads them, or
  are taken to be what `kernel_main` makes of them.
* The bytes that nested activations need are not compared with the kernel's stack, only their number is bounded.
* `fs/main.c` never runs.
* The kernel's statements between two `sti` instructions are cut where other code can tell the difference, not
  one by one; in `ConsoleWriters` only `task_tty`, which can lose the CPU, is cut at every access to memory.
* An exception is fatal in this kernel, so nothing that comes after one is modelled.

What could follow, most important first: the printing of a process that was itself scheduled away between two of its
characters; measures like that of `LoopsAdvance` for the other loops that liveness is claimed of, `proc_schedule`
(`ScheduleEnds`), `keyboard_read` (`ReadEnds`) and the walk of the chain (`LoadEnds`); the `Overlap` of two writers
with a weaker promise than `Console`, which says what finding 3 can destroy and what not.
