--------------------------- MODULE ConsoleWriters ---------------------------
(***************************************************************************)
(* The consoles of TtaoOS statement by statement, with two writers:        *)
(* task_tty, which echoes, scrolls and switches outside the kernel and may *)
(* lose the CPU between any two accesses, and a process that prints, whose *)
(* tty_write or sys_printx runs in the kernel, where nobody else gets the  *)
(* CPU (Interrupts!SwitchAtBottom), so that each of its characters is one  *)
(* step of Console.                                                        *)
(*                                                                         *)
(* The names of Console stand for what was in the memory when task_tty was *)
(* last between two operations; m_ marks what is there now.  A step is one *)
(* load or store of it (the code is compiled without optimisation), and    *)
(* eax stands for a value loaded.  The two bytes of a cell are one store.  *)
(***************************************************************************)
EXTENDS Console

CONSTANTS
    UINT,       \* what unsigned int counts to, 2^32 in the code
    Overlap     \* whether something may be printed within an operation of task_tty

ASSUME WritersAssumption ==
    UINT \in Nat /\ V_MEM_SIZE + SCREEN_SIZE < UINT /\ Overlap \in BOOLEAN

VARIABLES
    m_cursor, m_start, m_table, m_current, m_crtc_cursor, m_crtc_start, m_stored,
    op,         \* what task_tty does: a character it echoes, "up", "down", "select"
    pc,         \* where it is in it
    eax, p_vmem
mem  == <<m_cursor, m_start, m_table, m_current, m_crtc_cursor, m_crtc_start, m_stored>>
task == <<op, pc, eax, p_vmem>>

Now == INSTANCE Console WITH
           cursor <- m_cursor, current_start_addr <- m_start, cursor_table <- m_table,
           nr_current_console <- m_current, crtc_cursor <- m_crtc_cursor,
           crtc_start <- m_crtc_start, stored <- m_stored

U(x) == x % UINT
nr   == m_current       \* only task_tty changes it: the console of its call

WritersInit == Init /\ Now!Init /\ op = "none" /\ pc = "idle" /\ eax = 0 /\ p_vmem = 0

-----------------------------------------------------------------------------
(* The steps, from here to there                                           *)

Goto(here, there) ==
    pc = here /\ pc' = there /\ op' = IF there = "idle" THEN "none" ELSE op

Load(here, there, v) ==
    Goto(here, there) /\ eax' = v /\ UNCHANGED <<mem, p_vmem>>

\* The last load of a condition, and its outcome.
Test(here, cond, yes, no) ==
    Goto(here, IF cond THEN yes ELSE no) /\ UNCHANGED <<mem, eax, p_vmem>>

StoreCell(here, there, cell) ==
    /\ Goto(here, there) /\ m_stored' = [console |-> nr, cell |-> cell]
    /\ UNCHANGED <<m_cursor, m_start, m_table, m_current, m_crtc_cursor, m_crtc_start,
                   eax, p_vmem>>

StoreCursor(here, there, v) ==
    /\ Goto(here, there) /\ m_cursor' = [m_cursor EXCEPT ![nr] = v]
    /\ UNCHANGED <<m_start, m_table, m_current, m_crtc_cursor, m_crtc_start, m_stored,
                   eax, p_vmem>>

StoreTable(here, there, v) ==
    /\ Goto(here, there) /\ m_table' = [m_table EXCEPT ![nr] = v]
    /\ UNCHANGED <<m_cursor, m_start, m_current, m_crtc_cursor, m_crtc_start, m_stored,
                   eax, p_vmem>>

StoreStart(here, there, v) ==
    /\ Goto(here, there) /\ m_start' = [m_start EXCEPT ![nr] = v]
    /\ UNCHANGED <<m_cursor, m_table, m_current, m_crtc_cursor, m_crtc_start, m_stored,
                   eax, p_vmem>>

\* set_cursor and set_video_start_addr, interrupts off.
SetCursor(here, there) ==
    /\ Goto(here, there) /\ m_crtc_cursor' = eax
    /\ UNCHANGED <<m_cursor, m_start, m_table, m_current, m_crtc_start, m_stored, eax, p_vmem>>

SetStart(here, there, v) ==
    /\ Goto(here, there) /\ m_crtc_start' = v
    /\ UNCHANGED <<m_cursor, m_start, m_table, m_current, m_crtc_cursor, m_stored>>
    /\ IF there = "idle" THEN eax' = 0 /\ p_vmem' = 0 ELSE UNCHANGED <<eax, p_vmem>>

-----------------------------------------------------------------------------
(* task_tty                                                                *)

\* in_process and tty_do_write begin something new.
Begin ==
    /\ pc = "idle" /\ m_stored' = NoStore
    /\ UNCHANGED <<m_cursor, m_start, m_table, m_crtc_cursor, m_crtc_start, eax, p_vmem>>
    /\ \/ op' \in {"x", "newline", "backspace"} /\ pc' = "out_char" /\ UNCHANGED m_current
       \/ op' \in {"up", "down"} /\ pc' = op' /\ UNCHANGED m_current
       \/ op' = "select" /\ pc' = "select" /\ m_current' \in Consoles

Enter ==
    /\ pc = "out_char" /\ p_vmem' = m_cursor[nr] /\ pc' = op
    /\ UNCHANGED <<mem, op, eax>>

\* case '\n'
NewLineSteps ==
    \/ Test("newline", m_cursor[nr] < End(nr) - SCREEN_WIDTH, "nl_load", "tail")
    \/ Load("nl_load", "nl_store", m_cursor[nr])
    \/ StoreCursor("nl_store", "tail", original_addr(nr) +
                   SCREEN_WIDTH * (U(eax - original_addr(nr)) \div SCREEN_WIDTH + 1))

\* case '\b' and default, which end alike.
CellSteps ==
    \/ Test("backspace", Now!CanGoBack(nr), "bs_load", "tail")
    \/ Load("bs_load", "bs_store", m_cursor[nr])
    \/ StoreCursor("bs_store", "bs_cell", U(eax - 1))
    \/ StoreCell("bs_cell", "table", p_vmem - 1)
    \/ Test("x", Now!HasRoom(nr), "cell", "tail")
    \/ StoreCell("cell", "table", p_vmem)
    \/ Load("table", "table_store", m_table[nr])
    \/ StoreTable("table_store", "copy", IF op = "backspace" THEN U(eax - 1) ELSE eax + 1)
    \/ Load("copy", "copy_store", m_table[nr])
    \/ StoreCursor("copy_store", "tail", eax)

\* Is the cursor in the window?  A bug: the cell after it counts as in it.
LateTailSteps ==
    \/ Load("tail", "tail_up", m_cursor[nr])
    \/ Test("tail_up", eax < m_start[nr], "up", "tail2")
    \/ Load("tail2", "tail_down", m_cursor[nr])
    \/ Test("tail_down", eax > m_start[nr] + SCREEN_SIZE, "down", "flush")
TailSteps ==
    \/ Load("tail", "tail_up", m_cursor[nr])
    \/ Test("tail_up", eax < m_start[nr], "up", "tail2")
    \/ Load("tail2", "tail_down", m_cursor[nr])
    \/ Test("tail_down", eax >= m_start[nr] + SCREEN_SIZE, "down", "flush")

\* scroll_screen, from out_char or from in_process.
UpSteps ==
    \/ Test("up", m_start[nr] > original_addr(nr), "up_load", "up_shown")
    \/ Load("up_load", "up_store", m_start[nr])
    \/ StoreStart("up_store", "up_shown", U(eax - SCREEN_WIDTH))
    \/ Load("up_shown", "up_set", m_start[nr])
    \/ SetStart("up_set", IF op = "up" THEN "idle" ELSE "tail2", eax)
DownSteps ==
    \/ Test("down", m_start[nr] + SCREEN_SIZE < End(nr), "down2", "down_shown")
    \/ Test("down2", m_cursor[nr] > SCREEN_WIDTH + original_addr(nr), "down_load", "down_shown")
    \/ Load("down_load", "down_store", m_start[nr])
    \/ StoreStart("down_store", "down_shown", eax + SCREEN_WIDTH)
    \/ Load("down_shown", "down_set", m_start[nr])
    \/ SetStart("down_set", IF op = "down" THEN "idle" ELSE "flush", eax)

FlushSteps ==
    \/ Load("flush", "flush_set", m_cursor[nr])
    \/ SetCursor("flush_set", "flush_table")
    \/ Load("flush_table", "flush_store", m_cursor[nr])
    \/ StoreTable("flush_store", "show", eax)
    \/ Load("show", "show_above", m_cursor[nr])
    \/ Test("show_above", eax < m_start[nr], "above", "show2")
    \/ Load("show2", "show_below", m_cursor[nr])
    \/ Test("show_below", eax > m_start[nr] + SCREEN_SIZE, "below", "inside")
    \/ Load("above", "above_set", m_cursor[nr])
    \/ SetStart("above_set", "idle", SCREEN_WIDTH * (eax \div SCREEN_WIDTH))
    \/ Load("below", "below_set", m_cursor[nr])
    \/ SetStart("below_set", "idle", SCREEN_WIDTH * (eax \div SCREEN_WIDTH + 1) - SCREEN_SIZE)
    \/ Load("inside", "inside_set", m_start[nr])
    \/ SetStart("inside_set", "idle", eax)

\* select_console
SelectSteps ==
    \/ Load("select", "select_set", m_cursor[nr])
    \/ SetCursor("select_set", "select2")
    \/ Load("select2", "select2_set", m_start[nr])
    \/ SetStart("select2_set", "idle", eax)

TaskTty == Begin \/ Enter \/ NewLineSteps \/ CellSteps \/ TailSteps \/ UpSteps \/ DownSteps
           \/ FlushSteps \/ SelectSteps

\* tty_write or sys_printx: a character on the console its process was given
\* when it got the CPU, the current one (Sched!OutputFollowsUser).
PrintChar ==
    /\ pc = "idle" \/ Overlap
    /\ Now!NewLine(nr) \/ Now!Character(nr)
    /\ UNCHANGED task

\* What a bystander sees of it.
Look == IF pc' = "idle"
        THEN /\ cursor' = m_cursor' /\ current_start_addr' = m_start'
             /\ cursor_table' = m_table' /\ nr_current_console' = m_current'
             /\ crtc_cursor' = m_crtc_cursor' /\ crtc_start' = m_crtc_start'
             /\ stored' = m_stored'
        ELSE UNCHANGED vars

WritersNext == (TaskTty \/ PrintChar) /\ Look
WritersSpec == WritersInit /\ [][WritersNext]_<<vars, mem, task>>

-----------------------------------------------------------------------------
(* Properties                                                              *)

\* As long as nothing is printed within an operation of task_tty, the
\* statements of out_char, scroll_screen, flush and select_console add up to the
\* operations of Console, whatever is printed between them (console.c 49-127).
ImplementsConsole == Spec

-----------------------------------------------------------------------------
\* tty.h:20-21 say what memory a console has; but with p_vmem computed before
\* another process moved the cursor, a backspace clears a cell of the console
\* before it (console.c 52, 65).
StoresStayInside == Now!StoresInside
=============================================================================
