------------------------------ MODULE Console ------------------------------
(***************************************************************************)
(* The consoles of TtaoOS (kernel/console.c): each one owns a stretch of   *)
(* the video memory, with a cursor and a window of one screen in it; the   *)
(* CRT controller shows a cursor and a window of its own, which the code   *)
(* keeps up to date.                                                       *)
(*                                                                         *)
(* An operation is one step here, whether task_tty performs it to echo,    *)
(* scroll or switch or a process that prints; ConsoleWriters says when     *)
(* that is so.  Addresses count cells of two bytes, as the C fields do.    *)
(***************************************************************************)
EXTENDS Integers

CONSTANTS
    SCREEN_WIDTH, SCREEN_SIZE,  \* cells of a line and of a screen
    V_MEM_SIZE,                 \* bytes of video memory
    NR_CONSOLE

Consoles == 0 .. NR_CONSOLE - 1

\* con_v_mem_size: the share of a console, in whole lines.
v_mem_limit == SCREEN_WIDTH * (((V_MEM_SIZE \div 2) \div NR_CONSOLE) \div SCREEN_WIDTH)

original_addr(c) == c * v_mem_limit
End(c)           == original_addr(c) + v_mem_limit
Memory(c)        == original_addr(c) .. End(c) - 1

ASSUME ScreenAssumption ==
    /\ NR_CONSOLE \in Nat \ {0} /\ SCREEN_WIDTH \in Nat \ {0} /\ V_MEM_SIZE \in Nat
    /\ SCREEN_SIZE \in Nat /\ SCREEN_SIZE % SCREEN_WIDTH = 0
    /\ 2 * SCREEN_WIDTH <= SCREEN_SIZE /\ SCREEN_SIZE <= v_mem_limit

VARIABLES
    cursor, current_start_addr,     \* of each console
    cursor_table,                   \* the kernel's second copy of cursor
    nr_current_console,
    crtc_cursor, crtc_start,        \* the registers of the controller
    stored                          \* the console and cell the last operation stored to, if any
vars == <<cursor, current_start_addr, cursor_table, nr_current_console,
          crtc_cursor, crtc_start, stored>>

NoStore == [console |-> 0, cell |-> -1]

\* InitScreen of every console; Clean() has left disp_pos at 0.
Init ==
    /\ cursor = [c \in Consoles |-> original_addr(c)]
    /\ current_start_addr = [c \in Consoles |-> original_addr(c)]
    /\ cursor_table = [c \in Consoles |-> original_addr(c)]
    /\ nr_current_console = 0 /\ crtc_cursor = 0 /\ crtc_start = 0
    /\ stored = NoStore

-----------------------------------------------------------------------------
\* scroll_screen: where the window of c goes, the cursor being at cur.
\* A bug: the lower end is not respected.
Up(c)           == IF current_start_addr[c] > original_addr(c)
                   THEN current_start_addr[c] - SCREEN_WIDTH ELSE current_start_addr[c]
DownAlways(c, cur) == current_start_addr[c] + SCREEN_WIDTH
Down(c, cur)       == IF /\ current_start_addr[c] + SCREEN_SIZE < End(c)
                         /\ cur > SCREEN_WIDTH + original_addr(c)
                      THEN current_start_addr[c] + SCREEN_WIDTH ELSE current_start_addr[c]

\* Shift+UP and Shift+DOWN (tty.c 91-100), on the current console.
ScrollScreen ==
    /\ \E start \in {Up(nr_current_console),
                     Down(nr_current_console, cursor[nr_current_console])} :
          /\ current_start_addr' = [current_start_addr EXCEPT ![nr_current_console] = start]
          /\ crtc_start' = start
    /\ stored' = NoStore
    /\ UNCHANGED <<cursor, cursor_table, nr_current_console, crtc_cursor>>

\* select_console (tty.c 62-78).
CursorSet(c) == crtc_cursor' = cursor[c]
SelectConsole(c) ==
    /\ nr_current_console' = c
    /\ CursorSet(c) /\ crtc_start' = current_start_addr[c]
    /\ stored' = NoStore
    /\ UNCHANGED <<cursor, current_start_addr, cursor_table>>

-----------------------------------------------------------------------------
\* The rest of out_char once the cursor has become cur: lines 83-88 scroll by at
\* most one line, then flush() sets the registers, showing another window than
\* the recorded one when the cursor is outside it.
\* A bug: the cell after the window counts as being in it.
TooLateBelow(c, cur) == cur > current_start_addr[c] + SCREEN_SIZE
Below(c, cur)        == cur >= current_start_addr[c] + SCREEN_SIZE

Scrolled(c, cur) == IF cur < current_start_addr[c] THEN Up(c)
                    ELSE IF Below(c, cur) THEN Down(c, cur)
                    ELSE current_start_addr[c]

Shown(cur, start) ==
    IF cur < start THEN SCREEN_WIDTH * (cur \div SCREEN_WIDTH)
    ELSE IF cur > start + SCREEN_SIZE
         THEN SCREEN_WIDTH * (cur \div SCREEN_WIDTH + 1) - SCREEN_SIZE
    ELSE start

Settle(c, cur) ==
    LET start == Scrolled(c, cur)
    IN  /\ cursor' = [cursor EXCEPT ![c] = cur]
        /\ current_start_addr' = [current_start_addr EXCEPT ![c] = start]
        /\ cursor_table' = [cursor_table EXCEPT ![c] = cur]
        /\ crtc_cursor' = cur
        /\ crtc_start' = Shown(cur, start)
        /\ UNCHANGED nr_current_console

Store(c, cell) == stored' = [console |-> c, cell |-> cell]

\* out_char(c, '\n').
NewLine(c) ==
    /\ Settle(c, IF cursor[c] < End(c) - SCREEN_WIDTH
                 THEN original_addr(c) +
                      SCREEN_WIDTH * ((cursor[c] - original_addr(c)) \div SCREEN_WIDTH + 1)
                 ELSE cursor[c])
    /\ stored' = NoStore

\* out_char(c, '\b'): the cell before the cursor is cleared.  A bug: also at the
\* first cell.
CanGoBackOff(c) == cursor[c] >= original_addr(c)
CanGoBack(c)    == cursor[c] > original_addr(c)
Backspace(c) ==
    IF CanGoBack(c)
    THEN Store(c, cursor[c] - 1) /\ Settle(c, cursor_table[c] - 1)
    ELSE stored' = NoStore /\ Settle(c, cursor[c])

\* out_char(c, ch) of any other character: it is lost when the memory is full.
HasRoom(c) == cursor[c] < End(c)
Character(c) ==
    IF HasRoom(c)
    THEN Store(c, cursor[c]) /\ Settle(c, cursor_table[c] + 1)
    ELSE stored' = NoStore /\ Settle(c, cursor[c])

OutChar == \/ NewLine(nr_current_console)
           \/ Backspace(nr_current_console)
           \/ Character(nr_current_console)

Next == OutChar \/ ScrollScreen \/ \E c \in Consoles : SelectConsole(c)

Spec == Init /\ [][Next]_vars

-----------------------------------------------------------------------------
(* Properties                                                              *)

TypeOK ==
    /\ cursor \in [Consoles -> Nat]
    /\ current_start_addr \in [Consoles -> Nat]
    /\ cursor_table \in [Consoles -> Nat]
    /\ nr_current_console \in Consoles
    /\ crtc_cursor \in Nat /\ crtc_start \in Nat

\* The consoles stay apart: a cursor stays in its console's memory or just
\* behind it, the recorded window stays inside and on a line, and the two copies
\* of the cursor agree whenever out_char has returned (console.c 53-88, 94).
ConsolesApart ==
    \A c \in Consoles :
        /\ cursor[c] \in original_addr(c) .. End(c)
        /\ cursor_table[c] = cursor[c]
        /\ current_start_addr[c] \in original_addr(c) .. End(c) - SCREEN_SIZE
        /\ current_start_addr[c] % SCREEN_WIDTH = 0

\* No character is stored in the memory of another console (console.c 65, 75).
StoresInside == stored = NoStore \/ stored.cell \in Memory(stored.console)

\* The hardware cursor is that of the console the user looks at, across
\* switches and output (console.c 93, 109).
CursorShown == crtc_cursor = cursor[nr_current_console]

\* As long as the console has room, typing at a cursor that is on the screen
\* leaves it on the screen (console.c 83-101).
OnScreen(c) == cursor[c] \in crtc_start .. crtc_start + SCREEN_SIZE - 1
TypingKeepsVisible ==
    [][LET c == nr_current_console
       IN  /\ nr_current_console' = c /\ cursor' # cursor /\ cursor'[c] # End(c)
           /\ cursor[c] \in current_start_addr[c] .. current_start_addr[c] + SCREEN_SIZE - 1
           => OnScreen(c)']_vars

=============================================================================
