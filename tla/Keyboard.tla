------------------------------ MODULE Keyboard ------------------------------
(***************************************************************************)
(* From the key to the echo: the keyboard interrupt handler fills kb_in,   *)
(* and task_tty empties it, decodes the scan codes, keeps track of the     *)
(* modifiers, switches consoles and echoes what is typed through the       *)
(* in_buf of the current console (kernel/keyboard.c, kernel/tty.c).        *)
(*                                                                         *)
(* The keyboard itself is external: a key sends the bytes of scan code     *)
(* set 1 that keymap.h and keyboard_read expect, one interrupt per byte.   *)
(* What out_char, select_console and scroll_screen do is module Console.   *)
(***************************************************************************)
EXTENDS Integers, Sequences

CONSTANTS
    KB_IN_BYTES, TTY_IN_BYTES,  \* sizes of the two rings
    NR_CONSOLE,
    KeySets,                    \* bound: the sets of keys used in one behaviour
    KeysAfterLoss               \* bound: those used once a byte was lost

Consoles == 0 .. NR_CONSOLE - 1

\* What each key sends when it is pressed (and while it repeats) ...
Make ==
    [ SHIFT_L |-> <<\h2A>>, SHIFT_R |-> <<\h36>>, CTRL_L |-> <<\h1D>>, ALT_L |-> <<\h38>>,
      CTRL_R |-> <<\hE0, \h1D>>, ALT_R |-> <<\hE0, \h38>>,
      A |-> <<\h1E>>, ENTER |-> <<\h1C>>, F1 |-> <<\h3B>>, F2 |-> <<\h3C>>,
      PRINTSCREEN |-> <<\hE0, \h2A, \hE0, \h37>>,
      PAUSEBREAK |-> <<\hE1, \h1D, \h45, \hE1, \h9D, \hC5>> ]

\* ... and when it is released.
Break(k) ==
    CASE k = "PRINTSCREEN" -> <<\hE0, \hB7, \hE0, \hAA>>
      [] k = "PAUSEBREAK"  -> <<>>
      [] OTHER -> [i \in DOMAIN Make[k] |->
                      IF Make[k][i] = \hE0 THEN \hE0 ELSE Make[k][i] + \h80]

Modifiers == {"SHIFT_L", "SHIFT_R", "CTRL_L", "CTRL_R", "ALT_L", "ALT_R"}

ASSUME KeyboardAssumption ==
    /\ KB_IN_BYTES \in Nat \ {0} /\ TTY_IN_BYTES \in Nat \ {0} /\ NR_CONSOLE \in Nat \ {0, 1}
    /\ \A S \in KeySets : KeysAfterLoss \subseteq S /\ S \subseteq DOMAIN Make

\* The rows of keymap[] that these bytes reach: plain, with shift, after E0.
\* Every other entry reached is 0.
Row(code) ==
    CASE code = \h2A -> <<"SHIFT_L", "SHIFT_L", "0">>
      [] code = \h36 -> <<"SHIFT_R", "SHIFT_R", "0">>
      [] code = \h1D -> <<"CTRL_L", "CTRL_L", "CTRL_R">>
      [] code = \h38 -> <<"ALT_L", "ALT_L", "ALT_R">>
      [] code = \h1E -> <<"a", "A", "0">>
      [] code = \h1C -> <<"ENTER", "ENTER", "PAD_ENTER">>
      [] code = \h3B -> <<"F1", "F1", "0">>
      [] code = \h3C -> <<"F2", "F2", "0">>
      [] code = \h37 -> <<"*", "*", "0">>
      [] code = \h45 -> <<"NUM_LOCK", "NUM_LOCK", "0">>
      [] OTHER       -> <<"0", "0", "0">>
keymap(code, column) == Row(code)[column + 1]

Bytes == UNION {{s[i] : i \in DOMAIN s} :
                   s \in UNION {{Make[k], Break(k)} : k \in DOMAIN Make}}

\* Keys without FLAG_EXT are characters: also 0, that of an unknown make code.
Characters == {"a", "A", "0", "*"}

VARIABLES
    kb_in,              \* KB_INPUT: the ring of scan codes
    held,               \* the modifiers among shift_l .. alt_r that are 1
    tty_table,          \* the ring in_buf of each TTY
    nr_current_console,
    p_tty, pc,          \* task_tty: whose turn, and "read" or "write"
    got,                \* the bytes of the key being read
    taking,             \* kb_in.count as get_byte_from_kbuf read it, or -1
    keys,               \* the keys in use, chosen once
    down, wire,         \* the keyboard: modifiers held down, bytes to send
    typed, wanted,      \* what the user typed that is not echoed yet, and the
                        \* console asked for last
    dropped             \* whether a byte found kb_in full
task   == <<held, tty_table, nr_current_console, p_tty, pc, got>>
user   == <<keys, down, wire, wanted>>
vars   == <<kb_in, task, taking, user, typed, dropped>>

-----------------------------------------------------------------------------
(* Rings                                                                   *)

NoByte == -1

Ring(size, none) == [buf |-> [i \in 0 .. size - 1 |-> none],
                     head |-> 0, tail |-> 0, count |-> 0]

\* The reading and writing pointers go round.
Wrap(i, size) == IF i = size THEN 0 ELSE i

HasRoom(r, size) == r.count < size

PutIn(r, size, x) ==
    IF HasRoom(r, size)
    THEN [r EXCEPT !.buf[r.head] = x, !.head = Wrap(@ + 1, size), !.count = @ + 1]
    ELSE r

\* A slot that was read is marked, so that reading it again would show.
Advanced(r, size, none) == [r EXCEPT !.buf[r.tail] = none, !.tail = Wrap(@ + 1, size)]

Init ==
    /\ kb_in = Ring(KB_IN_BYTES, NoByte) /\ taking = -1
    /\ held = {} /\ got = <<>>
    /\ tty_table = [c \in Consoles |-> Ring(TTY_IN_BYTES, "none")]
    /\ nr_current_console = 0 /\ p_tty = 0 /\ pc = "read"
    /\ keys \in KeySets /\ down = {} /\ wire = <<>>
    /\ typed = <<>> /\ wanted = 0 /\ dropped = FALSE

-----------------------------------------------------------------------------
(* The user and the keyboard                                               *)

InUse   == IF dropped THEN KeysAfterLoss ELSE keys
Shifted == down \cap {"SHIFT_L", "SHIFT_R"} # {}
CtrlAlt == down \cap {"CTRL_L", "CTRL_R"} # {} /\ down \cap {"ALT_L", "ALT_R"} # {}

\* What the user expects to see for key k, on the console asked for.
Types(k) ==
    CASE k = "A"     -> <<<<IF Shifted THEN "A" ELSE "a", wanted>>>>
      [] k = "ENTER" -> <<<<"\n", wanted>>>>
      [] OTHER       -> <<>>

Press(k) ==
    /\ wire = <<>> /\ k \in InUse
    /\ wire' = Make[k] /\ down' = down \cup ({k} \cap Modifiers)
    /\ wanted' = CASE k = "F1" /\ CtrlAlt -> 0
                   [] k = "F2" /\ CtrlAlt -> 1
                   [] OTHER -> wanted
    /\ typed' = IF dropped THEN typed ELSE typed \o Types(k)
    /\ UNCHANGED <<kb_in, task, taking, keys, dropped>>

\* Only modifiers need be remembered: another key may be released at any time,
\* having been pressed before the kernel set the keyboard up.
Release(k) ==
    /\ wire = <<>> /\ k \in InUse /\ (k \in Modifiers => k \in down)
    /\ wire' = Break(k) /\ down' = down \ {k}
    /\ UNCHANGED <<kb_in, task, taking, typed, keys, wanted, dropped>>

-----------------------------------------------------------------------------
\* get_byte_from_kbuf runs with interrupts off.  A bug: they stay on.
InterruptsLeftOn == TRUE
InterruptsOn     == taking = -1

\* keyboard_handler, one interrupt for each byte.  After the first lost byte
\* what was typed is no longer compared with what is echoed.
KeyboardHandler ==
    /\ InterruptsOn /\ wire # <<>>
    /\ kb_in' = PutIn(kb_in, KB_IN_BYTES, Head(wire))
    /\ wire' = Tail(wire)
    /\ IF HasRoom(kb_in, KB_IN_BYTES)
       THEN UNCHANGED <<typed, dropped>>
       ELSE dropped' = TRUE /\ typed' = <<>>
    /\ UNCHANGED <<task, taking, keys, down, wanted>>

-----------------------------------------------------------------------------
(* keyboard_read                                                           *)

IsCurrent(c) == c = nr_current_console

\* How many bytes keyboard_read takes, given the first ones.  A bug: one too
\* many of PAUSEBREAK.
OneTooMany(s) ==
    IF s = <<>> THEN 1
    ELSE CASE s[1] = \hE1 -> 7
           [] s[1] = \hE0 -> 2
           [] OTHER       -> 1
Wanted(s) ==
    IF s = <<>> THEN 1
    ELSE CASE s[1] = \hE1 -> 6
           [] s[1] = \hE0 -> IF ~(Len(s) >= 2 /\ s[2] \in {\h2A, \hB7}) THEN 2
                             ELSE IF Len(s) >= 3 /\ s[3] = \hE0 THEN 4 ELSE 3
           [] OTHER       -> 1
Complete(s) == Len(s) = Wanted(s)

\* get_byte_from_kbuf: the byte, with the count that is written back below.
\* While the ring is empty in the middle of a key, task_tty waits here.
TakeByte ==
    /\ pc = "read" /\ IsCurrent(p_tty) /\ ~Complete(got)
    /\ taking = -1 /\ kb_in.count >= 1
    /\ got' = Append(got, kb_in.buf[kb_in.tail])
    /\ kb_in' = Advanced(kb_in, KB_IN_BYTES, NoByte)
    /\ taking' = kb_in.count
    /\ UNCHANGED <<held, tty_table, nr_current_console, p_tty, pc, user, typed, dropped>>

TakenByte ==
    /\ taking # -1
    /\ kb_in' = [kb_in EXCEPT !.count = taking - 1]
    /\ taking' = -1
    /\ UNCHANGED <<task, user, typed, dropped>>

\* Nothing to read, or not this console's turn.
NothingToRead ==
    /\ pc = "read" /\ got = <<>> /\ (~IsCurrent(p_tty) \/ kb_in.count = 0)
    /\ pc' = "write"
    /\ UNCHANGED <<kb_in, held, tty_table, nr_current_console, p_tty, got, taking, user,
                   typed, dropped>>

Special(s) == \/ s = Make["PAUSEBREAK"]
              \/ s \in {Make["PRINTSCREEN"], Break("PRINTSCREEN")}

\* After E0 the second byte counts.
ScanCode(s) == IF s[1] = \hE0 THEN s[2] ELSE s[1]
IsMake(s)   == ScanCode(s) < \h80
KeyOf(s)    == LET column == IF s[1] = \hE0 THEN 2
                             ELSE IF held \cap {"SHIFT_L", "SHIFT_R"} # {} THEN 1 ELSE 0
               IN  keymap(ScanCode(s) % \h80, column)

\* A bug: releasing a modifier is not noticed.
HeldForEver(key, make) == IF key \in Modifiers /\ make THEN held \cup {key} ELSE held
HeldAfter(key, make) ==
    IF key \notin Modifiers THEN held
    ELSE IF make THEN held \cup {key} ELSE held \ {key}

\* in_process and put_a_key: what goes to the in_buf of the console.
InBufAfter(key) ==
    LET Put(ch) == [tty_table EXCEPT ![p_tty] = PutIn(@, TTY_IN_BYTES, ch)]
    IN  CASE key \in Characters -> Put(key)
          [] key = "ENTER"      -> Put("\n")
          [] OTHER              -> tty_table

\* A bug: Ctrl and Alt are not asked for.
SwitchesAlways(key) == key \in {"F1", "F2"}
Switches(key) == /\ key \in {"F1", "F2"}
                 /\ held \cap {"CTRL_L", "CTRL_R"} # {} /\ held \cap {"ALT_L", "ALT_R"} # {}

Decode ==
    /\ pc = "read" /\ taking = -1 /\ Complete(got)
    /\ got' = <<>> /\ pc' = "write"
    /\ IF Special(got) \/ ~IsMake(got)
       THEN UNCHANGED <<tty_table, nr_current_console>>
       ELSE LET key == KeyOf(got)
            IN  /\ tty_table' = InBufAfter(key)
                /\ nr_current_console' = IF Switches(key)
                                         THEN (IF key = "F1" THEN 0 ELSE 1)
                                         ELSE nr_current_console
    /\ held' = IF Special(got) THEN held ELSE HeldAfter(KeyOf(got), IsMake(got))
    /\ UNCHANGED <<kb_in, p_tty, taking, user, typed, dropped>>

\* tty_do_write, and on to the next TTY.
InBuf(c)   == tty_table[c]
CanEcho    == IsCurrent(p_tty) /\ InBuf(p_tty).count > 0
TtyDoWrite ==
    /\ pc = "write"
    /\ pc' = "read" /\ p_tty' = (p_tty + 1) % NR_CONSOLE
    /\ IF CanEcho
       THEN /\ tty_table' = [tty_table EXCEPT ![p_tty] =
                                [Advanced(InBuf(p_tty), TTY_IN_BYTES, "none")
                                    EXCEPT !.count = @ - 1]]
            /\ typed' = IF typed = <<>> THEN typed ELSE Tail(typed)
       ELSE UNCHANGED <<tty_table, typed>>
    /\ UNCHANGED <<kb_in, held, nr_current_console, got, taking, user, dropped>>

TaskTty == TakeByte \/ TakenByte \/ NothingToRead \/ Decode \/ TtyDoWrite

-----------------------------------------------------------------------------
Next == (\E k \in DOMAIN Make : Press(k) \/ Release(k)) \/ KeyboardHandler \/ TaskTty

Spec == Init /\ [][Next]_vars

\* task_tty never blocks and is never starved (Sched!NoStarvation); the
\* keyboard sends the rest of a scan code.
FairSpec == Spec /\ WF_vars(TaskTty) /\ WF_vars(KeyboardHandler)

-----------------------------------------------------------------------------
(* Properties                                                              *)

\* Unless kb_in overflowed, what is echoed is what was typed, in order, with
\* the shift and on the console of the moment it was typed, however far task_tty
\* lags behind the keyboard.
EchoFollowsTyping ==
    [][\A c \in Consoles :
          tty_table'[c].count < InBuf(c).count /\ ~dropped
              => typed # <<>> /\ Head(typed) = <<InBuf(c).buf[InBuf(c).tail], c>>]_vars

\* Unless kb_in overflowed, when all is read the modifiers are those held down,
\* nothing typed was lost, and the console is the one asked for.
AtRest == wire = <<>> /\ kb_in.count = 0 /\ taking = -1 /\ got = <<>> /\ pc = "read"
RestAgrees ==
    AtRest /\ ~dropped => /\ held = down
                          /\ typed = <<>>
                          /\ nr_current_console = wanted

\* keyboard_read does not wait for a byte that does not come, unless one was
\* lost: the whole system would see no key before the next one (line 170).
ReadEnds == got # <<>> ~> got = <<>> \/ dropped

\* kb_in is a bounded queue between the handler and task_tty.
KbQueue == INSTANCE BoundedQueue WITH
    Size <- KB_IN_BYTES, Items <- Bytes,
    q <- [i \in 1 .. kb_in.count - (IF taking = -1 THEN 0 ELSE 1) |->
             kb_in.buf[(kb_in.tail + i - 1) % KB_IN_BYTES]]
KbInIsQueue == KbQueue!Spec
=============================================================================
