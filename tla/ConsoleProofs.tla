--------------------------- MODULE ConsoleProofs ---------------------------
(***************************************************************************)
(* The safety of the consoles for any screen, any amount of video memory   *)
(* and any number of consoles, as long as nothing is printed within a call *)
(* of task_tty (ConsoleWriters shows what happens if something is): they   *)
(* stay apart, nothing is stored outside them, and the controller follows. *)
(*                                                                         *)
(* The first half proves it of operations taken as one step.  The numbers  *)
(* of InitScreen make every console and every window begin on a line; from *)
(* that it follows that a window which moves by a line never passes the    *)
(* end of its console.  The second half shows that the statements of       *)
(* ConsoleWriters add up to those operations: an invariant says, for every *)
(* place the call can be at, what it has stored and loaded so far, in      *)
(* terms of the memory it began with.  The theorems at the end put the     *)
(* halves together.                                                        *)
(***************************************************************************)
EXTENDS ConsoleWriters, TLAPS

\* a is the first cell of a line.
Aligned(a) == \E k \in Nat : a = SCREEN_WIDTH * k

WindowOK(c) ==
    /\ current_start_addr[c] \in original_addr(c) .. End(c) - SCREEN_SIZE
    /\ Aligned(current_start_addr[c])
CursorOK(c) ==
    cursor[c] \in original_addr(c) .. End(c) /\ cursor_table[c] = cursor[c]
Domains ==
    /\ DOMAIN cursor = Consoles /\ cursor = [c \in Consoles |-> cursor[c]]
    /\ current_start_addr = [c \in Consoles |-> current_start_addr[c]]
    /\ cursor_table = [c \in Consoles |-> cursor_table[c]]
    /\ nr_current_console \in Consoles
    /\ crtc_cursor \in Nat /\ crtc_start \in Nat

IInv == /\ Domains
        /\ \A c \in Consoles : WindowOK(c) /\ CursorOK(c)
        /\ StoresInside /\ CursorShown

-----------------------------------------------------------------------------
(* Arithmetic of lines                                                     *)

LEMMA Division == ASSUME NEW a \in Nat, NEW w \in Nat \ {0}
                  PROVE  /\ a \div w \in Nat
                         /\ w * (a \div w) <= a /\ a < w * (a \div w) + w
  BY SMT

LEMMA ProductNat == ASSUME NEW a \in Nat, NEW b \in Nat PROVE a * b \in Nat
  BY SMT

LEMMA NextMultiple == ASSUME NEW w \in Nat \ {0}, NEW i \in Nat, NEW j \in Nat, w * i < w * j
                      PROVE  w * i + w <= w * j
  BY SMT

LEMMA Successor == ASSUME NEW w \in Nat \ {0}, NEW i \in Int
                   PROVE  w * (i + 1) = w * i + w /\ w * (i - 1) = w * i - w
  BY SMT

LEMMA Remainder == ASSUME NEW a \in Nat, NEW w \in Nat \ {0}, a % w = 0
                   PROVE  a = w * (a \div w)
  <1>1. a = w * (a \div w) + (a % w)
    BY SMT
  <1>2. a \div w \in Nat
    BY Division
  <1> QED
    BY <1>1, <1>2, ProductNat

LEMMA MultipleMod == ASSUME NEW w \in Nat \ {0}, NEW k \in Nat PROVE (w * k) % w = 0
  BY SMT

LEMMA Associate == ASSUME NEW c \in Nat, NEW w \in Nat, NEW m \in Nat
                   PROVE  c * (w * m) = w * (c * m) /\ w * (c * m) + w * m = w * (c * m + m)
  BY SMT

\* A line begins at or after the end of the line before.
LEMMA AlignedStep ==
    ASSUME NEW a, NEW b, Aligned(a), Aligned(b)
    PROVE  /\ a \in Nat /\ b \in Nat
           /\ a < b => a + SCREEN_WIDTH <= b
           /\ Aligned(a + SCREEN_WIDTH)
           /\ a > b => Aligned(a - SCREEN_WIDTH) /\ a - SCREEN_WIDTH >= b
  <1>1. PICK i \in Nat : a = SCREEN_WIDTH * i
    BY DEF Aligned
  <1>2. PICK j \in Nat : b = SCREEN_WIDTH * j
    BY DEF Aligned
  <1>3. SCREEN_WIDTH \in Nat \ {0}
    BY ScreenAssumption
  <1>4. a \in Nat /\ b \in Nat
    BY <1>1, <1>2, <1>3, ProductNat
  <1>5. a < b => a + SCREEN_WIDTH <= b
    BY <1>1, <1>2, <1>3, NextMultiple
  <1>6. Aligned(a + SCREEN_WIDTH)
    <2>1. a + SCREEN_WIDTH = SCREEN_WIDTH * (i + 1)
      BY <1>1, <1>3, Successor
    <2> QED
      BY <2>1 DEF Aligned
  <1>7. ASSUME a > b PROVE Aligned(a - SCREEN_WIDTH) /\ a - SCREEN_WIDTH >= b
    <2>1. b + SCREEN_WIDTH <= a
      BY <1>1, <1>2, <1>3, <1>4, <1>7, NextMultiple
    <2>2. a - SCREEN_WIDTH = SCREEN_WIDTH * (i - 1)
      BY <1>1, <1>3, Successor
    <2>3. i # 0
      BY <1>1, <1>3, <1>4, <2>1
    <2>4. i - 1 \in Nat
      BY <2>3
    <2>5. a - SCREEN_WIDTH >= b
      BY <1>3, <1>4, <2>1
    <2> QED
      BY <2>2, <2>4, <2>5 DEF Aligned
  <1> QED
    BY <1>4, <1>5, <1>6, <1>7

LEMMA AlignedSum ==
    ASSUME NEW a, NEW b, Aligned(a), Aligned(b) PROVE Aligned(a + b)
  <1>1. PICK i \in Nat : a = SCREEN_WIDTH * i
    BY DEF Aligned
  <1>2. PICK j \in Nat : b = SCREEN_WIDTH * j
    BY DEF Aligned
  <1>3. SCREEN_WIDTH \in Nat
    BY ScreenAssumption
  <1>4. SCREEN_WIDTH * i + SCREEN_WIDTH * j = SCREEN_WIDTH * (i + j)
    BY <1>3, SMT
  <1> QED
    BY <1>1, <1>2, <1>4 DEF Aligned

LEMMA AlignedDifference ==
    ASSUME NEW a, NEW b, Aligned(a), Aligned(b), a >= b PROVE Aligned(a - b)
  <1>1. PICK i \in Nat : a = SCREEN_WIDTH * i
    BY DEF Aligned
  <1>2. PICK j \in Nat : b = SCREEN_WIDTH * j
    BY DEF Aligned
  <1>3. SCREEN_WIDTH \in Nat \ {0}
    BY ScreenAssumption
  <1>4. SCREEN_WIDTH * i - SCREEN_WIDTH * j = SCREEN_WIDTH * (i - j)
    BY <1>3, SMT
  <1>5. i >= j
    BY <1>1, <1>2, <1>3, SMT
  <1>6. i - j \in Nat
    BY <1>5
  <1> QED
    BY <1>1, <1>2, <1>4, <1>6 DEF Aligned

-----------------------------------------------------------------------------
(* What InitScreen computes                                                *)

LEMMA Limit == v_mem_limit \in Nat /\ Aligned(v_mem_limit) /\ Aligned(SCREEN_SIZE)
  <1> USE ScreenAssumption
  <1>1. V_MEM_SIZE \div 2 \in Nat
    BY Division
  <1>2. (V_MEM_SIZE \div 2) \div NR_CONSOLE \in Nat
    BY <1>1, Division
  <1>3. ((V_MEM_SIZE \div 2) \div NR_CONSOLE) \div SCREEN_WIDTH \in Nat
    BY <1>2, Division
  <1>4. SCREEN_SIZE = SCREEN_WIDTH * (SCREEN_SIZE \div SCREEN_WIDTH)
    BY Remainder
  <1>5. SCREEN_SIZE \div SCREEN_WIDTH \in Nat
    BY Division
  <1> QED
    BY <1>3, <1>4, <1>5, ProductNat DEF v_mem_limit, Aligned

LEMMA Console1 ==
    ASSUME NEW c \in Consoles
    PROVE  /\ original_addr(c) \in Nat /\ Aligned(original_addr(c))
           /\ End(c) \in Nat /\ Aligned(End(c)) /\ Aligned(End(c) - SCREEN_SIZE)
           /\ End(c) = original_addr(c) + v_mem_limit
           /\ original_addr(c) <= End(c) - SCREEN_SIZE
  <1>1. PICK m \in Nat : v_mem_limit = SCREEN_WIDTH * m
    BY Limit DEF Aligned
  <1>2. c \in Nat /\ SCREEN_WIDTH \in Nat /\ SCREEN_SIZE \in Nat /\ SCREEN_SIZE <= v_mem_limit
    BY ScreenAssumption DEF Consoles
  <1>3. original_addr(c) = SCREEN_WIDTH * (c * m)
    BY <1>1, <1>2, Associate DEF original_addr
  <1>4. c * m \in Nat
    BY <1>2, ProductNat
  <1>5. original_addr(c) \in Nat /\ Aligned(original_addr(c))
    BY <1>2, <1>3, <1>4, ProductNat DEF Aligned
  <1>6. End(c) = original_addr(c) + v_mem_limit
    BY DEF End
  <1>7. Aligned(End(c))
    BY <1>5, <1>6, Limit, AlignedSum
  <1>8. End(c) \in Nat /\ End(c) >= SCREEN_SIZE /\ original_addr(c) <= End(c) - SCREEN_SIZE
    BY <1>2, <1>5, <1>6, Limit
  <1>9. Aligned(End(c) - SCREEN_SIZE)
    BY <1>7, <1>8, Limit, AlignedDifference
  <1> QED
    BY <1>5, <1>6, <1>7, <1>8, <1>9

-----------------------------------------------------------------------------
(* Windows                                                                 *)

\* Moving the window by a line keeps it inside its console and on a line.
LEMMA UpDown ==
    ASSUME NEW c \in Consoles, NEW cur \in Nat, WindowOK(c)
    PROVE  \A start \in {Up(c), Down(c, cur), current_start_addr[c]} :
              /\ start \in original_addr(c) .. End(c) - SCREEN_SIZE
              /\ start \in Nat /\ Aligned(start)
  <1> DEFINE s == current_start_addr[c]
             o == original_addr(c)
             e == End(c) - SCREEN_SIZE
  <1>1. /\ s \in o .. e /\ Aligned(s) /\ Aligned(o) /\ Aligned(e)
        /\ SCREEN_WIDTH \in Nat \ {0} /\ SCREEN_SIZE \in Nat /\ End(c) \in Nat
    BY Console1, ScreenAssumption DEF WindowOK
  <1>2. s \in Nat /\ o \in Nat /\ e \in Nat
    BY <1>1, AlignedStep
  <1>3. s > o => Aligned(s - SCREEN_WIDTH) /\ s - SCREEN_WIDTH >= o
    BY <1>1, AlignedStep
  <1>4. s < e => Aligned(s + SCREEN_WIDTH) /\ s + SCREEN_WIDTH <= e
    BY <1>1, AlignedStep
  <1>5. Up(c) = s \/ (s > o /\ Up(c) = s - SCREEN_WIDTH)
    BY DEF Up
  <1>6. \/ Down(c, cur) = s
        \/ s + SCREEN_SIZE < End(c) /\ Down(c, cur) = s + SCREEN_WIDTH
    BY DEF Down
  <1>7. s + SCREEN_SIZE < End(c) => s < e
    BY <1>1, <1>2
  <1> HIDE DEF s, o, e
  <1>8. ASSUME NEW start,
               start = s \/ (s > o /\ start = s - SCREEN_WIDTH)
                         \/ (s < e /\ start = s + SCREEN_WIDTH)
        PROVE  start \in o .. e /\ start \in Nat /\ Aligned(start)
    <2>1. CASE start = s
      BY <1>1, <1>2, <2>1
    <2>2. CASE s > o /\ start = s - SCREEN_WIDTH
      <3>1. Aligned(start)
        BY <1>3, <2>2
      <3>2. start \in o .. e
        BY <1>1, <1>2, <1>3, <2>2
      <3> QED
        BY <1>2, <3>1, <3>2
    <2>3. CASE s < e /\ start = s + SCREEN_WIDTH
      <3>1. Aligned(start)
        BY <1>4, <2>3
      <3>2. start \in o .. e
        BY <1>1, <1>2, <1>4, <2>3
      <3> QED
        BY <1>2, <3>1, <3>2
    <2> QED
      BY <1>8, <2>1, <2>2, <2>3
  <1>9. /\ Up(c) = s \/ (s > o /\ Up(c) = s - SCREEN_WIDTH)
        /\ Down(c, cur) = s \/ (s < e /\ Down(c, cur) = s + SCREEN_WIDTH)
    BY <1>5, <1>6, <1>7
  <1>10. /\ Up(c) \in o .. e /\ Up(c) \in Nat /\ Aligned(Up(c))
         /\ Down(c, cur) \in o .. e /\ Down(c, cur) \in Nat /\ Aligned(Down(c, cur))
         /\ s \in o .. e /\ s \in Nat /\ Aligned(s)
    BY <1>8, <1>9
  <1> QED
    BY <1>10 DEF s, o, e

\* What flush() shows is an address, also when it is not the recorded window.
LEMMA ShownNat ==
    ASSUME NEW cur \in Nat, NEW start \in Nat PROVE Shown(cur, start) \in Nat
  <1>1. SCREEN_WIDTH \in Nat \ {0} /\ SCREEN_SIZE \in Nat
    BY ScreenAssumption
  <1>2. /\ cur \div SCREEN_WIDTH \in Nat
        /\ cur < SCREEN_WIDTH * (cur \div SCREEN_WIDTH) + SCREEN_WIDTH
    BY <1>1, Division
  <1>3. SCREEN_WIDTH * (cur \div SCREEN_WIDTH) \in Nat
    BY <1>1, <1>2, ProductNat
  <1>4. SCREEN_WIDTH * (cur \div SCREEN_WIDTH + 1)
           = SCREEN_WIDTH * (cur \div SCREEN_WIDTH) + SCREEN_WIDTH
    BY <1>1, <1>2, Successor
  <1>5. CASE cur < start
    BY <1>3, <1>5 DEF Shown
  <1>6. CASE ~(cur < start) /\ cur > start + SCREEN_SIZE
    BY <1>1, <1>2, <1>3, <1>4, <1>6 DEF Shown
  <1>7. CASE ~(cur < start) /\ ~(cur > start + SCREEN_SIZE)
    BY <1>7 DEF Shown
  <1> QED
    BY <1>5, <1>6, <1>7

-----------------------------------------------------------------------------
(* The invariant                                                           *)

LEMMA InitIInv == Init => IInv
  <1> SUFFICES ASSUME Init PROVE IInv
    OBVIOUS
  <1>1. 0 \in Consoles /\ original_addr(0) = 0
    BY ScreenAssumption, Limit DEF Consoles, original_addr
  <1>2. Domains
    BY <1>1 DEF Init, Domains
  <1>3. ASSUME NEW c \in Consoles PROVE WindowOK(c) /\ CursorOK(c)
    <2>1. /\ original_addr(c) \in original_addr(c) .. End(c) - SCREEN_SIZE
          /\ original_addr(c) \in original_addr(c) .. End(c)
          /\ Aligned(original_addr(c))
      BY Console1, Limit, ScreenAssumption
    <2>2. /\ cursor[c] = original_addr(c) /\ cursor_table[c] = original_addr(c)
          /\ current_start_addr[c] = original_addr(c)
      BY DEF Init
    <2> QED
      BY <2>1, <2>2 DEF WindowOK, CursorOK
  <1>4. StoresInside /\ CursorShown /\ stored = NoStore
    BY <1>1 DEF Init, StoresInside, CursorShown
  <1> QED
    BY <1>2, <1>3, <1>4 DEF IInv

\* The end of out_char keeps everything in order wherever the cursor has come to
\* inside its console.
LEMMA SettleStep ==
    ASSUME IInv, NEW cur, cur \in original_addr(nr_current_console) .. End(nr_current_console),
           Settle(nr_current_console, cur)
    PROVE  Domains' /\ CursorShown' /\ \A c \in Consoles : WindowOK(c)' /\ CursorOK(c)'
  <1> DEFINE n == nr_current_console
  <1> DEFINE start == Scrolled(n, cur)
  <1>1. n \in Consoles /\ n' = n
    BY DEF IInv, Domains, Settle
  <1>2. original_addr(n) \in Nat /\ End(n) \in Nat /\ cur \in Nat
    BY <1>1, Console1
  <1>3. /\ start \in original_addr(n) .. End(n) - SCREEN_SIZE
        /\ start \in Nat /\ Aligned(start)
    <2>1. WindowOK(n)
      BY <1>1 DEF IInv
    <2>2. start \in {Up(n), Down(n, cur), current_start_addr[n]}
      BY DEF Scrolled
    <2> HIDE DEF start
    <2> QED
      BY <1>1, <1>2, <2>1, <2>2, UpDown
  <1>4. Shown(cur, start) \in Nat
    <2> HIDE DEF start
    <2> QED
      BY <1>2, <1>3, ShownNat
  <1>5. /\ cursor' = [cursor EXCEPT ![n] = cur]
        /\ current_start_addr' = [current_start_addr EXCEPT ![n] = start]
        /\ cursor_table' = [cursor_table EXCEPT ![n] = cur]
        /\ crtc_cursor' = cur /\ crtc_start' = Shown(cur, start)
    BY DEF Settle
  <1> HIDE DEF start, n
  <1>6. Domains'
    BY <1>1, <1>2, <1>4, <1>5 DEF IInv, Domains, n
  <1>7. CursorShown'
    BY <1>1, <1>5 DEF IInv, Domains, CursorShown, n
  <1>8. ASSUME NEW c \in Consoles PROVE WindowOK(c)' /\ CursorOK(c)'
    <2>1. CASE c = n
      <3>1. cursor'[c] = cur /\ cursor_table'[c] = cur /\ current_start_addr'[c] = start
        BY <1>1, <1>5, <2>1 DEF IInv, Domains
      <3> QED
        BY <1>3, <2>1, <3>1 DEF WindowOK, CursorOK, n
    <2>2. CASE c # n
      <3>1. /\ cursor'[c] = cursor[c] /\ cursor_table'[c] = cursor_table[c]
            /\ current_start_addr'[c] = current_start_addr[c]
        BY <1>5, <2>2 DEF IInv, Domains
      <3> QED
        BY <3>1 DEF IInv, WindowOK, CursorOK
    <2> QED
      BY <2>1, <2>2
  <1> QED
    BY <1>6, <1>7, <1>8

LEMMA OutCharStep == IInv /\ OutChar => IInv'
  <1> SUFFICES ASSUME IInv, OutChar PROVE IInv'
    OBVIOUS
  <1> DEFINE n == nr_current_console
             o == original_addr(n)
             e == End(n)
  <1>1. /\ n \in Consoles /\ o \in Nat /\ e \in Nat /\ e = o + v_mem_limit
        /\ v_mem_limit \in Nat /\ SCREEN_WIDTH \in Nat \ {0} /\ SCREEN_WIDTH <= v_mem_limit
    BY Console1, Limit, ScreenAssumption DEF IInv, Domains
  <1>2. cursor[n] \in o .. e /\ cursor_table[n] = cursor[n]
    BY <1>1 DEF IInv, CursorOK
  <1>3. ASSUME NEW cur, cur \in o .. e, Settle(n, cur), StoresInside'
        PROVE  IInv'
    <2>1. Domains' /\ CursorShown' /\ \A c \in Consoles : WindowOK(c)' /\ CursorOK(c)'
      BY <1>3, SettleStep
    <2> QED
      BY <1>3, <2>1 DEF IInv
  <1>4. stored' = NoStore => StoresInside'
    BY DEF IInv, StoresInside, Memory, End, original_addr
  <1>5. ASSUME NEW cell, cell \in o .. e - 1, Store(n, cell) PROVE StoresInside'
    BY <1>5 DEF Store, StoresInside, Memory
  <1>6. CASE NewLine(n)
    <2>1. CASE cursor[n] < e - SCREEN_WIDTH
      <3> DEFINE line == (cursor[n] - o) \div SCREEN_WIDTH
      <3>1. cursor[n] - o \in Nat
        BY <1>1, <1>2
      <3>2. /\ line \in Nat /\ SCREEN_WIDTH * line <= cursor[n] - o
            /\ SCREEN_WIDTH * line \in Nat
        BY <1>1, <3>1, Division, ProductNat
      <3>3. SCREEN_WIDTH * (line + 1) = SCREEN_WIDTH * line + SCREEN_WIDTH
        BY <1>1, <3>2, Successor
      <3>4. Settle(n, o + SCREEN_WIDTH * (line + 1)) /\ stored' = NoStore
        BY <1>6, <2>1 DEF NewLine
      <3> HIDE DEF line, n, o, e
      <3>5. o + SCREEN_WIDTH * (line + 1) \in o .. e
        BY <1>1, <1>2, <2>1, <3>2, <3>3
      <3> QED
        BY <1>3, <1>4, <3>4, <3>5
    <2>2. CASE ~(cursor[n] < e - SCREEN_WIDTH)
      <3>1. Settle(n, cursor[n]) /\ stored' = NoStore
        BY <1>6, <2>2 DEF NewLine
      <3> QED
        BY <1>2, <1>3, <1>4, <3>1
    <2> QED
      BY <2>1, <2>2
  <1>7. CASE Backspace(n)
    <2>1. CASE CanGoBack(n)
      <3>1. Store(n, cursor[n] - 1) /\ Settle(n, cursor_table[n] - 1)
        BY <1>7, <2>1 DEF Backspace
      <3>2. cursor[n] > o
        BY <2>1 DEF CanGoBack
      <3>3. cursor[n] - 1 \in o .. e - 1 /\ cursor_table[n] - 1 \in o .. e
        BY <1>1, <1>2, <3>2
      <3> QED
        BY <1>3, <1>5, <3>1, <3>3
    <2>2. CASE ~CanGoBack(n)
      <3>1. Settle(n, cursor[n]) /\ stored' = NoStore
        BY <1>7, <2>2 DEF Backspace
      <3> QED
        BY <1>2, <1>3, <1>4, <3>1
    <2> QED
      BY <2>1, <2>2
  <1>8. CASE Character(n)
    <2>1. CASE HasRoom(n)
      <3>1. Store(n, cursor[n]) /\ Settle(n, cursor_table[n] + 1)
        BY <1>8, <2>1 DEF Character
      <3>2. cursor[n] < e
        BY <2>1 DEF HasRoom
      <3>3. cursor[n] \in o .. e - 1 /\ cursor_table[n] + 1 \in o .. e
        BY <1>1, <1>2, <3>2
      <3> QED
        BY <1>3, <1>5, <3>1, <3>3
    <2>2. CASE ~HasRoom(n)
      <3>1. Settle(n, cursor[n]) /\ stored' = NoStore
        BY <1>8, <2>2 DEF Character
      <3> QED
        BY <1>2, <1>3, <1>4, <3>1
    <2> QED
      BY <2>1, <2>2
  <1> QED
    BY <1>6, <1>7, <1>8 DEF OutChar

LEMMA ScrollStep == IInv /\ ScrollScreen => IInv'
  <1> SUFFICES ASSUME IInv, ScrollScreen PROVE IInv'
    OBVIOUS
  <1> DEFINE n == nr_current_console
  <1>1. n \in Consoles /\ WindowOK(n) /\ cursor[n] \in Nat
    <2>1. n \in Consoles
      BY DEF IInv, Domains
    <2> QED
      BY <2>1, Console1 DEF IInv, CursorOK
  <1>2. PICK start \in {Up(n), Down(n, cursor[n])} :
           /\ current_start_addr' = [current_start_addr EXCEPT ![n] = start]
           /\ crtc_start' = start
    BY DEF ScrollScreen
  <1>3. /\ start \in original_addr(n) .. End(n) - SCREEN_SIZE
        /\ start \in Nat /\ Aligned(start)
    BY <1>1, <1>2, UpDown
  <1>4. UNCHANGED <<cursor, cursor_table, nr_current_console, crtc_cursor>> /\ stored' = NoStore
    BY DEF ScrollScreen
  <1>5. Domains' /\ CursorShown' /\ StoresInside'
    BY <1>2, <1>3, <1>4 DEF IInv, Domains, CursorShown, StoresInside
  <1>6. ASSUME NEW c \in Consoles PROVE WindowOK(c)' /\ CursorOK(c)'
    <2>1. CASE c = n
      <3>1. current_start_addr'[c] = start
        BY <1>1, <1>2, <2>1 DEF IInv, Domains
      <3> QED
        BY <1>3, <1>4, <2>1, <3>1 DEF IInv, WindowOK, CursorOK
    <2>2. CASE c # n
      <3>1. current_start_addr'[c] = current_start_addr[c]
        BY <1>2, <2>2 DEF IInv, Domains
      <3> QED
        BY <1>4, <3>1 DEF IInv, WindowOK, CursorOK
    <2> QED
      BY <2>1, <2>2
  <1> QED
    BY <1>5, <1>6 DEF IInv

LEMMA SelectStep == ASSUME IInv, NEW c \in Consoles, SelectConsole(c) PROVE IInv'
  <1>1. /\ nr_current_console' = c /\ crtc_cursor' = cursor[c]
        /\ crtc_start' = current_start_addr[c]
        /\ UNCHANGED <<cursor, current_start_addr, cursor_table>> /\ stored' = NoStore
    BY DEF SelectConsole, CursorSet
  <1>2. cursor[c] \in Nat /\ current_start_addr[c] \in Nat
    BY Console1, AlignedStep DEF IInv, WindowOK, CursorOK
  <1>3. Domains' /\ CursorShown' /\ StoresInside'
    BY <1>1, <1>2 DEF IInv, Domains, CursorShown, StoresInside
  <1>4. ASSUME NEW d \in Consoles PROVE WindowOK(d)' /\ CursorOK(d)'
    BY <1>1 DEF IInv, WindowOK, CursorOK
  <1> QED
    BY <1>3, <1>4 DEF IInv

LEMMA StepIInv == IInv /\ [Next]_vars => IInv'
  <1>1. IInv /\ UNCHANGED vars => IInv'
    BY DEF IInv, vars, Domains, WindowOK, CursorOK, StoresInside, CursorShown
  <1> QED
    BY <1>1, OutCharStep, ScrollStep, SelectStep DEF Next

-----------------------------------------------------------------------------
(* Operations taken as one step                                            *)

\* The parts of IInv hold in every reachable state of Console.
LEMMA Invariance == Spec => []IInv
BY InitIInv, StepIInv, PTL DEF Spec

\* Cursors, windows and registers are addresses (include/tty.h 18-23).
LEMMA TypeOfConsole == Spec => []TypeOK
  <1>1. IInv => TypeOK
    <2> SUFFICES ASSUME IInv PROVE TypeOK
      OBVIOUS
    <2>1. ASSUME NEW c \in Consoles
          PROVE  cursor[c] \in Nat /\ cursor_table[c] \in Nat /\ current_start_addr[c] \in Nat
      BY Console1, AlignedStep DEF IInv, WindowOK, CursorOK
    <2> QED
      BY <2>1 DEF IInv, Domains, TypeOK
  <1> QED
    BY <1>1, Invariance, PTL

\* Every console keeps its cursor and its window in its own memory.
LEMMA ApartInConsole == Spec => []ConsolesApart
  <1>1. IInv => ConsolesApart
    <2> SUFFICES ASSUME IInv, NEW c \in Consoles
                 PROVE  /\ cursor[c] \in original_addr(c) .. End(c)
                        /\ cursor_table[c] = cursor[c]
                        /\ current_start_addr[c] \in original_addr(c) .. End(c) - SCREEN_SIZE
                        /\ current_start_addr[c] % SCREEN_WIDTH = 0
      BY DEF ConsolesApart
    <2>1. WindowOK(c) /\ CursorOK(c)
      BY DEF IInv
    <2>2. PICK k \in Nat : current_start_addr[c] = SCREEN_WIDTH * k
      BY <2>1 DEF WindowOK, Aligned
    <2>3. current_start_addr[c] % SCREEN_WIDTH = 0
      BY <2>2, ScreenAssumption, MultipleMod
    <2> QED
      BY <2>1, <2>3 DEF WindowOK, CursorOK
  <1> QED
    BY <1>1, Invariance, PTL

\* The hardware cursor is that of the current console.
LEMMA CursorInConsole == Spec => []CursorShown
  <1>1. IInv => CursorShown
    BY DEF IInv
  <1> QED
    BY <1>1, Invariance, PTL

\* A cursor that leaves the window by one cell or one line takes it along.
LEMMA SettleVisible ==
    ASSUME IInv, NEW cur \in Int, Settle(nr_current_console, cur),
           cur \in original_addr(nr_current_console) .. End(nr_current_console) - 1,
           cur \in current_start_addr[nr_current_console] - 1
                      .. current_start_addr[nr_current_console] + SCREEN_SIZE
    PROVE  OnScreen(nr_current_console)'
  <1> DEFINE n == nr_current_console
             s == current_start_addr[n]
             o == original_addr(n)
             e == End(n)
  <1>1. n \in Consoles /\ n' = n
    BY DEF IInv, Domains, Settle
  <1>2. /\ o \in Nat /\ e \in Nat /\ s \in Nat /\ s >= o
        /\ SCREEN_WIDTH \in Nat \ {0} /\ SCREEN_SIZE \in Nat /\ SCREEN_SIZE >= 2 * SCREEN_WIDTH
    BY <1>1, Console1, AlignedStep, ScreenAssumption DEF IInv, WindowOK
  <1>3. cursor'[n] = cur /\ crtc_start' = Shown(cur, Scrolled(n, cur))
    BY <1>1 DEF Settle, IInv, Domains
  <1> SUFFICES cur \in Shown(cur, Scrolled(n, cur))
                          .. Shown(cur, Scrolled(n, cur)) + SCREEN_SIZE - 1
    BY <1>1, <1>3 DEF OnScreen
  <1>4. CASE cur \in s .. s + SCREEN_SIZE - 1
    <2>1. Scrolled(n, cur) = s
      BY <1>2, <1>4 DEF Scrolled, Below
    <2>2. Shown(cur, s) = s
      BY <1>2, <1>4 DEF Shown
    <2> QED
      BY <1>4, <2>1, <2>2
  <1>5. CASE cur = s + SCREEN_SIZE
    <2>1. Scrolled(n, cur) = Down(n, cur)
      BY <1>2, <1>5 DEF Scrolled, Below
    <2>2. Down(n, cur) = s + SCREEN_WIDTH
      BY <1>2, <1>5 DEF Down
    <2>3. Shown(cur, s + SCREEN_WIDTH) = s + SCREEN_WIDTH
      BY <1>2, <1>5 DEF Shown
    <2> QED
      BY <1>2, <1>5, <2>1, <2>2, <2>3
  <1>6. CASE cur = s - 1
    <2>1. Scrolled(n, cur) = Up(n) /\ s > o
      BY <1>2, <1>6 DEF Scrolled
    <2>2. Up(n) = s - SCREEN_WIDTH
      BY <2>1 DEF Up
    <2>3. Shown(cur, s - SCREEN_WIDTH) = s - SCREEN_WIDTH
      BY <1>2, <1>6 DEF Shown
    <2> QED
      BY <1>2, <1>6, <2>1, <2>2, <2>3
  <1> QED
    BY <1>2, <1>4, <1>5, <1>6

LEMMA OutCharVisible ==
    ASSUME IInv, OutChar, cursor' # cursor,
           cursor'[nr_current_console] # End(nr_current_console),
           cursor[nr_current_console] \in current_start_addr[nr_current_console]
                  .. current_start_addr[nr_current_console] + SCREEN_SIZE - 1
    PROVE  OnScreen(nr_current_console)'
  <1> DEFINE n == nr_current_console
             s == current_start_addr[n]
             o == original_addr(n)
             e == End(n)
  <1>1. n \in Consoles
    BY DEF IInv, Domains
  <1>2. /\ o \in Nat /\ e \in Nat /\ s \in Nat /\ s >= o
        /\ Aligned(o) /\ Aligned(s) /\ Aligned(SCREEN_SIZE)
        /\ SCREEN_WIDTH \in Nat \ {0} /\ SCREEN_SIZE \in Nat
        /\ cursor[n] \in o .. e /\ cursor_table[n] = cursor[n]
    BY <1>1, Console1, AlignedStep, Limit, ScreenAssumption DEF IInv, WindowOK, CursorOK
  <1>3. ASSUME NEW cur \in Int, Settle(n, cur), cur \in o .. e,
               cur # cursor[n] => cur \in s - 1 .. s + SCREEN_SIZE
        PROVE  OnScreen(n)'
    <2>1. cursor' = [cursor EXCEPT ![n] = cur]
      BY <1>3 DEF Settle
    <2>2. cur # cursor[n]
      BY <1>1, <2>1 DEF IInv, Domains
    <2>3. cur # e
      BY <1>1, <2>1 DEF IInv, Domains
    <2>4. cur \in o .. e - 1
      BY <1>2, <1>3, <2>3
    <2> QED
      BY <1>3, <2>2, <2>4, SettleVisible
  <1>4. CASE NewLine(n)
    <2> DEFINE line == (cursor[n] - o) \div SCREEN_WIDTH
    <2>1. CASE cursor[n] < e - SCREEN_WIDTH
      <3>1. cursor[n] - o \in Nat
        BY <1>2
      <3>2. /\ line \in Nat /\ SCREEN_WIDTH * line <= cursor[n] - o
            /\ cursor[n] - o < SCREEN_WIDTH * line + SCREEN_WIDTH
            /\ SCREEN_WIDTH * line \in Nat
        BY <1>2, <3>1, Division, ProductNat
      <3>3. SCREEN_WIDTH * (line + 1) = SCREEN_WIDTH * line + SCREEN_WIDTH
        BY <1>2, <3>2, Successor
      <3>4. Settle(n, o + SCREEN_WIDTH * (line + 1))
        BY <1>4, <2>1 DEF NewLine
      <3>5. Aligned(o + SCREEN_WIDTH * line) /\ Aligned(s + SCREEN_SIZE)
        <4>1. Aligned(SCREEN_WIDTH * line)
          BY <3>2 DEF Aligned
        <4> QED
          BY <1>2, <4>1, AlignedSum
      <3> HIDE DEF line, n, o, e, s
      <3>6. o + SCREEN_WIDTH * line < s + SCREEN_SIZE
        BY <1>2, <3>2 DEF n, s
      <3>7. o + SCREEN_WIDTH * line + SCREEN_WIDTH <= s + SCREEN_SIZE
        BY <3>5, <3>6, AlignedStep
      <3>8. o + SCREEN_WIDTH * (line + 1) \in o .. e
        BY <1>2, <2>1, <3>2, <3>3
      <3>9. o + SCREEN_WIDTH * (line + 1) \in s - 1 .. s + SCREEN_SIZE
        BY <1>2, <3>2, <3>3, <3>7 DEF n, s
      <3>10. o + SCREEN_WIDTH * (line + 1) \in Int
        BY <1>2, <3>2, <3>3
      <3> QED
        BY <1>3, <3>4, <3>8, <3>9, <3>10 DEF n
    <2>2. CASE ~(cursor[n] < e - SCREEN_WIDTH)
      <3>1. Settle(n, cursor[n])
        BY <1>4, <2>2 DEF NewLine
      <3> QED
        BY <1>2, <1>3, <3>1
    <2> QED
      BY <2>1, <2>2
  <1>5. CASE Backspace(n)
    <2>1. CASE CanGoBack(n)
      BY <1>2, <1>3, <1>5, <2>1 DEF Backspace, CanGoBack
    <2>2. CASE ~CanGoBack(n)
      BY <1>2, <1>3, <1>5, <2>2 DEF Backspace
    <2> QED
      BY <2>1, <2>2
  <1>6. CASE Character(n)
    <2>1. CASE HasRoom(n)
      BY <1>2, <1>3, <1>6, <2>1 DEF Character, HasRoom
    <2>2. CASE ~HasRoom(n)
      BY <1>2, <1>3, <1>6, <2>2 DEF Character
    <2> QED
      BY <2>1, <2>2
  <1> QED
    BY <1>4, <1>5, <1>6 DEF OutChar

\* Scrolling by one line is enough to keep the cursor on the screen.
LEMMA VisibleInConsole == Spec => TypingKeepsVisible
  <1>1. ASSUME IInv, [Next]_vars
        PROVE  [LET c == nr_current_console
                IN  /\ nr_current_console' = c /\ cursor' # cursor /\ cursor'[c] # End(c)
                    /\ cursor[c] \in current_start_addr[c]
                                       .. current_start_addr[c] + SCREEN_SIZE - 1
                    => OnScreen(c)']_vars
    <2>1. CASE OutChar
      BY <1>1, <2>1, OutCharVisible
    <2>2. CASE cursor' = cursor
      BY <2>2
    <2>3. OutChar \/ cursor' = cursor
      BY <1>1 DEF Next, ScrollScreen, SelectConsole, vars
    <2> QED
      BY <2>1, <2>2, <2>3
  <1> QED
    BY <1>1, Invariance, PTL DEF Spec, TypingKeepsVisible

-----------------------------------------------------------------------------
(* task_tty within a call                                                  *)

\* What the call of task_tty found: the cursor and the window of its console.
From   == cursor[nr]
Window == current_start_addr[nr]

\* What it will make of the cursor, and what it will have stored.
Target ==
    IF op = "newline"
    THEN IF From < End(nr) - SCREEN_WIDTH
         THEN original_addr(nr) + SCREEN_WIDTH * ((From - original_addr(nr)) \div SCREEN_WIDTH + 1)
         ELSE From
    ELSE IF op = "backspace" /\ From > original_addr(nr) THEN From - 1
    ELSE IF op = "x" /\ From < End(nr) THEN From + 1
    ELSE From
StoredBy ==
    IF op = "backspace" /\ From > original_addr(nr) THEN [console |-> nr, cell |-> From - 1]
    ELSE IF op = "x" /\ From < End(nr) THEN [console |-> nr, cell |-> From]
    ELSE NoStore

\* Where it may move the window.
Upper   == Up(nr)
Lower   == Down(nr, Target)
Settled == Scrolled(nr, Target)

OutOps    == {"x", "newline", "backspace"}
FirstPcs  == {"out_char", "newline", "nl_load", "nl_store", "backspace", "bs_load",
              "bs_store", "x"}
CellPcs   == {"cell", "table", "table_store", "copy", "copy_store"}
TailPcs   == {"tail", "tail_up", "tail2", "tail_down"}
UpPcs     == {"up", "up_load", "up_store", "up_shown", "up_set"}
DownPcs   == {"down", "down2", "down_load", "down_store", "down_shown", "down_set"}
ShowPcs   == {"show", "show_above", "show2", "show_below", "above", "above_set", "below",
              "below_set", "inside", "inside_set"}
FlushPcs  == {"flush", "flush_set", "flush_table", "flush_store"} \cup ShowPcs
SelectPcs == {"select", "select_set", "select2", "select2_set"}

\* Only the console of the call differs from when it began.
Framed ==
    /\ m_current \in Consoles /\ (op # "select" => m_current = nr_current_console)
    /\ m_cursor = [cursor EXCEPT ![nr] = m_cursor[nr]]
    /\ m_start = [current_start_addr EXCEPT ![nr] = m_start[nr]]
    /\ m_table = [cursor_table EXCEPT ![nr] = m_table[nr]]

AtRest ==
    pc = "idle" => /\ op = "none" /\ m_cursor = cursor /\ m_start = current_start_addr
                   /\ m_table = cursor_table /\ m_current = nr_current_console
                   /\ m_crtc_cursor = crtc_cursor /\ m_crtc_start = crtc_start
                   /\ m_stored = stored

\* Where each kind of call can be.
OpOK ==
    /\ pc \in {"idle", "bs_cell"} \cup FirstPcs \cup CellPcs \cup TailPcs \cup UpPcs
              \cup DownPcs \cup FlushPcs \cup SelectPcs
    /\ pc \in {"out_char"} \cup TailPcs \cup FlushPcs => op \in OutOps
    /\ pc \in {"newline", "nl_load", "nl_store"} => op = "newline"
    /\ pc \in {"backspace", "bs_load", "bs_store", "bs_cell"} => op = "backspace"
    /\ pc \in {"x", "cell"} => op = "x"
    /\ pc \in CellPcs => op \in {"x", "backspace"}
    /\ pc \in UpPcs => op \in OutOps \cup {"up"}
    /\ pc \in DownPcs => op \in OutOps \cup {"down"}
    /\ pc \in SelectPcs => op = "select"

\* How far it is: the cursor, its copy, the window and the cell.
CursorThere ==
    m_cursor[nr] = IF pc \in FirstPcs \/ (pc \in CellPcs /\ op = "x") THEN From ELSE Target
TableThere ==
    /\ m_table[nr] \in {From, Target}
    /\ pc \in FirstPcs \cup {"bs_cell", "cell", "table", "table_store"} => m_table[nr] = From
    /\ pc \in {"copy", "copy_store"} \cup ShowPcs => m_table[nr] = Target
StartThere ==
    m_start[nr] = IF pc \in {"up_shown", "up_set"} THEN Upper
                  ELSE IF pc \in {"down_shown", "down_set"} THEN Lower
                  ELSE IF pc \in {"tail2", "tail_down"} /\ Target < Window
                  THEN Upper
                  ELSE IF pc \in FlushPcs THEN Settled
                  ELSE Window
StoredThere ==
    pc # "idle" => m_stored = IF pc \in FirstPcs \cup {"bs_cell", "cell"} THEN NoStore ELSE StoredBy
RegisterThere ==
    /\ op \in {"up", "down"} => m_crtc_cursor = crtc_cursor
    /\ pc \in {"flush_table", "flush_store"} \cup ShowPcs => m_crtc_cursor = Target
    /\ pc \in {"select2", "select2_set"} => m_crtc_cursor = Target

\* What was loaded.
Loaded ==
    /\ pc \in {"nl_store", "bs_store", "table_store"} => eax = From
    /\ pc \in {"tail_up", "tail_down", "copy_store", "flush_set", "flush_store", "show_above",
               "show_below", "above_set", "below_set", "select_set"} => eax = Target
    /\ pc \in {"up_store", "down_store"} => eax = Window
    /\ pc \in {"up_set", "down_set", "inside_set", "select2_set"} => eax = m_start[nr]
    /\ pc \in {"backspace", "bs_load", "bs_store", "bs_cell", "x", "cell"} => p_vmem = From

\* The outcomes of the conditions on the way.
Decided ==
    /\ pc \in {"nl_load", "nl_store"} => From < End(nr) - SCREEN_WIDTH
    /\ pc \in {"bs_load", "bs_store", "bs_cell"} => From > original_addr(nr)
    /\ pc \in CellPcs => IF op = "x" THEN From < End(nr) ELSE From > original_addr(nr)
    /\ pc \in UpPcs /\ op # "up" => Target < Window
    /\ pc \in {"up_load", "up_store"} => Window > original_addr(nr)
    /\ pc \in DownPcs /\ op # "down" => ~(Target < Window) /\ Target >= Window + SCREEN_SIZE
    /\ pc \in {"down2", "down_load", "down_store"}
          => Window + SCREEN_SIZE < End(nr)
    /\ pc \in {"down_load", "down_store"} => Target > SCREEN_WIDTH + original_addr(nr)
    /\ pc \in {"above", "above_set"} => Target < Settled
    /\ pc \in {"show2", "show_below", "below", "below_set", "inside", "inside_set"}
          => ~(Target < Settled)
    /\ pc \in {"below", "below_set"} => Target > Settled + SCREEN_SIZE
    /\ pc \in {"inside", "inside_set"} => ~(Target > Settled + SCREEN_SIZE)

\* Together, with IInv of the bystander, the inductive invariant of WritersSpec.
WInv == /\ Framed /\ AtRest /\ OpOK /\ CursorThere /\ TableThere /\ StartThere /\ StoredThere
        /\ RegisterThere /\ Loaded /\ Decided

-----------------------------------------------------------------------------
(* The numbers of a call                                                   *)

\* Everything is an address in the memory of the console, and fits.
Numbers ==
    /\ nr \in Consoles /\ original_addr(nr) \in Nat /\ End(nr) \in Nat /\ End(nr) < UINT
    /\ From \in Nat /\ original_addr(nr) <= From /\ From <= End(nr)
    /\ Target \in Nat
    /\ Window \in Nat /\ original_addr(nr) <= Window /\ Window + SCREEN_SIZE <= End(nr)
    /\ SCREEN_WIDTH \in Nat /\ SCREEN_SIZE \in Nat /\ 2 * SCREEN_WIDTH <= SCREEN_SIZE
    /\ SCREEN_WIDTH > 0 /\ UINT \in Nat
    /\ IF Window > original_addr(nr)
       THEN Window - SCREEN_WIDTH >= original_addr(nr) /\ Upper = Window - SCREEN_WIDTH
       ELSE Upper = Window

LEMMA EndFits == ASSUME NEW c \in Consoles PROVE End(c) < UINT
  <1> DEFINE h == V_MEM_SIZE \div 2
             q == h \div NR_CONSOLE
             w == SCREEN_WIDTH
  <1>1. /\ V_MEM_SIZE \in Nat /\ SCREEN_SIZE \in Nat /\ UINT \in Nat
        /\ V_MEM_SIZE + SCREEN_SIZE < UINT
        /\ NR_CONSOLE \in Nat \ {0} /\ w \in Nat \ {0}
    BY ScreenAssumption, WritersAssumption
  <1>2. h \in Nat /\ 2 * h <= V_MEM_SIZE
    BY <1>1, Division
  <1>3. q \in Nat /\ NR_CONSOLE * q <= h
    BY <1>1, <1>2, Division
  <1>4. v_mem_limit <= q /\ v_mem_limit \in Nat
    BY <1>1, <1>3, Division, Limit DEF v_mem_limit
  <1>5. c \in Nat /\ c + 1 <= NR_CONSOLE
    BY <1>1 DEF Consoles
  <1> HIDE DEF h, q, w
  <1>6. c * v_mem_limit + v_mem_limit <= NR_CONSOLE * q
    <2>1. \A m \in Nat, p \in Nat, k \in Nat, n \in Nat :
             m <= p /\ k + 1 <= n => k * m + m <= n * p
      BY SMT
    <2> HIDE DEF h, q, w
    <2> QED
      BY <1>1, <1>3, <1>4, <1>5, <2>1
  <1>7. End(c) = c * v_mem_limit + v_mem_limit
    BY DEF End, original_addr
  <1>8. c * v_mem_limit \in Nat /\ NR_CONSOLE * q \in Nat
    BY <1>1, <1>3, <1>4, <1>5, ProductNat
  <1> QED
    BY <1>1, <1>2, <1>3, <1>4, <1>6, <1>7, <1>8

\* An unsigned int holds everything that is computed.
LEMMA Small == ASSUME NEW x \in Nat, x < UINT PROVE U(x) = x
  BY WritersAssumption, SMT DEF U

LEMMA CallNumbers == IInv /\ Framed => Numbers
  <1> SUFFICES ASSUME IInv, Framed PROVE Numbers
    OBVIOUS
  <1> DEFINE o == original_addr(nr)
             e == End(nr)
             line == (From - o) \div SCREEN_WIDTH
  <1>1. nr \in Consoles
    BY DEF Framed, nr
  <1>2. /\ WindowOK(nr) /\ CursorOK(nr)
        /\ o \in Nat /\ e \in Nat /\ e = o + v_mem_limit /\ e < UINT
        /\ Aligned(o) /\ SCREEN_WIDTH \in Nat \ {0} /\ SCREEN_SIZE \in Nat
        /\ 2 * SCREEN_WIDTH <= SCREEN_SIZE /\ UINT \in Nat
    BY <1>1, Console1, EndFits, ScreenAssumption, WritersAssumption DEF IInv
  <1>3. From \in Nat /\ o <= From /\ From <= e
    BY <1>2 DEF CursorOK, From
  <1>4. Window \in Nat /\ o <= Window /\ Window + SCREEN_SIZE <= e /\ Aligned(Window)
    BY <1>2 DEF WindowOK, Window
  <1>5. IF Window > o THEN Window - SCREEN_WIDTH >= o /\ Upper = Window - SCREEN_WIDTH
                      ELSE Upper = Window
    BY <1>2, <1>4, AlignedStep DEF Upper, Up, Window
  <1>6. line \in Nat /\ SCREEN_WIDTH * (line + 1) \in Nat
    <2>1. From - o \in Nat
      BY <1>2, <1>3
    <2>2. line \in Nat
      BY <1>2, <2>1, Division
    <2> QED
      BY <1>2, <2>2, ProductNat
  <1>7. Target \in Nat
    BY <1>2, <1>3, <1>6 DEF Target
  <1> QED
    BY <1>1, <1>2, <1>3, <1>4, <1>5, <1>7 DEF Numbers

-----------------------------------------------------------------------------
(* The steps within a call                                                 *)

\* Within a call what the bystander sees, and so the plan of the call, stays.
LEMMA Fixed ==
    ASSUME UNCHANGED <<vars, op, m_current>>
    PROVE  /\ UNCHANGED <<From, Window, Target, StoredBy, Upper, Lower, Settled>>
           /\ original_addr(nr)' = original_addr(nr) /\ End(nr)' = End(nr)
  BY DEF vars, nr, From, Window, Target, StoredBy, Upper, Lower, Settled, Up, Down, Scrolled, Below,
         NoStore, original_addr, End

\* A store into the console of the call.
LEMMA StoredInto ==
    ASSUME NEW f, NEW g, NEW i, NEW v, f = [g EXCEPT ![i] = f[i]], i \in DOMAIN g
    PROVE  /\ [f EXCEPT ![i] = v] = [g EXCEPT ![i] = v]
           /\ [f EXCEPT ![i] = v][i] = v
  OBVIOUS

\* A step within a call keeps the other consoles.
LEMMA FrameStays ==
    ASSUME IInv, Framed, UNCHANGED <<vars, op, m_current>>,
           \/ UNCHANGED m_cursor \/ \E v : m_cursor' = [m_cursor EXCEPT ![nr] = v],
           \/ UNCHANGED m_start \/ \E v : m_start' = [m_start EXCEPT ![nr] = v],
           \/ UNCHANGED m_table \/ \E v : m_table' = [m_table EXCEPT ![nr] = v]
    PROVE  /\ Framed'
           /\ \A v : m_cursor' = [m_cursor EXCEPT ![nr] = v] => m_cursor'[nr] = v
           /\ \A v : m_start' = [m_start EXCEPT ![nr] = v] => m_start'[nr] = v
           /\ \A v : m_table' = [m_table EXCEPT ![nr] = v] => m_table'[nr] = v
  <1>1. /\ nr \in DOMAIN cursor /\ nr \in DOMAIN current_start_addr /\ nr \in DOMAIN cursor_table
    BY DEF IInv, Domains, Framed, nr
  <1>2. nr' = nr /\ cursor' = cursor /\ current_start_addr' = current_start_addr
        /\ cursor_table' = cursor_table
    BY DEF nr, vars
  <1>3. /\ m_cursor = [cursor EXCEPT ![nr] = m_cursor[nr]]
        /\ m_start = [current_start_addr EXCEPT ![nr] = m_start[nr]]
        /\ m_table = [cursor_table EXCEPT ![nr] = m_table[nr]]
    BY DEF Framed
  <1> HIDE DEF nr
  <1>4. \A v : m_cursor' = [m_cursor EXCEPT ![nr] = v]
                  => m_cursor'[nr] = v /\ m_cursor' = [cursor EXCEPT ![nr] = v]
    BY <1>1, <1>3, StoredInto
  <1>5. \A v : m_start' = [m_start EXCEPT ![nr] = v]
                  => m_start'[nr] = v /\ m_start' = [current_start_addr EXCEPT ![nr] = v]
    BY <1>1, <1>3, StoredInto
  <1>6. \A v : m_table' = [m_table EXCEPT ![nr] = v]
                  => m_table'[nr] = v /\ m_table' = [cursor_table EXCEPT ![nr] = v]
    BY <1>1, <1>3, StoredInto
  <1>7. /\ m_cursor' = [cursor EXCEPT ![nr] = m_cursor'[nr]]
        /\ m_start' = [current_start_addr EXCEPT ![nr] = m_start'[nr]]
        /\ m_table' = [cursor_table EXCEPT ![nr] = m_table'[nr]]
    BY <1>3, <1>4, <1>5, <1>6
  <1>8. m_current' \in Consoles /\ (op' # "select" => m_current' = nr_current_console')
    BY DEF Framed, vars
  <1> QED
    BY <1>2, <1>4, <1>5, <1>6, <1>7, <1>8 DEF Framed

\* What every step within a call may rely on.
LEMMA Plan ==
    ASSUME IInv, WInv, UNCHANGED <<vars, op, m_current>>
    PROVE  /\ Numbers
           /\ UNCHANGED <<From, Window, Target, StoredBy, Upper, Lower, Settled, nr>>
           /\ original_addr(nr)' = original_addr(nr) /\ End(nr)' = End(nr)
           /\ Settled = IF Target < Window THEN Upper
                        ELSE IF Target >= Window + SCREEN_SIZE THEN Lower ELSE Window
           /\ Lower = IF Window + SCREEN_SIZE < End(nr) /\ Target > SCREEN_WIDTH + original_addr(nr)
                      THEN Window + SCREEN_WIDTH ELSE Window
           /\ UNCHANGED mem => Framed'
  <1>1. Numbers
    BY CallNumbers DEF WInv
  <1>2. /\ UNCHANGED <<From, Window, Target, StoredBy, Upper, Lower, Settled, nr>>
        /\ original_addr(nr)' = original_addr(nr) /\ End(nr)' = End(nr)
    BY Fixed DEF nr
  <1>3. Settled = IF Target < Window THEN Upper
                  ELSE IF Target >= Window + SCREEN_SIZE THEN Lower ELSE Window
    BY DEF Settled, Scrolled, Below, Upper, Lower, Window
  <1>4. Lower = IF Window + SCREEN_SIZE < End(nr) /\ Target > SCREEN_WIDTH + original_addr(nr)
                THEN Window + SCREEN_WIDTH ELSE Window
    BY DEF Lower, Down, Window
  <1>5. UNCHANGED mem => Framed'
    BY FrameStays DEF WInv, mem
  <1> QED
    BY <1>1, <1>2, <1>3, <1>4, <1>5

\* No unsigned computation wraps around.
LEMMA Computed ==
    ASSUME Numbers
    PROVE  /\ U(From - original_addr(nr)) = From - original_addr(nr)
           /\ From > original_addr(nr) => U(From - 1) = From - 1
           /\ Window > original_addr(nr) => U(Window - SCREEN_WIDTH) = Window - SCREEN_WIDTH
  <1>1. /\ From - original_addr(nr) \in Nat /\ From - original_addr(nr) < UINT
        /\ From > original_addr(nr) => From - 1 \in Nat /\ From - 1 < UINT
        /\ Window > original_addr(nr)
              => Window - SCREEN_WIDTH \in Nat /\ Window - SCREEN_WIDTH < UINT
    BY DEF Numbers
  <1> QED
    BY <1>1, Small

\* The conditions of out_char, on the memory as it is now.
LEMMA Conditions ==
    /\ Now!CanGoBack(nr) <=> m_cursor[nr] > original_addr(nr)
    /\ Now!HasRoom(nr) <=> m_cursor[nr] < End(nr)
  BY DEF Now!CanGoBack, Now!HasRoom, Now!original_addr, Now!End, Now!v_mem_limit,
         original_addr, End, v_mem_limit

LEMMA TailWithin == ASSUME IInv, WInv, TailSteps, UNCHANGED vars, pc' # "idle" PROVE WInv'
  <1> USE DEF WInv, mem, AtRest, OpOK, CursorThere, TableThere, StartThere, StoredThere,
              RegisterThere, Loaded, Decided, OutOps, FirstPcs, CellPcs, TailPcs, UpPcs,
              DownPcs, FlushPcs, ShowPcs, SelectPcs, Goto, vars, Load, Test, StoreCell,
              StoreCursor, StoreTable, StoreStart, SetCursor, SetStart
  <1>1. UNCHANGED <<vars, op, m_current>>
    BY DEF TailSteps
  <1>2. CASE Load("tail", "tail_up", m_cursor[nr])
    BY <1>1, <1>2, Plan, FrameStays DEF Numbers
  <1>3. CASE Test("tail_up", eax < m_start[nr], "up", "tail2")
    BY <1>1, <1>3, Plan, FrameStays DEF Numbers
  <1>4. CASE Load("tail2", "tail_down", m_cursor[nr])
    BY <1>1, <1>4, Plan, FrameStays DEF Numbers
  <1>5. CASE Test("tail_down", eax >= m_start[nr] + SCREEN_SIZE, "down", "flush")
    BY <1>1, <1>5, Plan, FrameStays DEF Numbers
  <1> QED
    BY <1>2, <1>3, <1>4, <1>5 DEF TailSteps

LEMMA UpWithin == ASSUME IInv, WInv, UpSteps, UNCHANGED vars, pc' # "idle" PROVE WInv'
  <1> USE DEF WInv, mem, AtRest, OpOK, CursorThere, TableThere, StartThere, StoredThere,
              RegisterThere, Loaded, Decided, OutOps, FirstPcs, CellPcs, TailPcs, UpPcs,
              DownPcs, FlushPcs, ShowPcs, SelectPcs, Goto, vars, Load, Test, StoreCell,
              StoreCursor, StoreTable, StoreStart, SetCursor, SetStart
  <1>1. UNCHANGED <<vars, op, m_current>>
    BY DEF UpSteps
  <1>2. CASE Test("up", m_start[nr] > original_addr(nr), "up_load", "up_shown")
    BY <1>1, <1>2, Plan, FrameStays DEF Numbers
  <1>3. CASE Load("up_load", "up_store", m_start[nr])
    BY <1>1, <1>3, Plan, FrameStays DEF Numbers
  <1>4. CASE StoreStart("up_store", "up_shown", U(eax - SCREEN_WIDTH))
    BY <1>1, <1>4, Plan, FrameStays, Computed DEF Numbers
  <1>5. CASE Load("up_shown", "up_set", m_start[nr])
    BY <1>1, <1>5, Plan, FrameStays DEF Numbers
  <1>6. CASE SetStart("up_set", IF op = "up" THEN "idle" ELSE "tail2", eax)
    BY <1>1, <1>6, Plan, FrameStays DEF Numbers
  <1> QED
    BY <1>2, <1>3, <1>4, <1>5, <1>6 DEF UpSteps

LEMMA DownWithin == ASSUME IInv, WInv, DownSteps, UNCHANGED vars, pc' # "idle" PROVE WInv'
  <1> USE DEF WInv, mem, AtRest, OpOK, CursorThere, TableThere, StartThere, StoredThere,
              RegisterThere, Loaded, Decided, OutOps, FirstPcs, CellPcs, TailPcs, UpPcs,
              DownPcs, FlushPcs, ShowPcs, SelectPcs, Goto, vars, Load, Test, StoreCell,
              StoreCursor, StoreTable, StoreStart, SetCursor, SetStart
  <1>1. UNCHANGED <<vars, op, m_current>>
    BY DEF DownSteps
  <1>2. CASE Test("down", m_start[nr] + SCREEN_SIZE < End(nr), "down2", "down_shown")
    BY <1>1, <1>2, Plan, FrameStays DEF Numbers
  <1>3. CASE Test("down2", m_cursor[nr] > SCREEN_WIDTH + original_addr(nr),
                  "down_load", "down_shown")
    BY <1>1, <1>3, Plan, FrameStays DEF Numbers
  <1>4. CASE Load("down_load", "down_store", m_start[nr])
    BY <1>1, <1>4, Plan, FrameStays DEF Numbers
  <1>5. CASE StoreStart("down_store", "down_shown", eax + SCREEN_WIDTH)
    BY <1>1, <1>5, Plan, FrameStays DEF Numbers
  <1>6. CASE Load("down_shown", "down_set", m_start[nr])
    BY <1>1, <1>6, Plan, FrameStays DEF Numbers
  <1>7. CASE SetStart("down_set", IF op = "down" THEN "idle" ELSE "flush", eax)
    BY <1>1, <1>7, Plan, FrameStays DEF Numbers
  <1> QED
    BY <1>2, <1>3, <1>4, <1>5, <1>6, <1>7 DEF DownSteps

LEMMA NewLineWithin == ASSUME IInv, WInv, NewLineSteps, UNCHANGED vars, pc' # "idle" PROVE WInv'
  <1> USE DEF WInv, mem, AtRest, OpOK, CursorThere, TableThere, StartThere, StoredThere,
              RegisterThere, Loaded, Decided, OutOps, FirstPcs, CellPcs, TailPcs, UpPcs,
              DownPcs, FlushPcs, ShowPcs, SelectPcs, Goto, vars, Load, Test, StoreCell,
              StoreCursor, StoreTable, StoreStart, SetCursor, SetStart
  <1>1. UNCHANGED <<vars, op, m_current>>
    BY DEF NewLineSteps
  <1>2. CASE Test("newline", m_cursor[nr] < End(nr) - SCREEN_WIDTH, "nl_load", "tail")
    BY <1>1, <1>2, Plan, FrameStays DEF Numbers, Target, StoredBy
  <1>3. CASE Load("nl_load", "nl_store", m_cursor[nr])
    BY <1>1, <1>3, Plan, FrameStays DEF Numbers
  <1>4. CASE StoreCursor("nl_store", "tail",
                         original_addr(nr)
                            + SCREEN_WIDTH * (U(eax - original_addr(nr)) \div SCREEN_WIDTH + 1))
    BY <1>1, <1>4, Plan, FrameStays, Computed DEF Numbers, Target, StoredBy
  <1> QED
    BY <1>2, <1>3, <1>4 DEF NewLineSteps

LEMMA CellWithin == ASSUME IInv, WInv, CellSteps, UNCHANGED vars, pc' # "idle" PROVE WInv'
  <1> USE DEF WInv, mem, AtRest, OpOK, CursorThere, TableThere, StartThere, StoredThere,
              RegisterThere, Loaded, Decided, OutOps, FirstPcs, CellPcs, TailPcs, UpPcs,
              DownPcs, FlushPcs, ShowPcs, SelectPcs, Goto, vars, Load, Test, StoreCell,
              StoreCursor, StoreTable, StoreStart, SetCursor, SetStart
  <1>1. UNCHANGED <<vars, op, m_current>>
    BY DEF CellSteps
  <1>2. CASE Test("backspace", Now!CanGoBack(nr), "bs_load", "tail")
    BY <1>1, <1>2, Plan, FrameStays, Conditions DEF Numbers, Target, StoredBy
  <1>3. CASE Load("bs_load", "bs_store", m_cursor[nr])
    BY <1>1, <1>3, Plan, FrameStays DEF Numbers
  <1>4. CASE StoreCursor("bs_store", "bs_cell", U(eax - 1))
    BY <1>1, <1>4, Plan, FrameStays, Computed DEF Numbers, Target
  <1>5. CASE StoreCell("bs_cell", "table", p_vmem - 1)
    BY <1>1, <1>5, Plan, FrameStays DEF Numbers, StoredBy
  <1>6. CASE Test("x", Now!HasRoom(nr), "cell", "tail")
    BY <1>1, <1>6, Plan, FrameStays, Conditions DEF Numbers, Target, StoredBy
  <1>7. CASE StoreCell("cell", "table", p_vmem)
    BY <1>1, <1>7, Plan, FrameStays DEF Numbers, StoredBy
  <1>8. CASE Load("table", "table_store", m_table[nr])
    BY <1>1, <1>8, Plan, FrameStays DEF Numbers
  <1>9. CASE StoreTable("table_store", "copy", IF op = "backspace" THEN U(eax - 1) ELSE eax + 1)
    BY <1>1, <1>9, Plan, FrameStays, Computed DEF Numbers, Target
  <1>10. CASE Load("copy", "copy_store", m_table[nr])
    BY <1>1, <1>10, Plan, FrameStays DEF Numbers
  <1>11. CASE StoreCursor("copy_store", "tail", eax)
    BY <1>1, <1>11, Plan, FrameStays DEF Numbers
  <1> QED
    BY <1>2, <1>3, <1>4, <1>5, <1>6, <1>7, <1>8, <1>9, <1>10, <1>11 DEF CellSteps

LEMMA FlushWithin == ASSUME IInv, WInv, FlushSteps, UNCHANGED vars, pc' # "idle" PROVE WInv'
  <1> USE DEF WInv, mem, AtRest, OpOK, CursorThere, TableThere, StartThere, StoredThere,
              RegisterThere, Loaded, Decided, OutOps, FirstPcs, CellPcs, TailPcs, UpPcs,
              DownPcs, FlushPcs, ShowPcs, SelectPcs, Goto, vars, Load, Test, StoreCell,
              StoreCursor, StoreTable, StoreStart, SetCursor, SetStart
  <1>1. UNCHANGED <<vars, op, m_current>>
    BY DEF FlushSteps
  <1>2. CASE Load("flush", "flush_set", m_cursor[nr])
    BY <1>1, <1>2, Plan, FrameStays DEF Numbers
  <1>3. CASE SetCursor("flush_set", "flush_table")
    BY <1>1, <1>3, Plan, FrameStays DEF Numbers
  <1>4. CASE Load("flush_table", "flush_store", m_cursor[nr])
    BY <1>1, <1>4, Plan, FrameStays DEF Numbers
  <1>5. CASE StoreTable("flush_store", "show", eax)
    BY <1>1, <1>5, Plan, FrameStays DEF Numbers
  <1>6. CASE Load("show", "show_above", m_cursor[nr])
    BY <1>1, <1>6, Plan, FrameStays DEF Numbers
  <1>7. CASE Test("show_above", eax < m_start[nr], "above", "show2")
    BY <1>1, <1>7, Plan, FrameStays DEF Numbers
  <1>8. CASE Load("show2", "show_below", m_cursor[nr])
    BY <1>1, <1>8, Plan, FrameStays DEF Numbers
  <1>9. CASE Test("show_below", eax > m_start[nr] + SCREEN_SIZE, "below", "inside")
    BY <1>1, <1>9, Plan, FrameStays DEF Numbers
  <1>10. CASE Load("above", "above_set", m_cursor[nr])
    BY <1>1, <1>10, Plan, FrameStays DEF Numbers
  <1>11. CASE SetStart("above_set", "idle", SCREEN_WIDTH * (eax \div SCREEN_WIDTH))
    BY <1>1, <1>11, Plan, FrameStays DEF Numbers
  <1>12. CASE Load("below", "below_set", m_cursor[nr])
    BY <1>1, <1>12, Plan, FrameStays DEF Numbers
  <1>13. CASE SetStart("below_set", "idle", SCREEN_WIDTH * (eax \div SCREEN_WIDTH + 1) - SCREEN_SIZE)
    BY <1>1, <1>13, Plan, FrameStays DEF Numbers
  <1>14. CASE Load("inside", "inside_set", m_start[nr])
    BY <1>1, <1>14, Plan, FrameStays DEF Numbers
  <1>15. CASE SetStart("inside_set", "idle", eax)
    BY <1>1, <1>15, Plan, FrameStays DEF Numbers
  <1> QED
    BY <1>2, <1>3, <1>4, <1>5, <1>6, <1>7, <1>8, <1>9, <1>10, <1>11, <1>12, <1>13, <1>14, <1>15
       DEF FlushSteps

LEMMA SelectWithin == ASSUME IInv, WInv, SelectSteps, UNCHANGED vars, pc' # "idle" PROVE WInv'
  <1> USE DEF WInv, mem, AtRest, OpOK, CursorThere, TableThere, StartThere, StoredThere,
              RegisterThere, Loaded, Decided, OutOps, FirstPcs, CellPcs, TailPcs, UpPcs,
              DownPcs, FlushPcs, ShowPcs, SelectPcs, Goto, vars, Load, Test, StoreCell,
              StoreCursor, StoreTable, StoreStart, SetCursor, SetStart
  <1>1. UNCHANGED <<vars, op, m_current>>
    BY DEF SelectSteps
  <1>2. CASE Load("select", "select_set", m_cursor[nr])
    BY <1>1, <1>2, Plan, FrameStays DEF Numbers
  <1>3. CASE SetCursor("select_set", "select2")
    BY <1>1, <1>3, Plan, FrameStays DEF Numbers
  <1>4. CASE Load("select2", "select2_set", m_start[nr])
    BY <1>1, <1>4, Plan, FrameStays DEF Numbers
  <1>5. CASE SetStart("select2_set", "idle", eax)
    BY <1>1, <1>5, Plan, FrameStays DEF Numbers
  <1> QED
    BY <1>2, <1>3, <1>4, <1>5 DEF SelectSteps

LEMMA EnterWithin == ASSUME IInv, WInv, Enter, UNCHANGED vars PROVE WInv'
  <1>1. UNCHANGED <<vars, op, m_current>> /\ UNCHANGED mem
    BY DEF Enter, mem
  <1> QED
    BY <1>1, Plan DEF Enter, WInv, mem, AtRest, OpOK, CursorThere, TableThere, StartThere,
       StoredThere, RegisterThere, Loaded, Decided, OutOps, FirstPcs, CellPcs, TailPcs, UpPcs,
       DownPcs, FlushPcs, ShowPcs, SelectPcs, vars

-----------------------------------------------------------------------------
(* The steps between two calls, and the last of a call                     *)

\* Between two calls the memory is what the bystander sees.
LEMMA RestWInv ==
    ASSUME IInv', pc' = "idle", op' = "none", Look
    PROVE  WInv'
  <1>1. /\ m_cursor' = cursor' /\ m_start' = current_start_addr' /\ m_table' = cursor_table'
        /\ m_current' = nr_current_console' /\ m_crtc_cursor' = crtc_cursor'
        /\ m_crtc_start' = crtc_start' /\ m_stored' = stored'
    BY DEF Look
  <1>2. /\ nr_current_console' \in Consoles
        /\ cursor' = [c \in Consoles |-> cursor'[c]]
        /\ current_start_addr' = [c \in Consoles |-> current_start_addr'[c]]
        /\ cursor_table' = [c \in Consoles |-> cursor_table'[c]]
    BY DEF IInv, Domains
  <1>3. cursor_table'[nr_current_console'] = cursor'[nr_current_console']
    BY <1>2 DEF IInv, CursorOK
  <1>4. Framed'
    <2>1. \A f, d : f = [c \in Consoles |-> f[c]] => f = [f EXCEPT ![d] = f[d]]
      OBVIOUS
    <2> QED
      BY <1>1, <1>2 DEF Framed, nr
  <1>5. Target' = From' /\ From' = cursor'[nr'] /\ Window' = current_start_addr'[nr']
    BY DEF Target, From, Window
  <1> QED
    BY <1>1, <1>3, <1>4, <1>5 DEF WInv, AtRest, OpOK, CursorThere, TableThere, StartThere,
       StoredThere, RegisterThere, Loaded, Decided, OutOps, FirstPcs, CellPcs, TailPcs, UpPcs,
       DownPcs, FlushPcs, ShowPcs, SelectPcs, nr

\* A call begins with the memory of the bystander, on the console he looks at,
\* but for a switch, which is on the console asked for.
LEMMA BeginWInv == ASSUME IInv, WInv, Begin, UNCHANGED vars PROVE WInv'
  <1>1. /\ m_cursor = cursor /\ m_start = current_start_addr /\ m_table = cursor_table
        /\ m_current = nr_current_console /\ m_crtc_cursor = crtc_cursor
        /\ pc = "idle"
    BY DEF Begin, WInv, AtRest
  <1>2. /\ UNCHANGED <<cursor, current_start_addr, cursor_table, nr_current_console, crtc_cursor>>
        /\ UNCHANGED <<m_cursor, m_start, m_table, m_crtc_cursor>>
        /\ m_stored' = NoStore
    BY DEF Begin, vars
  <1>3. /\ m_current' \in Consoles
        /\ op' # "select" => m_current' = m_current
        /\ \/ op' \in OutOps /\ pc' = "out_char"
           \/ op' \in {"up", "down"} /\ pc' = op'
           \/ op' = "select" /\ pc' = "select"
    BY <1>1 DEF Begin, OutOps, IInv, Domains
  <1>4. /\ cursor = [c \in Consoles |-> cursor[c]]
        /\ current_start_addr = [c \in Consoles |-> current_start_addr[c]]
        /\ cursor_table = [c \in Consoles |-> cursor_table[c]]
        /\ cursor_table[m_current'] = cursor[m_current']
    BY <1>3 DEF IInv, Domains, CursorOK
  <1>5. Framed'
    BY <1>1, <1>2, <1>3, <1>4 DEF Framed, nr
  <1>6. /\ From' = cursor[m_current'] /\ Window' = current_start_addr[m_current']
        /\ op' \in {"up", "down", "select"} => Target' = From' /\ StoredBy' = NoStore
    BY <1>2 DEF Target, StoredBy, From, Window, NoStore, nr
  <1> QED
    BY <1>1, <1>2, <1>3, <1>4, <1>5, <1>6 DEF WInv, AtRest, OpOK, CursorThere, TableThere,
       StartThere, StoredThere, RegisterThere, Loaded, Decided, OutOps, FirstPcs, CellPcs,
       TailPcs, UpPcs, DownPcs, FlushPcs, ShowPcs, SelectPcs, nr

\* The last step of a call ends it.
LEMMA Finish ==
    ASSUME IInv, WInv, TaskTty, pc # "idle", pc' = "idle"
    PROVE  /\ op' = "none" /\ UNCHANGED <<m_cursor, m_start, m_table, m_current, m_crtc_cursor,
                                         m_stored>>
           /\ \/ pc = "up_set" /\ op = "up" /\ m_crtc_start' = Upper
              \/ pc = "down_set" /\ op = "down" /\ m_crtc_start' = Lower
              \/ pc = "select2_set" /\ m_crtc_start' = Window
              \/ /\ pc \in {"above_set", "below_set", "inside_set"}
                 /\ m_crtc_start' = Shown(Target, Settled)
  <1>1. CASE NewLineSteps \/ CellSteps \/ TailSteps \/ Enter
    BY <1>1 DEF NewLineSteps, CellSteps, TailSteps, Enter, Goto, Load, Test, StoreCursor, StoreCell,
                StoreTable, WInv, OpOK, OutOps
  <1>2. CASE UpSteps
    BY <1>2 DEF UpSteps, Goto, Load, Test, StoreStart, SetStart, WInv, Loaded, StartThere
  <1>3. CASE DownSteps
    BY <1>3 DEF DownSteps, Goto, Load, Test, StoreStart, SetStart, WInv, Loaded, StartThere
  <1>4. CASE SelectSteps
    BY <1>4 DEF SelectSteps, Goto, Load, SetCursor, SetStart, WInv, Loaded, StartThere, FlushPcs,
                ShowPcs
  <1>5. CASE FlushSteps
    <2> USE DEF Goto, Load, Test, StoreTable, SetCursor, SetStart, WInv, Loaded, StartThere,
                FlushPcs, ShowPcs, Decided, Shown
    <2>1. CASE SetStart("above_set", "idle", SCREEN_WIDTH * (eax \div SCREEN_WIDTH))
      BY <2>1
    <2>2. CASE SetStart("below_set", "idle",
                        SCREEN_WIDTH * (eax \div SCREEN_WIDTH + 1) - SCREEN_SIZE)
      BY <2>2
    <2>3. CASE SetStart("inside_set", "idle", eax)
      BY <2>3
    <2> QED
      BY <1>5, <2>1, <2>2, <2>3 DEF FlushSteps
  <1>6. ~Begin
    BY DEF Begin
  <1> QED
    BY <1>1, <1>2, <1>3, <1>4, <1>5, <1>6 DEF TaskTty

\* out_char of the echoed character, once it is over.
LEMMA SettledOutChar ==
    ASSUME nr = nr_current_console, op \in OutOps, Settle(nr, Target), stored' = StoredBy,
           cursor_table[nr] = From
    PROVE  OutChar
  <1>1. CASE op = "newline"
    <2>1. NewLine(nr)
      BY <1>1 DEF NewLine, Target, StoredBy, From
    <2> QED
      BY <2>1 DEF OutChar
  <1>2. CASE op = "backspace"
    <2>1. Backspace(nr)
      BY <1>2 DEF Backspace, CanGoBack, Store, Target, StoredBy, From
    <2> QED
      BY <2>1 DEF OutChar
  <1>3. CASE op = "x"
    <2>1. Character(nr)
      BY <1>3 DEF Character, HasRoom, Store, Target, StoredBy, From
    <2> QED
      BY <2>1 DEF OutChar
  <1> QED
    BY <1>1, <1>2, <1>3 DEF OutOps

\* What the call has done to the consoles is then one operation of Console.
LEMMA FinishStep ==
    ASSUME IInv, WInv, TaskTty, Look, pc # "idle", pc' = "idle"
    PROVE  Next
  <1>1. /\ cursor' = [cursor EXCEPT ![nr] = m_cursor[nr]]
        /\ current_start_addr' = [current_start_addr EXCEPT ![nr] = m_start[nr]]
        /\ cursor_table' = [cursor_table EXCEPT ![nr] = m_table[nr]]
        /\ nr_current_console' = nr /\ crtc_cursor' = m_crtc_cursor
        /\ crtc_start' = m_crtc_start' /\ stored' = m_stored
    BY Finish DEF Look, WInv, Framed, nr
  <1>2. /\ nr \in Consoles /\ (op # "select" => nr = nr_current_console)
        /\ cursor_table[nr] = From
    BY DEF WInv, Framed, nr, From, IInv, CursorOK
  <1>3. /\ cursor = [c \in Consoles |-> cursor[c]]
        /\ current_start_addr = [c \in Consoles |-> current_start_addr[c]]
        /\ cursor_table = [c \in Consoles |-> cursor_table[c]]
    BY DEF IInv, Domains
  <1>4. From = cursor[nr] /\ Window = current_start_addr[nr]
    BY DEF From, Window
  <1>5. op \in {"up", "down", "select"} => Target = From /\ StoredBy = NoStore
    BY DEF Target, StoredBy
  <1> USE DEF WInv, CursorThere, TableThere, StartThere, StoredThere, RegisterThere, FirstPcs,
              CellPcs, TailPcs, FlushPcs, ShowPcs
  <1>6. CASE op \in {"up", "down"} /\ pc \in {"up_set", "down_set"}
    <2>1. /\ m_start[nr] \in {Upper, Lower} /\ crtc_start' = m_start[nr]
          /\ op = "up" => m_start[nr] = Upper
      BY <1>1, <1>6, Finish
    <2>2. UNCHANGED <<cursor, cursor_table, nr_current_console, crtc_cursor>> /\ stored' = NoStore
      BY <1>1, <1>2, <1>3, <1>4, <1>5, <1>6
    <2>3. Upper = Up(nr) /\ Lower = Down(nr, cursor[nr])
      BY <1>4, <1>5, <1>6 DEF Upper, Lower
    <2>4. ScrollScreen
      BY <1>1, <1>2, <1>6, <2>1, <2>2, <2>3 DEF ScrollScreen
    <2> QED
      BY <2>4 DEF Next
  <1>7. CASE pc = "select2_set"
    <2>1. op = "select"
      BY <1>7 DEF OpOK, SelectPcs
    <2>2. /\ UNCHANGED <<cursor, current_start_addr, cursor_table>> /\ stored' = NoStore
          /\ crtc_cursor' = cursor[nr] /\ crtc_start' = current_start_addr[nr]
      BY <1>1, <1>2, <1>3, <1>4, <1>5, <1>7, <2>1, Finish
    <2>3. SelectConsole(nr)
      BY <1>1, <2>2 DEF SelectConsole, CursorSet
    <2> QED
      BY <1>2, <2>3 DEF Next
  <1>8. CASE pc \in {"above_set", "below_set", "inside_set"}
    <2>1. op \in OutOps
      BY <1>8 DEF OpOK
    <2>2. /\ m_cursor[nr] = Target /\ m_table[nr] = Target /\ m_start[nr] = Settled
          /\ m_crtc_cursor = Target /\ m_stored = StoredBy
          /\ crtc_start' = Shown(Target, Settled)
      BY <1>1, <1>8, <2>1, Finish DEF OutOps
    <2>3. nr = nr_current_console
      BY <1>2, <2>1 DEF OutOps
    <2>4. Settle(nr, Target) /\ stored' = StoredBy
      BY <1>1, <2>2, <2>3 DEF Settle, Settled
    <2>5. OutChar
      BY <1>2, <2>1, <2>3, <2>4, SettledOutChar
    <2> QED
      BY <2>5 DEF Next
  <1> QED
    BY <1>6, <1>7, <1>8, Finish

\* Between two calls a character printed is an operation of Console at once.
LEMMA PrintStep ==
    ASSUME IInv, WInv, PrintChar, Look, pc = "idle"
    PROVE  OutChar
  <1>1. /\ m_cursor = cursor /\ m_start = current_start_addr /\ m_table = cursor_table
        /\ m_current = nr_current_console /\ m_crtc_cursor = crtc_cursor
        /\ m_crtc_start = crtc_start /\ m_stored = stored
    BY DEF WInv, AtRest
  <1>2. /\ m_cursor' = cursor' /\ m_start' = current_start_addr' /\ m_table' = cursor_table'
        /\ m_current' = nr_current_console' /\ m_crtc_cursor' = crtc_cursor'
        /\ m_crtc_start' = crtc_start' /\ m_stored' = stored'
    BY DEF PrintChar, task, Look
  <1> USE DEF Now!Settle, Now!Scrolled, Now!Up, Now!Down, Now!Below, Now!Shown, Now!original_addr,
              Now!End, Now!v_mem_limit, Now!NoStore, Settle, Scrolled, Up, Down, Below, Shown,
              original_addr, End, v_mem_limit, NoStore
  <1>3. CASE Now!NewLine(nr)
    <2>1. NewLine(nr_current_console)
      BY <1>1, <1>2, <1>3 DEF Now!NewLine, NewLine, nr
    <2> QED
      BY <2>1 DEF OutChar
  <1>4. CASE Now!Character(nr)
    <2>1. Character(nr_current_console)
      BY <1>1, <1>2, <1>4 DEF Now!Character, Now!HasRoom, Now!Store, Character, HasRoom, Store, nr
    <2> QED
      BY <2>1 DEF OutChar
  <1> QED
    BY <1>3, <1>4 DEF PrintChar

-----------------------------------------------------------------------------
(* The theorems about the writers                                          *)

LEMMA InitWInv == WritersInit => IInv /\ WInv
  <1> SUFFICES ASSUME WritersInit PROVE IInv /\ WInv
    OBVIOUS
  <1>1. IInv
    BY InitIInv DEF WritersInit
  <1>2. /\ m_cursor = cursor /\ m_start = current_start_addr /\ m_table = cursor_table
        /\ m_current = nr_current_console /\ m_crtc_cursor = crtc_cursor
        /\ m_crtc_start = crtc_start /\ m_stored = stored /\ pc = "idle" /\ op = "none"
    BY DEF WritersInit, Init, Now!Init, original_addr, v_mem_limit, Consoles, NoStore,
           Now!original_addr, Now!v_mem_limit, Now!Consoles, Now!NoStore
  <1>3. /\ nr \in Consoles /\ cursor_table[nr] = From
        /\ cursor = [c \in Consoles |-> cursor[c]]
        /\ current_start_addr = [c \in Consoles |-> current_start_addr[c]]
        /\ cursor_table = [c \in Consoles |-> cursor_table[c]]
    BY <1>1, <1>2 DEF IInv, Domains, CursorOK, nr, From
  <1>4. Framed
    BY <1>2, <1>3 DEF Framed, nr
  <1>5. Target = From /\ From = cursor[nr] /\ Window = current_start_addr[nr]
    BY <1>2 DEF Target, From, Window
  <1> QED
    BY <1>1, <1>2, <1>3, <1>4, <1>5 DEF WInv, AtRest, OpOK, CursorThere, TableThere,
       StartThere, StoredThere, RegisterThere, Loaded, Decided, OutOps, FirstPcs, CellPcs,
       TailPcs, UpPcs, DownPcs, FlushPcs, ShowPcs, SelectPcs

\* A step of the writers is a step of Console or none at all.
LEMMA WritersStep ==
    ASSUME ~Overlap, IInv, WInv, [WritersNext]_<<vars, mem, task>>
    PROVE  IInv' /\ WInv' /\ [Next]_vars
  <1>1. CASE UNCHANGED <<vars, mem, task>>
    <2>1. UNCHANGED <<vars, op, m_current>> /\ UNCHANGED mem
      BY <1>1 DEF mem, task
    <2>2. IInv'
      BY <2>1, StepIInv
    <2>3. WInv'
      BY <1>1, <2>1, Plan DEF task, WInv, mem, AtRest, OpOK, CursorThere, TableThere, StartThere,
         StoredThere, RegisterThere, Loaded, Decided, vars
    <2> QED
      BY <2>1, <2>2, <2>3
  <1>2. CASE TaskTty /\ Look /\ pc' # "idle"
    <2>1. UNCHANGED vars
      BY <1>2 DEF Look
    <2>2. IInv'
      BY <2>1, StepIInv
    <2>3. WInv'
      BY <1>2, <2>1, BeginWInv, EnterWithin, NewLineWithin, CellWithin, TailWithin, UpWithin,
         DownWithin, FlushWithin, SelectWithin DEF TaskTty
    <2> QED
      BY <2>1, <2>2, <2>3
  <1>3. CASE TaskTty /\ Look /\ pc' = "idle"
    <2>1. pc # "idle"
      BY <1>3 DEF TaskTty, Begin, Enter, NewLineSteps, CellSteps, TailSteps, UpSteps, DownSteps,
                  FlushSteps, SelectSteps, Goto, Load, Test, StoreCell, StoreCursor, StoreTable,
                  StoreStart, SetCursor, SetStart
    <2>2. Next /\ op' = "none"
      BY <1>3, <2>1, FinishStep, Finish
    <2>3. IInv'
      BY <2>2, StepIInv
    <2> QED
      BY <1>3, <2>2, <2>3, RestWInv
  <1>4. CASE PrintChar /\ Look
    <2>1. pc = "idle" /\ pc' = "idle" /\ op' = "none"
      BY <1>4 DEF PrintChar, task, WInv, AtRest
    <2>2. Next
      BY <1>4, <2>1, PrintStep DEF Next
    <2>3. IInv'
      BY <2>2, StepIInv
    <2> QED
      BY <1>4, <2>1, <2>2, <2>3, RestWInv
  <1> QED
    BY <1>1, <1>2, <1>3, <1>4 DEF WritersNext

\* As long as nothing is printed within a call of task_tty, the call is always
\* where WInv says, whatever is printed between its calls.
THEOREM WritersInvariance == ASSUME ~Overlap PROVE WritersSpec => [](IInv /\ WInv)
  <1>1. IInv /\ WInv /\ [WritersNext]_<<vars, mem, task>> => IInv' /\ WInv'
    BY WritersStep
  <1> QED
    BY <1>1, InitWInv, PTL DEF WritersSpec

\* The statements of out_char, scroll_screen, flush and select_console, one load
\* or store at a time, add up to the operations of Console: whatever holds of
\* those holds of task_tty and the processes that print between its calls
\* (console.c 49-127).
THEOREM StatementsAddUp == ASSUME ~Overlap PROVE WritersSpec => ImplementsConsole
  <1>1. WritersInit => Init
    BY DEF WritersInit
  <1>2. IInv /\ WInv /\ [WritersNext]_<<vars, mem, task>> => [Next]_vars
    BY WritersStep
  <1> QED
    BY <1>1, <1>2, WritersInvariance, PTL DEF WritersSpec, ImplementsConsole, Spec

\* Then cursors, windows and registers are addresses (include/tty.h 18-23).
THEOREM TypeCorrect == ASSUME ~Overlap PROVE WritersSpec => []TypeOK
  BY StatementsAddUp, TypeOfConsole, PTL DEF ImplementsConsole

\* Then, whatever is echoed, printed, scrolled and switched, every console keeps
\* its cursor and its window in its own memory, the window on a line, and one
\* value for both copies of the cursor (console.c 49-101, 114-122).
THEOREM Apart == ASSUME ~Overlap PROVE WritersSpec => []ConsolesApart
  BY StatementsAddUp, ApartInConsole, PTL DEF ImplementsConsole

\* Then the hardware cursor is that of the current console (console.c 93, 109).
THEOREM CursorFollows == ASSUME ~Overlap PROVE WritersSpec => []CursorShown
  BY StatementsAddUp, CursorInConsole, PTL DEF ImplementsConsole

\* Then echoing or printing, in a console that is not full, with the cursor in the
\* recorded window keeps the cursor on the screen: scrolling by one line is
\* enough, and flush() shows the recorded window (console.c 83-101).
THEOREM TypingVisible == ASSUME ~Overlap PROVE WritersSpec => TypingKeepsVisible
  BY StatementsAddUp, VisibleInConsole, PTL DEF ImplementsConsole

\* Then no statement stores outside the console of its call, not even when that is
\* full or the user presses backspace in its first cell: neither what the
\* bystander sees of an operation (StoresInside) nor any store within one
\* (StoresStayInside).  What ConsoleWriters finds is due to printing within a call
\* alone (console.c 52, 61-80).
THEOREM Inside == ASSUME ~Overlap PROVE WritersSpec => [](StoresInside /\ StoresStayInside)
  <1>1. IInv /\ WInv => StoresInside /\ StoresStayInside
    <2> SUFFICES ASSUME IInv, WInv PROVE StoresStayInside
      BY DEF IInv
    <2> USE DEF StoresStayInside, Now!StoresInside, StoresInside, NoStore, Now!NoStore, Memory,
                Now!Memory, Now!original_addr, Now!End, Now!v_mem_limit, original_addr, End,
                v_mem_limit
    <2>1. CASE pc = "idle"
      BY <2>1 DEF IInv, WInv, AtRest
    <2>2. CASE pc # "idle"
      <3>1. m_stored = NoStore \/ m_stored = StoredBy
        BY <2>2 DEF WInv, StoredThere
      <3>2. Numbers
        BY CallNumbers DEF WInv
      <3> QED
        BY <3>1, <3>2 DEF StoredBy, Numbers
    <2> QED
      BY <2>1, <2>2
  <1> QED
    BY <1>1, WritersInvariance, PTL
=============================================================================
