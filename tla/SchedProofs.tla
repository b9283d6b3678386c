---------------------------- MODULE SchedProofs ----------------------------
(***************************************************************************)
(* The safety of the scheduler, for any number of processes and consoles   *)
(* and any share of ticks.  That every ready process runs (NoStarvation)   *)
(* and that the loops end (ScheduleEnds) is left to TLC.                   *)
(***************************************************************************)
EXTENDS Sched, TLAPS

\* What holds inside proc_schedule: who is chosen so far is ready, and the
\* ready processes already passed without a choice have no ticks.  The disk
\* driver is the exception: it may become ready behind the scan.
ChosenIsReady ==
    /\ pc = "user" => by = "none"
    /\ pc = "user" \/ greatest_ticks # 0 =>
          p_proc_ready \notin blocked /\ ticks[p_proc_ready] >= MinTicks
    /\ pc = "refill" => greatest_ticks = 0

NoTicksPassed ==
    /\ pc = "scan" /\ greatest_ticks = 0 =>
          \A q \in Procs \ {HD} : q < p /\ q \notin blocked => ticks[q] <= 0
    /\ pc = "refill" =>
          \A q \in Procs \ {HD} : q >= p /\ q \notin blocked => ticks[q] <= 0

IInv == TypeOK /\ ChosenIsReady /\ NoTicksPassed /\ OutputFollowsUser

-----------------------------------------------------------------------------
LEMMA InitIInv == Init => IInv
BY ProcAssumption, BusyAssumption, NumbersAssumption
   DEF Init, IInv, TypeOK, ChosenIsReady, NoTicksPassed, OutputFollowsUser, Procs, Consoles

LEMMA StepIInv == IInv /\ [Next]_vars => IInv'
<1> SUFFICES ASSUME IInv, [Next]_vars PROVE IInv'
  OBVIOUS
<1> USE ProcAssumption, BusyAssumption, NumbersAssumption
    DEF IInv, TypeOK, ChosenIsReady, NoTicksPassed, OutputFollowsUser
<1>1. CASE ClockUser
  <2>1. /\ p_proc_ready \notin blocked /\ ticks[p_proc_ready] >= MinTicks
        /\ ticks'[p_proc_ready] = ticks[p_proc_ready] - 1
        /\ ticks' \in [Procs -> (MinTicks - 1) .. Priority]
    BY <1>1 DEF ClockUser
  <2>2. TypeOK' /\ OutputFollowsUser'
    BY <1>1, <2>1 DEF ClockUser, Schedule
  <2>3. CASE ticks'[p_proc_ready] > 0
    <3>1. ChosenIsReady' /\ NoTicksPassed'
      BY <1>1, <2>1, <2>3 DEF ClockUser, Schedule
    <3> QED
      BY <2>2, <3>1
  <2>4. CASE ticks'[p_proc_ready] <= 0
    <3>1. pc' = "scan" /\ p' = 0 /\ greatest_ticks' = 0
      BY <1>1, <2>1, <2>4 DEF ClockUser, Schedule
    <3>2. ChosenIsReady' /\ NoTicksPassed'
      BY <3>1 DEF Procs
    <3> QED
      BY <2>2, <3>2
  <2>5. ticks'[p_proc_ready] > 0 \/ ticks'[p_proc_ready] <= 0
    BY <2>1
  <2> QED
    BY <2>3, <2>4, <2>5
<1>2. CASE ClockNested
  <2>1. /\ ticks' \in [Procs -> (MinTicks - 1) .. Priority]
        /\ ticks'[p_proc_ready] >= MinTicks
        /\ \A q \in Procs : ticks'[q] <= ticks[q]
    BY <1>2 DEF ClockNested
  <2> QED
    BY <1>2, <2>1 DEF ClockNested, Procs
<1>3. ASSUME NEW q \in Procs, CallWakes(q) PROVE IInv'
  BY <1>3 DEF CallWakes
<1>4. CASE CallBlocks
  BY <1>4 DEF CallBlocks, Schedule, Procs
<1>5. CASE HdInterrupt
  BY <1>5 DEF HdInterrupt
<1>6. ASSUME NEW c \in Consoles, SelectConsole(c) PROVE IInv'
  BY <1>6 DEF SelectConsole
<1>7. CASE ScanVisit
  <2>1. p \in Procs
    BY <1>7 DEF ScanVisit, Procs
  <2>2. CASE MostTicks
    <3>1. /\ p \notin blocked /\ ticks[p] > greatest_ticks
          /\ greatest_ticks' = ticks[p] /\ p_proc_ready' = p
      BY <1>7, <2>2 DEF ScanVisit, MostTicks
    <3>2. /\ pc' = "scan" /\ p' = p + 1
          /\ UNCHANGED <<blocked, ticks, by, nr_tty, nr_current_console>>
      BY <1>7 DEF ScanVisit
    <3>3. TypeOK'
      BY <2>1, <3>1, <3>2 DEF Procs
    <3>4. greatest_ticks' > 0
      BY <2>1, <3>1
    <3>5. ChosenIsReady' /\ NoTicksPassed' /\ OutputFollowsUser'
      BY <2>1, <3>1, <3>2, <3>4
    <3> QED
      BY <3>3, <3>5
  <2>3. CASE ~MostTicks
    <3>1. /\ pc' = "scan" /\ p' = p + 1
          /\ UNCHANGED <<blocked, ticks, p_proc_ready, by, nr_tty, nr_current_console,
                         greatest_ticks>>
      BY <1>7, <2>3 DEF ScanVisit
    <3>2. TypeOK' /\ ChosenIsReady' /\ OutputFollowsUser'
      BY <1>7, <2>1, <3>1 DEF ScanVisit, Procs
    <3>3. NoTicksPassed'
      <4>1. ASSUME greatest_ticks = 0 PROVE p \in blocked \/ ticks[p] <= 0
        <5>1. p \in blocked \/ ~(ticks[p] > greatest_ticks)
          BY <2>3 DEF MostTicks
        <5>2. ticks[p] \in Int
          BY <2>1
        <5> QED
          BY <4>1, <5>1, <5>2
      <4>2. ASSUME greatest_ticks = 0, NEW q \in Procs \ {HD}, q < p + 1, q \notin blocked
            PROVE  ticks[q] <= 0
        <5>1. q < p \/ q = p
          BY <2>1, <4>2 DEF Procs
        <5>2. pc = "scan"
          BY <1>7 DEF ScanVisit
        <5> QED
          BY <4>1, <4>2, <5>1, <5>2
      <4> QED
        BY <3>1, <4>2
    <3> QED
      BY <3>2, <3>3
  <2> QED
    BY <2>2, <2>3
<1>8. CASE ScanNobody
  BY <1>8 DEF ScanNobody, Procs
<1>9. CASE RefillVisit
  <2>1. /\ ticks' \in [Procs -> (MinTicks - 1) .. Priority]
        /\ \A q \in Procs : q # p => ticks'[q] = ticks[q]
    <3>1. Priority \in (MinTicks - 1) .. Priority
      OBVIOUS
    <3>2. ticks' = ticks \/ ticks' = [ticks EXCEPT ![p] = Priority]
      BY <1>9 DEF RefillVisit, Refilled
    <3>3. CASE ticks' = ticks
      BY <3>3
    <3>4. CASE ticks' = [ticks EXCEPT ![p] = Priority]
      <4> HIDE NumbersAssumption
      <4> QED
        BY <3>1, <3>4
    <3> QED
      BY <3>2, <3>3, <3>4
  <2>2. ASSUME NEW q \in Procs \ {HD}, q >= p', q \notin blocked
        PROVE  ticks'[q] <= 0
    <3>1. q >= p /\ q # p
      BY <1>9, <2>2 DEF RefillVisit, Procs
    <3> QED
      BY <1>9, <2>1, <2>2, <3>1 DEF RefillVisit
  <2>3. TypeOK' /\ ChosenIsReady' /\ OutputFollowsUser'
    BY <1>9, <2>1 DEF RefillVisit
  <2> QED
    BY <1>9, <2>2, <2>3 DEF RefillVisit
<1>10. CASE RefillEnd
  BY <1>10 DEF RefillEnd, Procs
<1>11. CASE ScanDone
  <2>1. /\ nr_tty' \in [Procs -> Consoles]
        /\ nr_tty'[p_proc_ready] = nr_current_console
    BY <1>11 DEF ScanDone, FollowTty
  <2> QED
    BY <1>11, <2>1 DEF ScanDone
<1>12. CASE UNCHANGED vars
  BY <1>12 DEF vars
<1> QED
  BY <1>1, <1>2, <1>3, <1>4, <1>5, <1>6, <1>7, <1>8, <1>9, <1>10, <1>11, <1>12
     DEF Next, ProcSchedule

\* IInv holds in every reachable state of the scheduler (clock.c).
THEOREM Invariance == Spec => []IInv
BY InitIInv, StepIInv, PTL DEF Spec

\* The scheduler's counters and locals stay in range (clock.c 12-48).
THEOREM TypeCorrect == Spec => []TypeOK
<1>1. IInv => TypeOK
  BY DEF IInv
<1> QED
  BY Invariance, <1>1, PTL

\* The process that has the CPU at user level is not blocked (clock.c 33-36).
THEOREM OnlyReadyRun == Spec => []ReadyRuns
<1>1. IInv => ReadyRuns
  BY DEF IInv, ChosenIsReady, ReadyRuns
<1> QED
  BY Invariance, <1>1, PTL

\* A running process writes to the console the user looks at (clock.c:47).
THEOREM OutputFollows == Spec => []OutputFollowsUser
<1>1. IInv => OutputFollowsUser
  BY DEF IInv
<1> QED
  BY Invariance, <1>1, PTL

\* No process but the disk driver gets a new share before its old one is used
\* up (clock.c 40-44).
THEOREM SharesUsedUp == Spec => NoEarlyRefill
<1> DEFINE Early == \A q \in Procs \ {HD} : ticks'[q] > ticks[q] => ticks[q] <= 0
<1>1. IInv /\ [Next]_vars => [Early]_vars
  <2> SUFFICES ASSUME IInv, Next PROVE Early
    BY DEF vars
  <2> USE ProcAssumption, BusyAssumption, NumbersAssumption DEF IInv, TypeOK
  <2>1. CASE RefillVisit
    <3>1. \A q \in Procs : q # p => ticks'[q] = ticks[q]
      BY <2>1 DEF RefillVisit, Refilled
    <3>2. p \in blocked => ticks' = ticks
      BY <2>1 DEF RefillVisit, Refilled
    <3>3. p \in Procs \ {HD} /\ p \notin blocked => ticks[p] <= 0
      BY <2>1 DEF RefillVisit, NoTicksPassed
    <3> QED
      BY <3>1, <3>2, <3>3
  <2>2. CASE ClockUser \/ ClockNested
    BY <2>2 DEF ClockUser, ClockNested
  <2>3. CASE ~(RefillVisit \/ ClockUser \/ ClockNested)
    <3>1. ticks' = ticks
      BY <2>3 DEF Next, CallWakes, CallBlocks, HdInterrupt, SelectConsole, ProcSchedule,
                  ScanVisit, ScanNobody, RefillEnd, ScanDone
    <3> QED
      BY <3>1
  <2> QED
    BY <2>1, <2>2, <2>3
<1>2. Spec => [][Early]_vars
  BY Invariance, <1>1, PTL DEF Spec
<1> QED
  BY <1>2 DEF NoEarlyRefill
=============================================================================
