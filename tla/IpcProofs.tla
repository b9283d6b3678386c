----------------------------- MODULE IpcProofs -----------------------------
(***************************************************************************)
(* Proofs about Ipc, for every number of processes, every choice of busy   *)
(* processes, callers and message types.  The inductive invariant is taken *)
(* in the parts IpcInductive names: each part is preserved by every step   *)
(* when the parts before it hold.                                          *)
(***************************************************************************)
EXTENDS IpcInductive, TLAPS

\* The special pids are no process's and differ from one another.
LEMMA Pids ==
    /\ ANY \notin Procs /\ NO_TASK \notin Procs /\ INTERRUPT \notin Procs
    /\ ANY # NO_TASK /\ ANY # INTERRUPT /\ NO_TASK # INTERRUPT
    /\ NilPid \notin Procs /\ NilPid # ANY /\ NilPid # NO_TASK /\ NilPid # INTERRUPT
    /\ NULL \notin Procs /\ HD \in Procs /\ 0 \in Procs /\ GARBLED \notin Procs
BY ProcAssumption, NilAssumption DEF Procs, ANY, NO_TASK, INTERRUPT, GARBLED

LEMMA Inv1Init == Init => Inv1
<1> SUFFICES ASSUME Init PROVE Inv1
  OBVIOUS
<1> USE Pids DEF Init
<1>1. TypeOK
  BY DEF TypeOK, Pcs, Messages, Faults
<1>2. CallOK
  BY DEF CallOK, SendPcs, ReceivePcs
<1>3. \A p \in Procs : Shape(p)
  BY DEF Shape
<1> QED
  BY <1>1, <1>2, <1>3 DEF Inv1

\* A failed assertion anywhere but in SendWake leaves the parts as they are.
LEMMA Inv1Fail ==
    ASSUME Inv1, NEW n \in Faults, Fail(n), pc # "wake"
    PROVE  Inv1'
<1> USE DEF Fail, procVars, listVars, callVars
<1>1. TypeOK'
  BY DEF Inv1, TypeOK, Pcs
<1>2. CallOK'
  BY DEF CallOK, SendPcs, ReceivePcs
<1>3. (\A p \in Procs : Shape(p))'
  BY DEF Inv1, Shape
<1> QED
  BY <1>1, <1>2, <1>3 DEF Inv1

LEMMA Inv1Step == Inv1 /\ [Next]_vars => Inv1'
<1> SUFFICES ASSUME Inv1, [Next]_vars PROVE Inv1'
  OBVIOUS
<1> USE Pids
<1> DEFINE ShapeOK == \A p \in Procs : Shape(p)
<1>1. ASSUME NEW d \in Procs, NEW t \in Types, SysSend(d, t) PROVE Inv1'
  <2> USE DEF SysSend, MayCall, procVars, listVars
  <2>1. TypeOK'
    BY <1>1 DEF Inv1, TypeOK, Pcs, Messages, Shape, CallOK, Faults
  <2>2. CallOK'
    BY <1>1 DEF Inv1, CallOK, SendPcs, ReceivePcs, TypeOK, Shape
  <2>3. ShapeOK'
    BY <1>1 DEF Inv1, TypeOK, CallOK, SendPcs, ReceivePcs, Shape
  <2> QED
    BY <2>1, <2>2, <2>3 DEF Inv1
<1>2. ASSUME NEW x \in Procs \cup {ANY, INTERRUPT}, SysReceive(x) PROVE Inv1'
  <2> USE DEF SysReceive, MayCall, procVars, listVars
  <2>1. TypeOK'
    BY <1>2 DEF Inv1, TypeOK, Pcs, Messages, Shape, CallOK, Faults
  <2>2. CallOK'
    BY <1>2 DEF Inv1, CallOK, SendPcs, ReceivePcs, TypeOK, Shape
  <2>3. ShapeOK'
    BY <1>2 DEF Inv1, TypeOK, CallOK, SendPcs, ReceivePcs, Shape
  <2> QED
    BY <2>1, <2>2, <2>3 DEF Inv1
<1>3. ASSUME HdCmdOut PROVE Inv1'
  <2> USE DEF HdCmdOut, callVars, procVars, listVars
  <2>1. TypeOK'
    BY <1>3 DEF Inv1, TypeOK, Pcs, Messages, Shape, CallOK, Faults
  <2>2. CallOK'
    BY <1>3 DEF Inv1, CallOK, SendPcs, ReceivePcs, TypeOK, Shape
  <2>3. ShapeOK'
    BY <1>3 DEF Inv1, TypeOK, CallOK, SendPcs, ReceivePcs, Shape
  <2> QED
    BY <2>1, <2>2, <2>3 DEF Inv1
<1>4. ASSUME Preempt PROVE Inv1'
  <2> USE DEF Preempt, Runnable, callVars, procVars, listVars
  <2>1. TypeOK'
    BY <1>4 DEF Inv1, TypeOK, Pcs, Messages, Shape, CallOK, Faults
  <2>2. CallOK'
    BY <1>4 DEF Inv1, CallOK, SendPcs, ReceivePcs, TypeOK, Shape
  <2>3. ShapeOK'
    BY <1>4 DEF Inv1, TypeOK, CallOK, SendPcs, ReceivePcs, Shape
  <2> QED
    BY <2>1, <2>2, <2>3 DEF Inv1
<1>5. ASSUME DeadlockStep PROVE Inv1'
  <2> USE <1>5 DEF DeadlockStep, WalkEnds, ReachesCaller
  <2>a. CASE Fail("deadlock")
    BY <2>a, Inv1Fail DEF Faults
  <2>b. CASE ~Fail("deadlock")
    <3> USE <2>b DEF callVars, procVars, listVars
    <3>1. TypeOK'
      BY DEF Inv1, TypeOK, Pcs, CallOK, Shape, Sending
    <3>2. CallOK'
      BY DEF Inv1, CallOK, SendPcs, ReceivePcs, TypeOK, Shape, Sending
    <3>3. ShapeOK'
      BY DEF Inv1, TypeOK, CallOK, SendPcs, ReceivePcs, Shape
    <3> QED
      BY <3>1, <3>2, <3>3 DEF Inv1
  <2> QED
    BY <2>a, <2>b
<1>6. ASSUME SendMatch PROVE Inv1'
  <2> USE DEF SendMatch, Matches, Receiving, callVars, procVars, listVars
  <2>1. TypeOK'
    BY <1>6 DEF Inv1, TypeOK, Pcs, Messages, Shape, CallOK, Faults
  <2>2. CallOK'
    BY <1>6 DEF Inv1, CallOK, SendPcs, ReceivePcs, TypeOK, Shape
  <2>3. ShapeOK'
    BY <1>6 DEF Inv1, TypeOK, CallOK, SendPcs, ReceivePcs, Shape
  <2> QED
    BY <2>1, <2>2, <2>3 DEF Inv1
<1>6a. ASSUME SendAddress PROVE Inv1'
  <2> USE DEF SendAddress, callVars, procVars, listVars
  <2>1. TypeOK'
    BY <1>6a DEF Inv1, TypeOK, Pcs
  <2>2. CallOK'
    BY <1>6a DEF Inv1, CallOK, SendPcs, ReceivePcs, TypeOK, Shape
  <2>3. ShapeOK'
    BY <1>6a DEF Inv1, TypeOK, CallOK, SendPcs, ReceivePcs, Shape
  <2> QED
    BY <2>1, <2>2, <2>3 DEF Inv1
<1>7. ASSUME SendCopy PROVE Inv1'
  <2> USE DEF SendCopy, callVars, procVars, listVars
  <2>0. caller \in Procs /\ peer \in Procs
    BY <1>7 DEF Inv1, CallOK, SendPcs
  <2>1. TypeOK'
    <3>1. buf[caller] \in Messages
      BY <2>0 DEF Inv1, TypeOK
    <3>2. {Copied} \subseteq Messages /\ Mixed(Copied) \subseteq Messages
      BY <3>1 DEF Copied, Mixed, IntMsg, Messages
    <3>3. buf' \in [Procs -> Messages]
      BY <1>7, <2>0, <3>2 DEF Inv1, TypeOK
    <3> QED
      BY <1>7, <2>0, <3>3 DEF Inv1, TypeOK, Pcs
  <2>2. CallOK'
    BY <1>7 DEF Inv1, CallOK, SendPcs, ReceivePcs, TypeOK, Shape
  <2>3. ShapeOK'
    BY <1>7 DEF Inv1, TypeOK, CallOK, SendPcs, ReceivePcs, Shape
  <2> QED
    BY <2>1, <2>2, <2>3 DEF Inv1
<1>8. ASSUME SendClear PROVE Inv1'
  <2> USE DEF SendClear, callVars, procVars, listVars
  <2>0. caller \in Procs /\ peer \in Procs
    BY <1>8 DEF Inv1, CallOK, SendPcs
  <2>1. TypeOK'
    BY <1>8, <2>0 DEF Inv1, TypeOK, Pcs
  <2>2. CallOK'
    BY <1>8 DEF Inv1, CallOK, SendPcs, ReceivePcs, TypeOK, Shape
  <2>3. ShapeOK'
    BY <1>8 DEF Inv1, TypeOK, CallOK, SendPcs, ReceivePcs, Shape
  <2> QED
    BY <2>1, <2>2, <2>3 DEF Inv1
<1>9. ASSUME SendWake PROVE Inv1'
  <2> USE <1>9 DEF SendWake
  <2>a. /\ p_flags[peer] \subseteq {"RECEIVING"} /\ p_msg[peer] = 0
        /\ p_sendto[peer] = NO_TASK
        /\ Idle(caller) /\ p_recvfrom[caller] = NO_TASK
    BY DEF Inv1, TypeOK, CallOK, Shape, SendPcs, Idle
  <2> USE <2>a DEF Return, Leave, listVars
  <2>1. TypeOK'
    BY DEF Inv1, TypeOK, Pcs, CallOK, SendPcs
  <2>2. CallOK'
    BY DEF Inv1, CallOK, SendPcs, ReceivePcs, TypeOK, Shape
  <2>3. ShapeOK'
    BY DEF Inv1, TypeOK, CallOK, SendPcs, ReceivePcs, Shape
  <2> QED
    BY <2>1, <2>2, <2>3 DEF Inv1
<1>10. ASSUME SendEnqueue PROVE Inv1'
  <2> USE <1>10 DEF SendEnqueue
  <2>a. CASE p_flags[caller] = {}
    <3> USE <2>a DEF callVars, listVars
    <3>1. TypeOK'
      BY DEF Inv1, TypeOK, Pcs, Messages, Shape, CallOK, Faults, SendPcs, ReceivePcs
    <3>2. CallOK'
      BY DEF Inv1, CallOK, SendPcs, ReceivePcs, TypeOK, Shape
    <3>0. caller \in Procs /\ peer \in Procs \ {caller} /\ pc' # "wake" /\ pc # "wake"
      BY DEF Inv1, CallOK, SendPcs
    <3>3. ShapeOK'
      <4> SUFFICES ASSUME NEW q \in Procs PROVE Shape(q)'
        OBVIOUS
      <4>1. CASE q = caller
        BY <4>1, <3>0 DEF Inv1, TypeOK, Shape
      <4>2. CASE q # caller
        BY <4>2, <3>0 DEF Inv1, TypeOK, Shape
      <4> QED
        BY <4>1, <4>2
    <3> QED
      BY <3>1, <3>2, <3>3 DEF Inv1
  <2>b. CASE ~(p_flags[caller] = {})
    BY <2>b, Inv1Fail DEF Faults
  <2> QED
    BY <2>a, <2>b
<1>11. ASSUME SendTail PROVE Inv1'
  <2> USE DEF SendTail, TailFound, callVars, procVars, listVars
  <2>1. TypeOK'
    BY <1>11 DEF Inv1, TypeOK, Pcs, Messages, Shape, CallOK, Faults
  <2>2. CallOK'
    BY <1>11 DEF Inv1, CallOK, SendPcs, ReceivePcs, TypeOK, Shape
  <2>3. ShapeOK'
    BY <1>11 DEF Inv1, TypeOK, CallOK, SendPcs, ReceivePcs, Shape
  <2> QED
    BY <2>1, <2>2, <2>3 DEF Inv1
<1>12. ASSUME ReceiveCheck PROVE Inv1'
  <2> USE DEF ReceiveCheck, SenderWaits, callVars, procVars, listVars
  <2>1. TypeOK'
    BY <1>12 DEF Inv1, TypeOK, Pcs, Messages, Shape, CallOK, Faults
  <2>2. CallOK'
    BY <1>12 DEF Inv1, CallOK, SendPcs, ReceivePcs, TypeOK, Shape
  <2>3. ShapeOK'
    BY <1>12 DEF Inv1, TypeOK, CallOK, SendPcs, ReceivePcs, Shape
  <2> QED
    BY <2>1, <2>2, <2>3 DEF Inv1
<1>13. ASSUME ReceiveFromZero PROVE Inv1'
  BY <1>13, Inv1Fail DEF ReceiveFromZero, Faults
<1>14. ASSUME ReceiveInt PROVE Inv1'
  <2> USE DEF ReceiveInt, IntMsg, callVars, listVars
  <2>1. TypeOK'
    BY <1>14 DEF Inv1, TypeOK, Pcs, Messages, Shape, CallOK, Faults
  <2>2. CallOK'
    BY <1>14 DEF Inv1, CallOK, SendPcs, ReceivePcs, TypeOK, Shape
  <2>3. ShapeOK'
    BY <1>14 DEF Inv1, TypeOK, CallOK, SendPcs, ReceivePcs, Shape
  <2> QED
    BY <2>1, <2>2, <2>3 DEF Inv1
<1>15. ASSUME ReceiveIntDone PROVE Inv1'
  <2> USE <1>15 DEF ReceiveIntDone
  <2>a. CASE Idle(caller) /\ has_int_msg[caller] = 0
    <3> USE <2>a DEF Return, Leave, procVars, listVars
    <3>1. TypeOK'
      BY DEF Inv1, TypeOK, Pcs, Messages, Shape, CallOK, Faults, SendPcs, ReceivePcs
    <3>2. CallOK'
      BY DEF Inv1, CallOK, SendPcs, ReceivePcs, TypeOK, Shape
    <3>3. ShapeOK'
      BY DEF Inv1, TypeOK, CallOK, SendPcs, ReceivePcs, Shape
    <3> QED
      BY <3>1, <3>2, <3>3 DEF Inv1
  <2>b. CASE ~(Idle(caller) /\ has_int_msg[caller] = 0)
    BY <2>b, Inv1Fail DEF Faults
  <2> QED
    BY <2>a, <2>b
<1>16. ASSUME ReceiveSearch PROVE Inv1'
  <2> USE <1>16 DEF ReceiveSearch
  <2>a. CASE Fail("search")
    BY <2>a, Inv1Fail DEF Faults
  <2>b. CASE ~Fail("search")
    <3> USE <2>b DEF callVars, procVars, listVars
    <3>1. TypeOK'
      BY DEF Inv1, TypeOK, Pcs
    <3>2. CallOK'
      BY DEF Inv1, CallOK, SendPcs, ReceivePcs, TypeOK
    <3>3. ShapeOK'
      BY DEF Inv1, TypeOK, CallOK, SendPcs, ReceivePcs, Shape
    <3> QED
      BY <3>1, <3>2, <3>3 DEF Inv1
  <2> QED
    BY <2>a, <2>b
<1>17. ASSUME ReceiveTake PROVE Inv1'
  <2> USE <1>17 DEF ReceiveTake, WithoutFrom
  <2>a. CASE TakeAsserts
    <3> USE <2>a DEF Return, Leave, TakeAsserts, From, Idle
    <3>0. /\ caller \in Procs /\ From \in Procs
          /\ From # first_sending[caller] => prev \in Procs
      BY DEF Inv1, TypeOK, CallOK, ReceivePcs
    <3>1. TypeOK'
      BY <3>0 DEF Inv1, TypeOK, Pcs
    <3>2. CallOK'
      BY DEF Inv1, CallOK, SendPcs, ReceivePcs, TypeOK, Shape
    <3>3. ShapeOK'
      BY DEF Inv1, TypeOK, CallOK, SendPcs, ReceivePcs, Shape
    <3> QED
      BY <3>1, <3>2, <3>3 DEF Inv1
  <2>b. CASE ~(TakeAsserts)
    BY <2>b, Inv1Fail DEF Faults
  <2> QED
    BY <2>a, <2>b
<1>18. ASSUME ReceiveMark PROVE Inv1'
  <2> USE DEF ReceiveMark, callVars, listVars
  <2>1. TypeOK'
    BY <1>18 DEF Inv1, TypeOK, Pcs, Messages, Shape, CallOK, Faults
  <2>2. CallOK'
    BY <1>18 DEF Inv1, CallOK, SendPcs, ReceivePcs, TypeOK, Shape
  <2>3. ShapeOK'
    BY <1>18 DEF Inv1, TypeOK, CallOK, SendPcs, ReceivePcs, Shape
  <2> QED
    BY <2>1, <2>2, <2>3 DEF Inv1
<1>19. ASSUME Block PROVE Inv1'
  <2> USE <1>19 DEF Block
  <2>a. CASE p_flags[caller] # {}
    <3> USE <2>a DEF Runnable, callVars, procVars, listVars
    <3>1. TypeOK'
      BY DEF Inv1, TypeOK, Pcs, Messages, Shape, CallOK, Faults, SendPcs, ReceivePcs
    <3>2. CallOK'
      BY DEF Inv1, CallOK, SendPcs, ReceivePcs, TypeOK, Shape
    <3>3. ShapeOK'
      BY DEF Inv1, TypeOK, CallOK, SendPcs, ReceivePcs, Shape
    <3> QED
      BY <3>1, <3>2, <3>3 DEF Inv1
  <2>b. CASE ~(p_flags[caller] # {})
    BY <2>b, Inv1Fail DEF Faults
  <2> QED
    BY <2>a, <2>b
<1>20. ASSUME BlockExit PROVE Inv1'
  <2> USE <1>20 DEF BlockExit
  <2>a. CASE ExitAsserts
    <3> USE <2>a DEF Leave, procVars, listVars
    <3>1. TypeOK'
      BY DEF Inv1, TypeOK, Pcs
    <3>2. CallOK'
      BY DEF Inv1, CallOK, SendPcs, ReceivePcs
    <3>3. ShapeOK'
      BY DEF Inv1, TypeOK, CallOK, SendPcs, ReceivePcs, Shape
    <3> QED
      BY <3>1, <3>2, <3>3 DEF Inv1
  <2>b. CASE ~ExitAsserts
    BY <2>b, Inv1Fail DEF Faults
  <2> QED
    BY <2>a, <2>b
<1>21. ASSUME HdInterrupt PROVE Inv1'
  <2> USE <1>21 DEF HdInterrupt, NoteInterrupt, Receiving, listVars, callVars
  <2>a. CASE Receiving(HD) /\ p_recvfrom[HD] \in {INTERRUPT, ANY}
    <3>1. p_flags[HD] = {"RECEIVING"} /\ p_sendto[HD] = NO_TASK
      BY <2>a DEF Inv1, TypeOK, Shape
    <3>0. IntMsg \in Messages
      BY DEF IntMsg, Messages
    <3>h. /\ p_flags' = [p_flags EXCEPT ![HD] = p_flags[HD] \ {"RECEIVING"}]
          /\ UNCHANGED <<p_sendto, caller, op, peer, walk, p_proc_ready>>
      BY <2>a
    <3>k. p_flags[HD] \ {"RECEIVING"} = {}
      BY <3>1
    <3>l. UNCHANGED <<pc, fault>>
      BY <2>a, <3>1
    <3>i. /\ p_flags' = [p_flags EXCEPT ![HD] = {}]
          /\ UNCHANGED <<pc, fault, p_sendto, caller, op, peer, walk, p_proc_ready>>
      BY <3>h, <3>k, <3>l
    <3>j. buf' \in [Procs -> Messages]
      BY <2>a, <3>0 DEF Inv1, TypeOK
    <3>2. TypeOK'
      <4>1. /\ p_flags' \in [Procs -> SUBSET {"SENDING", "RECEIVING"}]
            /\ p_sendto' \in [Procs -> Procs \cup {NO_TASK}]
        BY <3>i DEF Inv1, TypeOK
      <4>2. /\ p_msg' \in [Procs -> {0, 1}] /\ has_int_msg' \in [Procs -> {0, 1}]
            /\ p_recvfrom' \in [Procs -> Procs \cup {ANY, NO_TASK, NilPid}]
        BY <2>a DEF Inv1, TypeOK
      <4>3. UNCHANGED <<first_sending, next_sending, prev, must_wait>> /\ hd_busy' = FALSE
        BY <2>a
      <4> HIDE DEF HdInterrupt, NoteInterrupt
      <4> QED
        BY <3>i, <3>j, <4>1, <4>2, <4>3 DEF Inv1, TypeOK
    <3>3. CallOK'
      <4>1. /\ \A p \in Procs \ {HD} : p_flags'[p] = p_flags[p]
            /\ p_flags[HD] = {"RECEIVING"} /\ p_flags'[HD] = {}
            /\ \A p \in Procs : p_msg[p] = 0 => p_msg'[p] = 0
        BY <2>a, <3>1, <3>i DEF Inv1, TypeOK
      <4> HIDE DEF HdInterrupt, NoteInterrupt
      <4> QED
        BY <4>1, <3>i DEF Inv1, CallOK, SendPcs, ReceivePcs
    <3>4. ShapeOK'
      <4>1. /\ p_msg' = [p_msg EXCEPT ![HD] = 0]
            /\ p_recvfrom' = [p_recvfrom EXCEPT ![HD] = NO_TASK]
            /\ p_sendto[HD] = NO_TASK
        BY <2>a, <3>1
      <4> HIDE DEF HdInterrupt, NoteInterrupt
      <4>2. ASSUME NEW p \in Procs \ {HD} PROVE Shape(p)'
        BY <3>i, <4>1 DEF Inv1, TypeOK, Shape
      <4>3. Shape(HD)'
        BY <3>i, <4>1 DEF Inv1, TypeOK, Shape
      <4> QED
        BY <4>2, <4>3
    <3> QED
      BY <3>2, <3>3, <3>4 DEF Inv1
  <2>b. CASE ~(Receiving(HD) /\ p_recvfrom[HD] \in {INTERRUPT, ANY})
    <3>1. TypeOK'
      BY <2>b DEF Inv1, TypeOK
    <3>2. CallOK'
      BY <2>b DEF Inv1, CallOK, SendPcs, ReceivePcs
    <3>3. ShapeOK'
      BY <2>b DEF Inv1, TypeOK, Shape
    <3> QED
      BY <3>1, <3>2, <3>3 DEF Inv1
  <2> QED
    BY <2>a, <2>b
<1>22. CASE UNCHANGED vars
  BY <1>22 DEF vars, procVars, listVars, callVars, Inv1, TypeOK, CallOK, Shape, Messages,
     Pcs,
             Faults, SendPcs, ReceivePcs
<1>23. ASSUME TaskPanic PROVE Inv1'
  BY <1>23, Inv1Fail DEF TaskPanic, Faults
<1> QED
  BY <1>1, <1>2, <1>3, <1>4, <1>5, <1>6, <1>6a, <1>7, <1>8, <1>9, <1>10, <1>11, <1>12,
     <1>13, <1>14, <1>15, <1>16, <1>17, <1>18, <1>19, <1>20, <1>21, <1>22, <1>23
     DEF Next, User, Kernel, Halted

-----------------------------------------------------------------------------
(* Lists: what linking and unlinking an element does to IsList.            *)

LEMMA ListFrame ==
    ASSUME NEW L \in SUBSET Procs, NEW f, NEW next, NEW next2, IsList(f, next, L),
           \A p \in L : next2[p] = next[p]
    PROVE  IsList(f, next2, L)
BY DEF IsList, Holds

\* A list without a head has no element.
LEMMA ListEmpty ==
    ASSUME NEW L \in SUBSET Procs, NEW next, IsList(NULL, next, L)
    PROVE  L = {}
<1>1. Holds({}, NULL, next, L)
  BY DEF Holds
<1> QED
  BY <1>1 DEF IsList

LEMMA ListSingle ==
    ASSUME NEW c \in Procs, NEW next, next[c] = NULL
    PROVE  IsList(c, next, {c})
BY Pids DEF IsList, Holds

\* Linking c behind the last element w.
LEMMA ListAppend ==
    ASSUME NEW L \in SUBSET Procs, NEW f, NEW next, NEW next2, IsList(f, next, L),
           NEW w \in L, next[w] = NULL, NEW c \in Procs \ L,
           next2[w] = c, next2[c] = NULL, \A p \in L \ {w} : next2[p] = next[p]
    PROVE  IsList(f, next2, L \cup {c})
<1> USE Pids
<1>1. f \in L
  BY ListEmpty DEF IsList
<1>2. ASSUME NEW V \in SUBSET Procs, Holds(V, f, next2, L \cup {c})
      PROVE  L \cup {c} \subseteq V
  <2>1. Holds(V, f, next, L)
    BY <1>2 DEF Holds
  <2>2. L \subseteq V
    BY <2>1 DEF IsList
  <2> QED
    BY <1>2, <2>2 DEF Holds
<1> QED
  BY <1>1, <1>2 DEF IsList

\* Unlinking the head.
LEMMA ListBehead ==
    ASSUME NEW L \in SUBSET Procs, NEW f, NEW next, IsList(f, next, L), f # NULL
    PROVE  IsList(next[f], next, L \ {f})
<1> USE Pids
<1>1. ASSUME NEW V \in SUBSET Procs, Holds(V, next[f], next, L \ {f})
      PROVE  L \ {f} \subseteq V
  <2>1. Holds(V \cup {f}, f, next, L)
    BY <1>1 DEF Holds
  <2>2. V \cup {f} \in SUBSET Procs
    BY DEF IsList
  <2> QED
    BY <2>1, <2>2 DEF IsList
<1>2. next[f] # f
  BY DEF IsList
<1> QED
  BY <1>1, <1>2 DEF IsList

\* Unlinking c, which w points to.
LEMMA ListUnlink ==
    ASSUME NEW L \in SUBSET Procs, NEW f, NEW next, NEW next2, IsList(f, next, L),
           NEW w \in L, NEW c \in L, next[w] = c,
           next2[w] = next[c], \A p \in L \ {w, c} : next2[p] = next[p]
    PROVE  IsList(f, next2, L \ {c})
<1> USE Pids
<1>1. f # c /\ w # c /\ next[c] # c
  <2>1. f # c
    BY DEF IsList
  <2>2. ASSUME next[c] = c PROVE FALSE
    <3>1. Holds(L \ {c}, f, next, L)
      BY <2>1, <2>2 DEF IsList, Holds
    <3> QED
      BY <3>1 DEF IsList
  <2> QED
    BY <2>1, <2>2
<1>2. ASSUME NEW V \in SUBSET Procs, Holds(V, f, next2, L \ {c})
      PROVE  L \ {c} \subseteq V
  <2>1. CASE w \in V
    <3>1. Holds(V \cup {c}, f, next, L)
      BY <1>1, <1>2, <2>1 DEF Holds
    <3> QED
      BY <3>1 DEF IsList
  <2>2. CASE w \notin V
    <3>1. Holds(V \ {c}, f, next, L)
      <4>1. f \in (V \ {c}) \cup {NULL}
        BY <1>1, <1>2 DEF Holds
      <4>2. ASSUME NEW p \in (V \ {c}) \cap L PROVE next[p] \in (V \ {c}) \cup {NULL}
        BY <1>2, <2>2 DEF Holds, IsList
      <4> QED
        BY <4>1, <4>2 DEF Holds
    <3> QED
      BY <3>1, <2>2 DEF IsList
  <2> QED
    BY <2>1, <2>2
<1>3. ASSUME NEW p \in L \ {c}
      PROVE  next2[p] \in (L \ {c}) \cup {NULL} /\ (next2[p] # NULL => next2[p] # f)
  BY <1>1 DEF IsList
<1>4. ASSUME NEW p \in L \ {c}, NEW q \in L \ {c}, next2[p] = next2[q], next2[p] # NULL
      PROVE  p = q
  BY <1>1, <1>4 DEF IsList
<1> QED
  BY <1>1, <1>2, <1>3, <1>4 DEF IsList

-----------------------------------------------------------------------------
(* The queues of blocked senders.                                          *)

\* A step that neither blocks nor releases a sender leaves every queue alone.
LEMMA QueueFrame ==
    ASSUME QueueInv, UNCHANGED <<first_sending, next_sending, p_sendto>>,
           \A p \in Procs : Sending(p)' = Sending(p),
           (pc = "tail") = (pc' = "tail"), pc = "tail" => caller' = caller
    PROVE  QueueInv' /\ \A d \in Procs : Linked(d)' = Linked(d)
<1>1. \A d \in Procs : Linked(d)' = Linked(d)
  BY DEF Linked
<1> QED
  BY <1>1 DEF QueueInv

LEMMA Inv2Quiet ==
    ASSUME Inv2, UNCHANGED <<first_sending, next_sending, p_sendto>>,
           \A p \in Procs : Sending(p)' = Sending(p),
           pc # "tail", pc' \notin {"tail", "search", "take"},
           pc' \in {"receive", "takeint"} => prev' = NULL
    PROVE  Inv2'
<1>1. QueueInv'
  BY QueueFrame DEF Inv2
<1> QED
  BY <1>1 DEF Inv2

LEMMA Inv2Init == Init => Inv2
<1> SUFFICES ASSUME Init PROVE Inv2
  OBVIOUS
<1>1. \A d \in Procs : Linked(d) = {}
  BY DEF Init, Linked, Sending
<1>2. \A d \in Procs : IsList(NULL, next_sending, {})
  BY Pids DEF IsList
<1>3. QueueInv
  BY <1>1, <1>2 DEF QueueInv, Init
<1> QED
  BY <1>3 DEF Inv2, Init

LEMMA Inv2Step == Inv1 /\ Inv2 /\ [Next]_vars => Inv2'
<1> SUFFICES ASSUME Inv1, Inv2, [Next]_vars PROVE Inv2'
  OBVIOUS
<1> USE Pids DEF procVars, listVars, callVars
<1>1. ASSUME NEW d \in Procs, NEW t \in Types, SysSend(d, t) PROVE Inv2'
  BY <1>1, Inv2Quiet DEF SysSend, MayCall, Sending, Inv2
<1>2. ASSUME NEW x \in Procs \cup {ANY, INTERRUPT}, SysReceive(x) PROVE Inv2'
  BY <1>2, Inv2Quiet DEF SysReceive, MayCall, Sending, Inv2
<1>3. ASSUME HdCmdOut PROVE Inv2'
  BY <1>3, Inv2Quiet DEF HdCmdOut, Sending, Inv2
<1>4. ASSUME Preempt PROVE Inv2'
  BY <1>4, Inv2Quiet DEF Preempt, Sending, Inv2
<1>5. ASSUME DeadlockStep PROVE Inv2'
  BY <1>5, Inv2Quiet DEF DeadlockStep, WalkEnds, ReachesCaller, Fail, Sending, Inv2
<1>6. ASSUME SendMatch PROVE Inv2'
  BY <1>6, Inv2Quiet DEF SendMatch, Sending, Inv2
<1>6a. ASSUME SendAddress PROVE Inv2'
  BY <1>6a, Inv2Quiet DEF SendAddress, Sending, Inv2
<1>7. ASSUME SendCopy PROVE Inv2'
  BY <1>7, Inv2Quiet DEF SendCopy, Sending, Inv2
<1>8. ASSUME SendClear PROVE Inv2'
  BY <1>8, Inv2Quiet DEF SendClear, Sending, Inv2
<1>9. ASSUME SendWake PROVE Inv2'
  <2>1. \A p \in Procs : Sending(p)' = Sending(p)
    BY <1>9 DEF SendWake, Return, Leave, Fail, Inv1, TypeOK, Sending
  <2> QED
    BY <1>9, <2>1, Inv2Quiet DEF SendWake, Return, Leave, Fail
<1>10. ASSUME SendEnqueue PROVE Inv2'
  <2>a. CASE p_flags[caller] = {}
    <3>0. caller \in Procs /\ peer \in Procs /\ caller # peer
      BY <1>10 DEF SendEnqueue, Inv1, CallOK, SendPcs
    <3>1. /\ p_flags' = [p_flags EXCEPT ![caller] = {"SENDING"}]
          /\ p_sendto' = [p_sendto EXCEPT ![caller] = peer]
          /\ caller' = caller /\ peer' = peer
      BY <1>10, <2>a DEF SendEnqueue
    <3>2. \A d \in Procs : caller \notin Linked(d)
      BY <2>a DEF Linked, Sending
    <3>b. CASE first_sending[peer] = NULL
      <4>1. Linked(peer) = {}
        BY <3>0, <3>b, ListEmpty DEF Inv2, QueueInv, Linked
      <4>2. /\ first_sending' = [first_sending EXCEPT ![peer] = caller]
            /\ next_sending' = [next_sending EXCEPT ![caller] = NULL]
            /\ pc = "enqueue" /\ pc' = "block"
        BY <1>10, <2>a, <3>b DEF SendEnqueue
      <4>3. Linked(peer)' = {caller}
        BY <3>0, <3>1, <4>1, <4>2 DEF Linked, Sending, Inv1, TypeOK
      <4>4. \A d \in Procs \ {peer} : Linked(d)' = Linked(d)
        BY <3>0, <3>1, <3>2, <4>2 DEF Linked, Sending, Inv1, TypeOK
      <4>5. IsList(first_sending'[peer], next_sending', Linked(peer)')
        <5>1. next_sending'[caller] = NULL /\ first_sending'[peer] = caller
          BY <3>0, <4>2 DEF Inv1, TypeOK
        <5> QED
          BY <3>0, <4>3, <5>1, ListSingle
      <4>6. ASSUME NEW d \in Procs \ {peer}
            PROVE  IsList(first_sending'[d], next_sending', Linked(d)')
        <5>1. Linked(d) \in SUBSET Procs
          BY DEF Linked
        <5>2. first_sending'[d] = first_sending[d]
          BY <4>2 DEF Inv1, TypeOK
        <5>3. \A p \in Linked(d) : next_sending'[p] = next_sending[p]
          BY <3>2, <4>2, <5>1 DEF Inv1, TypeOK
        <5>4. IsList(first_sending[d], next_sending, Linked(d))
          BY DEF Inv2, QueueInv
        <5> QED
          BY <4>4, <5>1, <5>2, <5>3, <5>4, ListFrame
      <4>7. QueueInv'
        BY <3>0, <3>1, <4>5, <4>6 DEF QueueInv
      <4> QED
        BY <4>2, <4>7 DEF Inv2
    <3>c. CASE first_sending[peer] # NULL
      <4>1. /\ pc = "enqueue" /\ pc' = "tail" /\ walk' = first_sending[peer]
            /\ UNCHANGED <<first_sending, next_sending>>
        BY <1>10, <2>a, <3>c DEF SendEnqueue
      <4>2. \A d \in Procs : Linked(d)' = Linked(d)
        BY <3>0, <3>1, <3>2, <4>1 DEF Linked, Sending, Inv1, TypeOK
      <4>3. QueueInv'
        BY <4>1, <4>2 DEF QueueInv, Inv2
      <4>4. first_sending[peer] \in Linked(peer)
        BY <3>0, <3>c DEF Inv2, QueueInv, IsList
      <4> QED
        BY <3>0, <3>1, <4>1, <4>2, <4>3, <4>4 DEF Inv2
    <3> QED
      BY <3>b, <3>c
  <2>b. CASE p_flags[caller] # {}
    BY <1>10, <2>b, Inv2Quiet DEF SendEnqueue, Fail, Sending
  <2> QED
    BY <2>a, <2>b
<1>11. ASSUME SendTail PROVE Inv2'
  <2>0. /\ caller \in Procs /\ peer \in Procs /\ caller # peer
        /\ p_flags[caller] = {"SENDING"} /\ p_sendto[caller] = peer
        /\ walk \in Linked(peer) /\ pc = "tail"
        /\ UNCHANGED <<p_flags, p_sendto, first_sending, caller, peer>>
    BY <1>11 DEF SendTail, TailFound, Inv1, CallOK, SendPcs, Inv2
  <2>1. \A d \in Procs : caller \notin Linked(d)
    BY <2>0 DEF Linked
  <2>a. CASE next_sending[walk] # NULL
    <3>1. walk' = next_sending[walk] /\ UNCHANGED <<next_sending, pc>>
      BY <1>11, <2>a DEF SendTail, TailFound
    <3>2. QueueInv' /\ Linked(peer)' = Linked(peer)
      BY <2>0, <3>1, QueueFrame DEF Sending, Inv2
    <3>3. next_sending[walk] \in Linked(peer)
      BY <2>0, <2>a DEF Inv2, QueueInv, IsList
    <3> QED
      BY <2>0, <3>1, <3>2, <3>3 DEF Inv2
  <2>b. CASE next_sending[walk] = NULL
    <3>1. /\ next_sending' = [next_sending EXCEPT ![walk] = caller, ![caller] = NULL]
          /\ pc' = "block"
      BY <1>11, <2>b DEF SendTail, TailFound
    <3>2. Linked(peer)' = Linked(peer) \cup {caller}
      BY <2>0, <3>1 DEF Linked, Sending
    <3>3. \A d \in Procs \ {peer} : Linked(d)' = Linked(d) /\ walk \notin Linked(d)
      BY <2>0, <3>1 DEF Linked, Sending
    <3>4. \A p \in Procs \ {walk, caller} : next_sending'[p] = next_sending[p]
      BY <2>0, <3>1 DEF Inv1, TypeOK
    <3>5. walk \in Procs /\ walk # caller /\ next_sending'[walk] = caller /\ next_sending'[caller] = NULL
      BY <2>0, <2>1, <3>1 DEF Inv1, TypeOK, Linked
    <3>6. \A d \in Procs : Linked(d) \in SUBSET Procs
      BY DEF Linked
    <3>7. \A d \in Procs : IsList(first_sending[d], next_sending, Linked(d))
      BY DEF Inv2, QueueInv
    <3>8. IsList(first_sending[peer], next_sending', Linked(peer) \cup {caller})
      <4>1. \A p \in Linked(peer) \ {walk} : next_sending'[p] = next_sending[p]
        BY <2>0, <2>1, <3>4, <3>6
      <4>2. caller \in Procs \ Linked(peer)
        BY <2>0, <2>1
      <4>3. Linked(peer) \in SUBSET Procs /\ walk \in Linked(peer)
        BY <2>0, <3>6
      <4>4. IsList(first_sending[peer], next_sending, Linked(peer))
        BY <2>0, <3>7
      <4> QED
        BY <2>b, <3>5, <4>1, <4>2, <4>3, <4>4, ListAppend
    <3>9. ASSUME NEW d \in Procs \ {peer}
          PROVE  IsList(first_sending[d], next_sending', Linked(d))
      BY <2>1, <3>3, <3>4, <3>6, <3>7, ListFrame
    <3>10. QueueInv'
      BY <2>0, <3>2, <3>3, <3>8, <3>9 DEF QueueInv
    <3> QED
      BY <3>1, <3>10 DEF Inv2
  <2> QED
    BY <2>a, <2>b
<1>12. ASSUME ReceiveCheck PROVE Inv2'
  <2>1. /\ UNCHANGED <<first_sending, next_sending, p_sendto, p_flags, caller, peer, prev>>
        /\ pc = "receive" /\ pc' \in {"takeint", "take", "search", "mark"}
        /\ prev = NULL
        /\ walk' = IF pc' = "search" THEN first_sending[caller] ELSE NULL
    BY <1>12 DEF ReceiveCheck, Inv2
  <2>2. QueueInv' /\ \A d \in Procs : Linked(d)' = Linked(d)
    BY <2>1, QueueFrame DEF Sending, Inv2
  <2>0. caller \in Procs /\ first_sending[caller] \in Linked(caller) \cup {NULL}
    BY <2>1 DEF Inv1, CallOK, ReceivePcs, Inv2, QueueInv, IsList
  <2>3. pc' = "take" => TakeOK'
    BY <1>12, <2>1, <2>2 DEF ReceiveCheck, TakeOK, SenderWaits
  <2>4. ASSUME pc' = "search" PROVE SearchOK'
    <3>1. peer \in Linked(caller)
      BY <1>12, <2>1, <2>4 DEF ReceiveCheck, SenderWaits, Linked
    <3>2. /\ peer \notin {} /\ first_sending[caller] \in {} \cup {first_sending[caller]}
          /\ \A p \in {} \cap Linked(caller) : next_sending[p] \in {} \cup {first_sending[caller]}
      OBVIOUS
    <3>3. walk' = first_sending[caller] /\ prev' = NULL
      BY <2>1, <2>4
    <3> QED
      BY <2>0, <2>1, <2>2, <3>1, <3>2, <3>3 DEF SearchOK
  <2> QED
    BY <2>1, <2>2, <2>3, <2>4 DEF Inv2
<1>13. ASSUME ReceiveFromZero PROVE Inv2'
  BY <1>13, Inv2Quiet DEF ReceiveFromZero, Fail, Sending, Inv2
<1>14. ASSUME ReceiveInt PROVE Inv2'
  BY <1>14, Inv2Quiet DEF ReceiveInt, Sending, Inv2
<1>15. ASSUME ReceiveIntDone PROVE Inv2'
  BY <1>15, Inv2Quiet DEF ReceiveIntDone, Return, Leave, Fail, Sending, Inv2
<1>16. ASSUME ReceiveSearch PROVE Inv2'
  <2>0. /\ pc = "search" /\ SearchOK /\ caller \in Procs /\ peer \in Procs
        /\ UNCHANGED <<first_sending, next_sending, p_sendto, p_flags, caller, peer>>
        /\ pc' # "tail"
    BY <1>16 DEF ReceiveSearch, Inv2, Inv1, CallOK, ReceivePcs, Fail
  <2>1. QueueInv' /\ \A d \in Procs : Linked(d)' = Linked(d)
    BY <2>0, QueueFrame DEF Sending, Inv2
  <2>2. IsList(first_sending[caller], next_sending, Linked(caller))
    BY <2>0 DEF Inv2, QueueInv
  <2>3. PICK V \in SUBSET Procs :
          /\ peer \notin V
          /\ first_sending[caller] \in V \cup {walk}
          /\ \A p \in V \cap Linked(caller) : next_sending[p] \in V \cup {walk}
    BY <2>0 DEF SearchOK
  <2>4. walk # NULL
    <3> SUFFICES ASSUME walk = NULL PROVE FALSE
      OBVIOUS
    <3>1. Holds(V, first_sending[caller], next_sending, Linked(caller))
      BY <2>3 DEF Holds
    <3> QED
      BY <2>0, <2>2, <2>3, <3>1 DEF IsList, SearchOK
  <2>a. CASE walk = peer
    <3>1. pc' = "take" /\ UNCHANGED <<walk, prev>>
      BY <1>16, <2>4, <2>a DEF ReceiveSearch, Fail
    <3>2. TakeOK'
      BY <2>0, <2>1, <2>a, <3>1 DEF SearchOK, TakeOK
    <3> QED
      BY <2>1, <3>1, <3>2 DEF Inv2
  <2>b. CASE walk # peer
    <3>1. prev' = walk /\ walk' = next_sending[walk] /\ pc' = "search"
      BY <1>16, <2>0, <2>4, <2>b DEF ReceiveSearch, Fail
    <3>2. walk \in Linked(caller) /\ next_sending[walk] \in Linked(caller) \cup {NULL}
      BY <2>0, <2>2, <2>4 DEF SearchOK, IsList
    <3>3. /\ peer \notin V \cup {walk}
          /\ first_sending[caller] \in (V \cup {walk}) \cup {next_sending[walk]}
          /\ \A p \in (V \cup {walk}) \cap Linked(caller) :
                 next_sending[p] \in (V \cup {walk}) \cup {next_sending[walk]}
      BY <2>3, <2>b
    <3>4. V \cup {walk} \in SUBSET Procs
      BY <3>2 DEF Linked
    <3>5. SearchOK'
      BY <2>0, <2>1, <3>1, <3>2, <3>3, <3>4 DEF SearchOK
    <3> QED
      BY <2>1, <3>1, <3>5 DEF Inv2
  <2> QED
    BY <2>a, <2>b
<1>17. ASSUME ReceiveTake PROVE Inv2'
  <2>a. CASE TakeAsserts
    <3>0. /\ caller \in Procs /\ From \in Linked(caller)
          /\ p_flags[caller] = {} /\ p_flags[From] = {"SENDING"} /\ p_sendto[From] = caller
          /\ pc = "take" /\ pc' = "user"
      <4>1. caller \in Procs /\ pc = "take" /\ pc' = "user"
        BY <1>17, <2>a DEF ReceiveTake, WithoutFrom, Inv1, CallOK, ReceivePcs, Return, Leave
      <4>2. From \in Procs
        BY <2>a, <4>1 DEF TakeAsserts, From, Inv1, TypeOK, CallOK, ReceivePcs
      <4> QED
        BY <2>a, <4>1, <4>2 DEF TakeAsserts, Idle, Linked, Sending
    <3>1. From \in Procs /\ From # caller /\ \A d \in Procs : caller \notin Linked(d)
      BY <3>0 DEF Linked, Sending
    <3>2. /\ p_flags' = [p_flags EXCEPT ![From] = {}]
          /\ p_sendto' = [p_sendto EXCEPT ![From] = NO_TASK]
      BY <1>17, <2>a, <3>0, <3>1 DEF ReceiveTake, WithoutFrom
    <3> PICK c \in Procs : c = caller
      BY <3>0
    <3>3. Linked(c)' = Linked(c) \ {From}
      BY <3>0, <3>1, <3>2 DEF Linked, Sending, Inv1, TypeOK
    <3>4. \A d \in Procs \ {c} : Linked(d)' = Linked(d) /\ From \notin Linked(d)
      BY <3>0, <3>1, <3>2 DEF Linked, Sending, Inv1, TypeOK
    <3>5. \A d \in Procs : Linked(d) \in SUBSET Procs
      BY DEF Linked
    <3>6. \A d \in Procs : IsList(first_sending[d], next_sending, Linked(d))
      BY DEF Inv2, QueueInv
    <3>b. ASSUME From = first_sending[c] PROVE QueueInv'
      <4>1. /\ first_sending' = [first_sending EXCEPT ![c] = next_sending[From]]
            /\ next_sending' = [next_sending EXCEPT ![c] = NULL]
        BY <1>17, <2>a, <3>b DEF ReceiveTake, WithoutFrom
      <4>2. first_sending'[c] = next_sending[first_sending[c]]
        BY <3>0, <3>b, <4>1 DEF Inv1, TypeOK
      <4>3. \A d \in Procs \ {c} : first_sending'[d] = first_sending[d]
        BY <4>1 DEF Inv1, TypeOK
      <4>4. \A d \in Procs : \A p \in Linked(d) : next_sending'[p] = next_sending[p]
        BY <3>1, <3>5, <4>1 DEF Inv1, TypeOK
      <4>5. IsList(first_sending'[c], next_sending, Linked(c) \ {From})
        BY <3>0, <3>1, <3>5, <3>6, <3>b, <4>2, ListBehead
      <4>6. IsList(first_sending'[c], next_sending', Linked(c)')
        <5>1. Linked(c) \ {From} \in SUBSET Procs
          BY <3>0, <3>5
        <5>2. \A p \in Linked(c) \ {From} : next_sending'[p] = next_sending[p]
          BY <3>0, <4>4
        <5> QED
          BY <3>3, <4>5, <5>1, <5>2, ListFrame
      <4>7. ASSUME NEW d \in Procs \ {c}
            PROVE  IsList(first_sending'[d], next_sending', Linked(d)')
        <5>1. \A p \in Linked(d) : next_sending'[p] = next_sending[p]
          BY <4>4
        <5>2. IsList(first_sending[d], next_sending, Linked(d)) /\ Linked(d) \in SUBSET Procs
          BY <3>5, <3>6
        <5>3. IsList(first_sending[d], next_sending', Linked(d))
          BY <5>1, <5>2, ListFrame
        <5> QED
          BY <3>4, <4>3, <5>3
      <4> QED
        BY <4>6, <4>7 DEF QueueInv
    <3>c. ASSUME From # first_sending[c] PROVE QueueInv'
      <4>1. /\ next_sending' = [next_sending EXCEPT ![prev] = next_sending[From], ![From] = NULL]
            /\ first_sending' = first_sending
        BY <1>17, <2>a, <3>c DEF ReceiveTake, WithoutFrom
      <4>2. prev \in Linked(c) /\ next_sending[prev] = From
        BY <2>a, <3>0, <3>c DEF Inv2, TakeOK, From, TakeAsserts
      <4>3. prev \in Procs /\ prev # From
        <5>1. CASE prev = From
          <6>1. Holds(Linked(c) \ {From}, first_sending[c], next_sending, Linked(c))
            BY <3>0, <3>6, <3>c, <4>2, <5>1 DEF Holds, IsList
          <6>2. Linked(c) \ {From} \in SUBSET Procs
            BY <3>0, <3>5
          <6> QED
            BY <3>0, <3>6, <6>1, <6>2 DEF IsList
        <5> QED
          BY <3>0, <3>5, <4>2, <5>1
      <4>4. /\ next_sending'[prev] = next_sending[From]
            /\ \A p \in Procs \ {prev, From} : next_sending'[p] = next_sending[p]
        BY <3>1, <4>1, <4>3 DEF Inv1, TypeOK
      <4>5. IsList(first_sending[c], next_sending', Linked(c) \ {From})
        <5>1. \A p \in Linked(c) \ {prev, From} : next_sending'[p] = next_sending[p]
          BY <3>0, <3>5, <4>4
        <5>2. IsList(first_sending[c], next_sending, Linked(c)) /\ Linked(c) \in SUBSET Procs
          BY <3>0, <3>5, <3>6
        <5> QED
          BY <3>0, <4>2, <4>4, <5>1, <5>2, ListUnlink
      <4>6. ASSUME NEW d \in Procs \ {c}
            PROVE  IsList(first_sending[d], next_sending', Linked(d))
        <5>1. prev \notin Linked(d)
          BY <4>2 DEF Linked
        <5>2. \A p \in Linked(d) : next_sending'[p] = next_sending[p]
          BY <3>4, <3>5, <4>4, <5>1
        <5>3. IsList(first_sending[d], next_sending, Linked(d)) /\ Linked(d) \in SUBSET Procs
          BY <3>5, <3>6
        <5> QED
          BY <5>2, <5>3, ListFrame
      <4> QED
        BY <3>3, <3>4, <4>1, <4>5, <4>6 DEF QueueInv
    <3>7. QueueInv'
      BY <3>b, <3>c
    <3> QED
      BY <3>0, <3>7 DEF Inv2
  <2>b. CASE ~TakeAsserts
    BY <1>17, <2>b, Inv2Quiet DEF ReceiveTake, WithoutFrom, Fail, Sending
  <2> QED
    BY <2>a, <2>b
<1>18. ASSUME ReceiveMark PROVE Inv2'
  <2>1. \A p \in Procs : Sending(p)' = Sending(p)
    BY <1>18 DEF ReceiveMark, Inv1, TypeOK, Sending
  <2> QED
    BY <1>18, <2>1, Inv2Quiet DEF ReceiveMark
<1>19. ASSUME Block PROVE Inv2'
  BY <1>19, Inv2Quiet DEF Block, Fail, Sending, Inv2
<1>20. ASSUME BlockExit PROVE Inv2'
  BY <1>20, Inv2Quiet DEF BlockExit, Leave, Fail, Sending, Inv2
<1>21. ASSUME HdInterrupt PROVE Inv2'
  <2>1. \A p \in Procs : Sending(p)' = Sending(p)
    BY <1>21 DEF HdInterrupt, NoteInterrupt, Inv1, TypeOK, Sending
  <2>2. /\ UNCHANGED <<first_sending, next_sending, p_sendto, caller, peer, walk, prev>>
        /\ pc' = pc
    BY <1>21 DEF HdInterrupt, NoteInterrupt, Receiving, Inv1, TypeOK, Shape
  <2>3. QueueInv' /\ \A d \in Procs : Linked(d)' = Linked(d)
    BY <2>1, <2>2, QueueFrame DEF Inv2
  <2>4. pc = "tail" => peer \in Procs
    BY DEF Inv1, CallOK, SendPcs
  <2>5. pc \in {"search", "take"} => caller \in Procs
    BY DEF Inv1, CallOK
  <2>6. pc = "search" => SearchOK'
    BY <2>2, <2>3, <2>5 DEF Inv2, SearchOK
  <2>7. pc = "take" => TakeOK'
    BY <2>2, <2>3, <2>5 DEF Inv2, TakeOK
  <2> QED
    BY <2>2, <2>3, <2>4, <2>6, <2>7 DEF Inv2
<1>22. CASE UNCHANGED vars
  <2> USE <1>22 DEF vars
  <2>1. QueueInv' /\ \A d \in Procs : Linked(d)' = Linked(d)
    BY QueueFrame DEF Inv2, Sending
  <2>2. pc \in {"search", "take"} => caller \in Procs
    BY DEF Inv1, CallOK
  <2>3. pc = "tail" => peer \in Procs
    BY DEF Inv1, CallOK, SendPcs
  <2>4. pc = "search" => SearchOK'
    BY <2>1, <2>2 DEF Inv2, SearchOK
  <2>5. pc = "take" => TakeOK'
    BY <2>1, <2>2 DEF Inv2, TakeOK
  <2> QED
    BY <2>1, <2>3, <2>4, <2>5 DEF Inv2
<1>23. ASSUME TaskPanic PROVE Inv2'
  BY <1>23, Inv2Quiet DEF TaskPanic, Fail, Sending
<1> QED
  BY <1>1, <1>2, <1>3, <1>4, <1>5, <1>6, <1>6a, <1>7, <1>8, <1>9, <1>10, <1>11, <1>12,
     <1>13, <1>14, <1>15, <1>16, <1>17, <1>18, <1>19, <1>20, <1>21, <1>22, <1>23
     DEF Next, User, Kernel, Halted

-----------------------------------------------------------------------------
(* Sending in a circle.                                                    *)

\* Releasing senders closes no circle.
LEMMA CycleFrame ==
    ASSUME NoSendCycle,
           \A p \in Procs : Sending(p)' => Sending(p) /\ p_sendto'[p] = p_sendto[p]
    PROVE  NoSendCycle'
BY DEF NoSendCycle

LEMMA Inv3Quiet ==
    ASSUME Inv3, pc' \notin {"deadlock", "match", "enqueue"},
           \A p \in Procs : Sending(p)' => Sending(p) /\ p_sendto'[p] = p_sendto[p]
    PROVE  Inv3'
BY CycleFrame DEF Inv3

\* A sender outside a set that sending does not leave closes no circle by
\* sending into it.
LEMMA SafeSend ==
    ASSUME NoSendCycle, NEW c \in Procs, NEW d \in Procs, NEW S \in SUBSET Procs,
           d \in S, c \notin S, ClosedUnderSending(S),
           \A p \in Procs \ {c} : Sending(p)' => Sending(p) /\ p_sendto'[p] = p_sendto[p],
           p_sendto'[c] = d
    PROVE  NoSendCycle'
<1> SUFFICES ASSUME NEW T \in SUBSET Procs, T # {},
                    \A p \in T : Sending(p)' /\ p_sendto'[p] \in T
             PROVE  FALSE
  BY DEF NoSendCycle
<1>1. CASE c \in T
  <2>1. d \in T \cap S
    BY <1>1
  <2>2. \A p \in T \cap S : Sending(p) /\ p_sendto[p] \in T \cap S
    BY DEF ClosedUnderSending
  <2> QED
    BY <2>1, <2>2 DEF NoSendCycle
<1>2. CASE c \notin T
  BY <1>2 DEF NoSendCycle
<1> QED
  BY <1>1, <1>2

LEMMA Inv3Init == Init => Inv3
BY DEF Init, Inv3, NoSendCycle, Sending

LEMMA Inv3Step == Inv1 /\ Inv3 /\ [Next]_vars => Inv3'
<1> SUFFICES ASSUME Inv1, Inv3, [Next]_vars PROVE Inv3'
  OBVIOUS
<1> USE Pids DEF procVars, listVars, callVars
<1>1. ASSUME NEW d \in Procs, NEW t \in Types, SysSend(d, t) PROVE Inv3'
  <2> USE <1>1 DEF SysSend
  <2>1. NoSendCycle'
    BY CycleFrame DEF Inv3, Sending
  <2>2. DeadlockWalk'
    <3>1. /\ caller' \notin {} \cup {walk'} /\ peer' \in {} \cup {walk'}
          /\ \A q \in {} : p_sendto'[q] \in {} \cup {walk'}
      OBVIOUS
    <3> QED
      BY <3>1 DEF DeadlockWalk
  <2> QED
    BY <2>1, <2>2 DEF Inv3
<1>2. ASSUME NEW x \in Procs \cup {ANY, INTERRUPT}, SysReceive(x) PROVE Inv3'
  BY <1>2, Inv3Quiet DEF SysReceive, MayCall, Sending
<1>3. ASSUME HdCmdOut PROVE Inv3'
  BY <1>3, Inv3Quiet DEF HdCmdOut, MayCall, Sending
<1>4. ASSUME Preempt PROVE Inv3'
  BY <1>4, Inv3Quiet DEF Preempt, Sending
<1>5. ASSUME DeadlockStep PROVE Inv3'
  <2>1. NoSendCycle'
    BY <1>5, CycleFrame DEF DeadlockStep, WalkEnds, ReachesCaller, Fail, Inv3, Sending
  <2>2. PICK V \in SUBSET Procs :
          /\ caller \notin V \cup {walk} /\ peer \in V \cup {walk}
          /\ \A q \in V : p_sendto[q] \in V \cup {walk}
    BY <1>5 DEF DeadlockStep, WalkEnds, ReachesCaller, Inv3, DeadlockWalk
  <2>3. walk \in Procs
    BY <1>5 DEF DeadlockStep, WalkEnds, ReachesCaller, Inv1, CallOK
  <2>a. CASE Sending(walk) /\ p_sendto[walk] = caller
    BY <1>5, <2>1, <2>a DEF DeadlockStep, WalkEnds, ReachesCaller, Fail, Inv3
  <2>b. CASE Sending(walk) /\ p_sendto[walk] # caller
    <3>1. /\ walk' = p_sendto[walk] /\ pc' = "deadlock"
          /\ UNCHANGED <<caller, peer, p_sendto>>
      BY <1>5, <2>b DEF DeadlockStep, WalkEnds, ReachesCaller
    <3>2. /\ caller \notin (V \cup {walk}) \cup {walk'} /\ peer \in (V \cup {walk}) \cup {walk'}
          /\ \A q \in V \cup {walk} : p_sendto[q] \in (V \cup {walk}) \cup {walk'}
      BY <2>2, <2>b, <3>1
    <3>3. DeadlockWalk'
      <4> DEFINE W == V \cup {walk}
      <4>1. W \in SUBSET Procs
        BY <2>3
      <4>2. /\ caller' \notin W \cup {walk'} /\ peer' \in W \cup {walk'}
            /\ \A q \in W : p_sendto'[q] \in W \cup {walk'}
        BY <3>1, <3>2
      <4> HIDE DEF W
      <4> QED
        BY <4>1, <4>2 DEF DeadlockWalk
    <3> QED
      BY <2>1, <3>1, <3>3 DEF Inv3
  <2>c. CASE ~Sending(walk)
    <3>1. pc' = "match" /\ UNCHANGED <<caller, peer, p_sendto, p_flags>>
      BY <1>5, <2>c DEF DeadlockStep, WalkEnds, ReachesCaller
    <3>2. /\ V \cup {walk} \in SUBSET Procs /\ peer \in V \cup {walk}
          /\ caller \notin V \cup {walk}
          /\ \A q \in V \cup {walk} : Sending(q) => p_sendto[q] \in V \cup {walk}
      BY <2>2, <2>3, <2>c
    <3>3. SafeToSend'
      BY <3>1, <3>2 DEF SafeToSend, ClosedUnderSending, Sending
    <3> QED
      BY <2>1, <3>1, <3>3 DEF Inv3
  <2> QED
    BY <2>a, <2>b, <2>c
<1>6. ASSUME SendMatch PROVE Inv3'
  <2>1. /\ pc = "match" /\ pc' \in {"address", "enqueue"}
        /\ UNCHANGED <<caller, peer, p_sendto, p_flags>>
    BY <1>6 DEF SendMatch
  <2>2. NoSendCycle'
    BY <2>1, CycleFrame DEF Inv3, Sending
  <2>3. SafeToSend'
    BY <2>1 DEF Inv3, SafeToSend, ClosedUnderSending, Sending
  <2> QED
    BY <2>1, <2>2, <2>3 DEF Inv3
<1>6a. ASSUME SendAddress PROVE Inv3'
  BY <1>6a, Inv3Quiet DEF SendAddress, Sending
<1>7. ASSUME SendCopy PROVE Inv3'
  BY <1>7, Inv3Quiet DEF SendCopy, Sending
<1>8. ASSUME SendClear PROVE Inv3'
  BY <1>8, Inv3Quiet DEF SendClear, Sending
<1>9. ASSUME SendWake PROVE Inv3'
  <2>1. \A p \in Procs : Sending(p)' => Sending(p)
    BY <1>9 DEF SendWake, Fail, Inv1, TypeOK, Sending
  <2> QED
    BY <1>9, <2>1, Inv3Quiet DEF SendWake, Return, Leave, Fail
<1>10. ASSUME SendEnqueue PROVE Inv3'
  <2>a. CASE p_flags[caller] = {}
    <3>1. /\ pc = "enqueue" /\ pc' \in {"block", "tail"}
          /\ p_flags' = [p_flags EXCEPT ![caller] = {"SENDING"}]
          /\ p_sendto' = [p_sendto EXCEPT ![caller] = peer]
      BY <1>10, <2>a DEF SendEnqueue
    <3>2. PICK S \in SUBSET Procs : peer \in S /\ caller \notin S /\ ClosedUnderSending(S)
      BY <3>1 DEF Inv3, SafeToSend
    <3>3. caller \in Procs /\ peer \in Procs
      BY <3>1 DEF Inv1, CallOK, SendPcs
    <3>4. /\ p_sendto'[caller] = peer
          /\ \A p \in Procs \ {caller} : Sending(p)' => Sending(p) /\ p_sendto'[p] = p_sendto[p]
      BY <3>1, <3>3 DEF Sending, Inv1, TypeOK
    <3>5. NoSendCycle'
      BY <3>2, <3>3, <3>4, SafeSend DEF Inv3
    <3> QED
      BY <3>1, <3>5 DEF Inv3
  <2>b. CASE p_flags[caller] # {}
    BY <1>10, <2>b, Inv3Quiet DEF SendEnqueue, Fail, Sending
  <2> QED
    BY <2>a, <2>b
<1>11. ASSUME SendTail PROVE Inv3'
  BY <1>11, Inv3Quiet DEF SendTail, TailFound, Sending
<1>12. ASSUME ReceiveCheck PROVE Inv3'
  BY <1>12, Inv3Quiet DEF ReceiveCheck, Sending
<1>13. ASSUME ReceiveFromZero PROVE Inv3'
  BY <1>13, Inv3Quiet DEF ReceiveFromZero, Fail, Sending
<1>14. ASSUME ReceiveInt PROVE Inv3'
  BY <1>14, Inv3Quiet DEF ReceiveInt, Sending
<1>15. ASSUME ReceiveIntDone PROVE Inv3'
  BY <1>15, Inv3Quiet DEF ReceiveIntDone, Return, Leave, Fail, Sending
<1>16. ASSUME ReceiveSearch PROVE Inv3'
  BY <1>16, Inv3Quiet DEF ReceiveSearch, Fail, Sending
<1>17. ASSUME ReceiveTake PROVE Inv3'
  <2>a. CASE TakeAsserts
    <3>1. /\ p_flags' = [p_flags EXCEPT ![From] = {}]
          /\ p_sendto' = [p_sendto EXCEPT ![From] = NO_TASK]
          /\ pc' = "user"
      BY <1>17, <2>a DEF ReceiveTake, WithoutFrom, TakeAsserts, Return, Leave
    <3>2. \A p \in Procs : Sending(p)' => Sending(p) /\ p_sendto'[p] = p_sendto[p]
      BY <3>1 DEF Sending, Inv1, TypeOK
    <3> QED
      BY <3>1, <3>2, Inv3Quiet
  <2>b. CASE ~TakeAsserts
    BY <1>17, <2>b, Inv3Quiet DEF ReceiveTake, WithoutFrom, Fail, Sending
  <2> QED
    BY <2>a, <2>b
<1>18. ASSUME ReceiveMark PROVE Inv3'
  <2>1. \A p \in Procs : Sending(p)' => Sending(p)
    BY <1>18 DEF ReceiveMark, Inv1, TypeOK, Sending
  <2> QED
    BY <1>18, <2>1, Inv3Quiet DEF ReceiveMark
<1>19. ASSUME Block PROVE Inv3'
  BY <1>19, Inv3Quiet DEF Block, Fail, Sending
<1>20. ASSUME BlockExit PROVE Inv3'
  BY <1>20, Inv3Quiet DEF BlockExit, Leave, Fail, Sending
<1>21. ASSUME HdInterrupt PROVE Inv3'
  <2>1. \A p \in Procs : Sending(p)' = Sending(p)
    BY <1>21 DEF HdInterrupt, NoteInterrupt, Inv1, TypeOK, Sending
  <2>2. UNCHANGED <<p_sendto, caller, peer, walk, pc>>
    BY <1>21 DEF HdInterrupt, NoteInterrupt, Receiving, Inv1, TypeOK, Shape
  <2>3. NoSendCycle'
    BY <2>1, <2>2, CycleFrame DEF Inv3
  <2>4. pc = "deadlock" => DeadlockWalk'
    BY <2>2 DEF Inv3, DeadlockWalk
  <2>5. pc \in {"match", "enqueue"} => SafeToSend'
    BY <2>1, <2>2 DEF Inv3, SafeToSend, ClosedUnderSending
  <2> QED
    BY <2>2, <2>3, <2>4, <2>5 DEF Inv3
<1>22. CASE UNCHANGED vars
  BY <1>22 DEF vars, Inv3, NoSendCycle, DeadlockWalk, SafeToSend, ClosedUnderSending,
     Sending
<1>23. ASSUME TaskPanic PROVE Inv3'
  BY <1>23, Inv3Quiet DEF TaskPanic, Fail, Sending
<1> QED
  BY <1>1, <1>2, <1>3, <1>4, <1>5, <1>6, <1>6a, <1>7, <1>8, <1>9, <1>10, <1>11, <1>12,
     <1>13, <1>14, <1>15, <1>16, <1>17, <1>18, <1>19, <1>20, <1>21, <1>22, <1>23
     DEF Next, User, Kernel, Halted

-----------------------------------------------------------------------------
(* Missed rendezvous.                                                      *)

LEMMA MeetFrame ==
    ASSUME NoMissedRendezvous,
           \A p \in Procs : Sending(p)' => Sending(p) /\ p_sendto'[p] = p_sendto[p],
           \A d \in Procs : Receiving(d)' => Receiving(d) /\ p_recvfrom'[d] = p_recvfrom[d]
    PROVE  NoMissedRendezvous'
BY DEF NoMissedRendezvous

LEMMA Inv4Quiet ==
    ASSUME Inv4, pc' \notin {"enqueue", "mark"},
           \A p \in Procs : Sending(p)' => Sending(p) /\ p_sendto'[p] = p_sendto[p],
           \A d \in Procs : Receiving(d)' => Receiving(d) /\ p_recvfrom'[d] = p_recvfrom[d]
    PROVE  Inv4'
BY MeetFrame DEF Inv4

LEMMA Inv4Init == Init => Inv4
BY DEF Init, Inv4, NoMissedRendezvous, Sending

LEMMA Inv4Step == Inv1 /\ Inv2 /\ Inv4 /\ [Next]_vars => Inv4'
<1> SUFFICES ASSUME Inv1, Inv2, Inv4, [Next]_vars PROVE Inv4'
  OBVIOUS
<1> USE Pids DEF procVars, listVars, callVars
<1>1. ASSUME NEW d \in Procs, NEW t \in Types, SysSend(d, t) PROVE Inv4'
  BY <1>1, Inv4Quiet DEF SysSend, MayCall, Sending, Receiving
<1>2. ASSUME NEW x \in Procs \cup {ANY, INTERRUPT}, SysReceive(x) PROVE Inv4'
  BY <1>2, Inv4Quiet DEF SysReceive, MayCall, Sending, Receiving
<1>3. ASSUME HdCmdOut PROVE Inv4'
  BY <1>3, Inv4Quiet DEF HdCmdOut, MayCall, Sending, Receiving
<1>4. ASSUME Preempt PROVE Inv4'
  BY <1>4, Inv4Quiet DEF Preempt, Sending, Receiving
<1>5. ASSUME DeadlockStep PROVE Inv4'
  BY <1>5, Inv4Quiet DEF DeadlockStep, WalkEnds, ReachesCaller, Fail, Sending, Receiving
<1>6. ASSUME SendMatch PROVE Inv4'
  <2>1. UNCHANGED <<p_flags, p_sendto, p_recvfrom, caller, peer>> /\ pc' # "mark"
    BY <1>6 DEF SendMatch
  <2>2. NoMissedRendezvous'
    BY <2>1, MeetFrame DEF Inv4, Sending, Receiving
  <2>3. pc' = "enqueue" => ~Matches(peer, caller)'
    BY <1>6, <2>1 DEF SendMatch, Matches, Receiving
  <2> QED
    BY <2>1, <2>2, <2>3 DEF Inv4
<1>6a. ASSUME SendAddress PROVE Inv4'
  BY <1>6a, Inv4Quiet DEF SendAddress, Sending, Receiving
<1>7. ASSUME SendCopy PROVE Inv4'
  BY <1>7, Inv4Quiet DEF SendCopy, Sending, Receiving
<1>8. ASSUME SendClear PROVE Inv4'
  BY <1>8, Inv4Quiet DEF SendClear, Sending, Receiving
<1>9. ASSUME SendWake PROVE Inv4'
  <2>1. /\ \A p \in Procs : Sending(p)' => Sending(p) /\ p_sendto'[p] = p_sendto[p]
        /\ \A d \in Procs : Receiving(d)' => Receiving(d) /\ p_recvfrom'[d] = p_recvfrom[d]
    BY <1>9 DEF SendWake, Fail, Inv1, TypeOK, Sending, Receiving
  <2> QED
    BY <1>9, <2>1, Inv4Quiet DEF SendWake, Return, Leave, Fail
<1>10. ASSUME SendEnqueue PROVE Inv4'
  <2>a. CASE p_flags[caller] = {}
    <3>1. /\ pc = "enqueue" /\ pc' \in {"block", "tail"}
          /\ p_flags' = [p_flags EXCEPT ![caller] = {"SENDING"}]
          /\ p_sendto' = [p_sendto EXCEPT ![caller] = peer]
          /\ p_recvfrom' = p_recvfrom
      BY <1>10, <2>a DEF SendEnqueue
    <3>2. caller \in Procs /\ ~Matches(peer, caller)
      BY <3>1 DEF Inv1, CallOK, SendPcs, Inv4
    <3>3. ASSUME NEW p \in Procs, NEW d \in Procs, (Sending(p) /\ p_sendto[p] = d)'
          PROVE  ~Matches(d, p)'
      <4>1. Matches(d, p)' => Matches(d, p)
        BY <3>1, <3>2 DEF Matches, Receiving, Inv1, TypeOK
      <4>2. CASE p = caller
        BY <3>1, <3>2, <3>3, <4>1, <4>2 DEF Inv1, TypeOK
      <4>3. CASE p # caller
        BY <3>1, <3>2, <3>3, <4>1, <4>3 DEF Sending, Inv1, TypeOK, Inv4,
           NoMissedRendezvous, Matches
      <4> QED
        BY <4>2, <4>3
    <3>4. NoMissedRendezvous'
      BY <3>3 DEF NoMissedRendezvous, Matches
    <3> QED
      BY <3>1, <3>4 DEF Inv4
  <2>b. CASE p_flags[caller] # {}
    BY <1>10, <2>b, Inv4Quiet DEF SendEnqueue, Fail, Sending, Receiving
  <2> QED
    BY <2>a, <2>b
<1>11. ASSUME SendTail PROVE Inv4'
  BY <1>11, Inv4Quiet DEF SendTail, TailFound, Sending, Receiving
<1>12. ASSUME ReceiveCheck PROVE Inv4'
  <2>1. /\ UNCHANGED <<p_flags, p_sendto, p_recvfrom, caller, peer, first_sending>>
        /\ pc = "receive" /\ pc' # "enqueue"
        /\ pc' = "mark" => ~SenderWaits
    BY <1>12 DEF ReceiveCheck
  <2>2. NoMissedRendezvous'
    BY <2>1, MeetFrame DEF Inv4, Sending, Receiving
  <2>3. ASSUME ~SenderWaits, NEW q \in Procs, Sending(q), p_sendto[q] = caller
        PROVE  peer \notin {q, ANY}
    <3>1. q \in Linked(caller) /\ caller \in Procs
      BY <2>1, <2>3 DEF Linked, Inv1, CallOK
    <3>2. first_sending[caller] # NULL
      <4>1. /\ Linked(caller) \in SUBSET Procs /\ Linked(caller) # {}
            /\ IsList(first_sending[caller], next_sending, Linked(caller))
        <5>1. Linked(caller) \in SUBSET Procs
          BY DEF Linked
        <5>2. IsList(first_sending[caller], next_sending, Linked(caller))
          BY <3>1 DEF Inv2, QueueInv
        <5> QED
          BY <3>1, <5>1, <5>2
      <4> QED
        BY <4>1, ListEmpty
    <3> QED
      BY <2>3, <3>1, <3>2 DEF SenderWaits
  <2>4. pc' = "mark" => (\A q \in Procs : Sending(q) /\ p_sendto[q] = caller => peer \notin {q, ANY})'
    BY <2>1, <2>3 DEF Sending
  <2> QED
    BY <2>1, <2>2, <2>4 DEF Inv4
<1>13. ASSUME ReceiveFromZero PROVE Inv4'
  BY <1>13, Inv4Quiet DEF ReceiveFromZero, Fail, Sending, Receiving
<1>14. ASSUME ReceiveInt PROVE Inv4'
  BY <1>14, Inv4Quiet DEF ReceiveInt, Sending, Receiving
<1>15. ASSUME ReceiveIntDone PROVE Inv4'
  BY <1>15, Inv4Quiet DEF ReceiveIntDone, Return, Leave, Fail, Sending, Receiving
<1>16. ASSUME ReceiveSearch PROVE Inv4'
  BY <1>16, Inv4Quiet DEF ReceiveSearch, Fail, Sending, Receiving
<1>17. ASSUME ReceiveTake PROVE Inv4'
  <2>a. CASE TakeAsserts
    <3>1. /\ p_flags' = [p_flags EXCEPT ![From] = {}]
          /\ p_sendto' = [p_sendto EXCEPT ![From] = NO_TASK]
          /\ p_recvfrom' = p_recvfrom /\ pc' = "user"
      BY <1>17, <2>a DEF ReceiveTake, WithoutFrom, TakeAsserts, Return, Leave
    <3>2. /\ \A p \in Procs : Sending(p)' => Sending(p) /\ p_sendto'[p] = p_sendto[p]
          /\ \A d \in Procs : Receiving(d)' => Receiving(d) /\ p_recvfrom'[d] = p_recvfrom[d]
      BY <3>1 DEF Sending, Receiving, Inv1, TypeOK
    <3> QED
      BY <3>1, <3>2, Inv4Quiet
  <2>b. CASE ~TakeAsserts
    BY <1>17, <2>b, Inv4Quiet DEF ReceiveTake, WithoutFrom, Fail, Sending, Receiving
  <2> QED
    BY <2>a, <2>b
<1>18. ASSUME ReceiveMark PROVE Inv4'
  <2>1. /\ pc = "mark" /\ pc' = "block" /\ p_sendto' = p_sendto
        /\ p_flags' = [p_flags EXCEPT ![caller] = p_flags[caller] \cup {"RECEIVING"}]
        /\ p_recvfrom' = [p_recvfrom EXCEPT ![caller] = IF peer = INTERRUPT THEN NilPid ELSE peer]
    BY <1>18 DEF ReceiveMark
  <2>2. caller \in Procs
    BY <2>1 DEF Inv1, CallOK
  <2>3. ASSUME NEW p \in Procs, NEW d \in Procs, (Sending(p) /\ p_sendto[p] = d)'
        PROVE  ~Matches(d, p)'
    <3>1. Sending(p) /\ p_sendto[p] = d
      BY <2>1, <2>2, <2>3 DEF Sending, Inv1, TypeOK
    <3>2. CASE d = caller
      <4>1. peer \notin {p, ANY}
        BY <2>1, <3>1, <3>2 DEF Inv4
      <4>2. p_recvfrom'[d] \in {NilPid, peer}
        BY <2>1, <2>2, <3>2 DEF Inv1, TypeOK
      <4> QED
        BY <4>1, <4>2 DEF Matches
    <3>3. CASE d # caller
      BY <2>1, <2>2, <3>1, <3>3 DEF Matches, Receiving, Inv1, TypeOK, Inv4,
         NoMissedRendezvous
    <3> QED
      BY <3>2, <3>3
  <2>4. NoMissedRendezvous'
    BY <2>3 DEF NoMissedRendezvous, Matches
  <2> QED
    BY <2>1, <2>4 DEF Inv4
<1>19. ASSUME Block PROVE Inv4'
  BY <1>19, Inv4Quiet DEF Block, Fail, Sending, Receiving
<1>20. ASSUME BlockExit PROVE Inv4'
  BY <1>20, Inv4Quiet DEF BlockExit, Leave, Fail, Sending, Receiving
<1>21. ASSUME HdInterrupt PROVE Inv4'
  <2>1. /\ \A p \in Procs : Sending(p)' = Sending(p)
        /\ \A d \in Procs : Receiving(d)' => Receiving(d) /\ p_recvfrom'[d] = p_recvfrom[d]
    BY <1>21 DEF HdInterrupt, NoteInterrupt, Inv1, TypeOK, Sending, Receiving
  <2>2. UNCHANGED <<p_sendto, caller, peer, pc>>
    BY <1>21 DEF HdInterrupt, NoteInterrupt, Receiving, Inv1, TypeOK, Shape
  <2>3. NoMissedRendezvous'
    BY <2>1, <2>2, MeetFrame DEF Inv4
  <2>4. pc = "enqueue" => peer \in Procs
    BY DEF Inv1, CallOK, SendPcs
  <2>5. pc = "enqueue" => ~Matches(peer, caller)'
    BY <2>1, <2>2, <2>4 DEF Inv4, Matches
  <2> QED
    BY <2>1, <2>2, <2>3, <2>5 DEF Inv4
<1>22. CASE UNCHANGED vars
  BY <1>22 DEF vars, Inv4, NoMissedRendezvous, Matches, Sending, Receiving
<1>23. ASSUME TaskPanic PROVE Inv4'
  BY <1>23, Inv4Quiet DEF TaskPanic, Fail, Sending, Receiving
<1> QED
  BY <1>1, <1>2, <1>3, <1>4, <1>5, <1>6, <1>6a, <1>7, <1>8, <1>9, <1>10, <1>11, <1>12,
     <1>13, <1>14, <1>15, <1>16, <1>17, <1>18, <1>19, <1>20, <1>21, <1>22, <1>23
     DEF Next, User, Kernel, Halted

-----------------------------------------------------------------------------
(* The disk interrupt, when the disk only answers commands.              *)

LEMMA Inv5Init == Init => Inv5
BY Pids DEF Init, Inv5, Receiving

LEMMA Inv5Step == ~Spurious /\ Inv1 /\ Inv5 /\ [Next]_vars => Inv5'
<1> SUFFICES ASSUME ~Spurious, Inv1, Inv5, [Next]_vars PROVE Inv5'
  OBVIOUS
<1> USE Pids DEF procVars, listVars, callVars
<1>0. ASSUME NEW n, Fail(n), pc # "tookint" PROVE Inv5'
  BY <1>0 DEF Fail, Inv5, Receiving
<1>1. ASSUME NEW d \in Procs, NEW t \in Types, SysSend(d, t) PROVE Inv5'
  BY <1>1 DEF SysSend, MayCall, Inv5, Inv1, TypeOK, CallOK, SendPcs, ReceivePcs,
     Receiving, Matches
<1>2. ASSUME NEW x \in Procs \cup {ANY, INTERRUPT}, SysReceive(x) PROVE Inv5'
  BY <1>2 DEF SysReceive, MayCall, Inv5, Inv1, TypeOK, CallOK, SendPcs, ReceivePcs,
     Receiving, Matches
<1>3. ASSUME HdCmdOut PROVE Inv5'
  BY <1>3 DEF HdCmdOut, Inv5, Inv1, TypeOK, CallOK, SendPcs, ReceivePcs, Receiving, Matches
<1>4. ASSUME Preempt PROVE Inv5'
  BY <1>4 DEF Preempt, Inv5, Inv1, TypeOK, CallOK, SendPcs, ReceivePcs, Receiving, Matches
<1>5. ASSUME DeadlockStep PROVE Inv5'
  <2>a. CASE Fail("deadlock")
    BY <1>5, <2>a, <1>0 DEF DeadlockStep, WalkEnds, ReachesCaller
  <2>b. CASE ~Fail("deadlock")
    BY <1>5, <2>b DEF DeadlockStep, WalkEnds, ReachesCaller, Inv5, Receiving
  <2> QED
    BY <2>a, <2>b
<1>6. ASSUME SendMatch PROVE Inv5'
  <2>1. /\ peer \in Procs
        /\ pc' = "address" => Matches(peer, caller)
        /\ UNCHANGED <<p_flags, p_msg, p_recvfrom, has_int_msg, caller, op, peer, hd_busy, must_wait>>
        /\ pc = "match" /\ pc' \in {"address", "enqueue"}
    BY <1>6 DEF SendMatch, Inv1, CallOK, SendPcs
  <2>2. pc' = "address" => p_msg[peer] = 1
    BY <2>1 DEF Matches, Receiving, Inv1, Shape
  <2> QED
    BY <2>1, <2>2 DEF Inv5, Matches, Receiving
<1>6a. ASSUME SendAddress PROVE Inv5'
  BY <1>6a DEF SendAddress, Inv5, Receiving, Matches
<1>7. ASSUME SendCopy PROVE Inv5'
  <2>1. buf' = [buf EXCEPT ![peer] = buf[caller]]
    BY <1>7 DEF SendCopy, Copied, Inv5, Matches
  <2> QED
    BY <1>7, <2>1 DEF SendCopy, Inv5, Inv1, TypeOK, CallOK, SendPcs, ReceivePcs,
       Receiving, Matches
<1>8. ASSUME SendClear PROVE Inv5'
  BY <1>8 DEF SendClear, Inv5, Inv1, TypeOK, CallOK, SendPcs, ReceivePcs, Receiving, Matches
<1>9. ASSUME SendWake PROVE Inv5'
  <2>a. CASE Fail("wake")
    BY <1>9, <2>a, <1>0 DEF SendWake
  <2>b. CASE ~Fail("wake")
    BY <1>9, <2>b DEF SendWake, Return, Leave, Inv5, Inv1, TypeOK, CallOK, SendPcs,
       Receiving, Matches
  <2> QED
    BY <2>a, <2>b
<1>10. ASSUME SendEnqueue PROVE Inv5'
  <2>a. CASE p_flags[caller] = {}
    BY <1>10, <2>a DEF SendEnqueue, Inv5, Inv1, TypeOK, CallOK, SendPcs, ReceivePcs,
       Receiving, Matches
  <2>b. CASE ~(p_flags[caller] = {})
    BY <1>10, <2>b, <1>0 DEF SendEnqueue
  <2> QED
    BY <2>a, <2>b
<1>11. ASSUME SendTail PROVE Inv5'
  BY <1>11 DEF SendTail, TailFound, Inv5, Inv1, TypeOK, CallOK, SendPcs, ReceivePcs,
     Receiving, Matches
<1>12. ASSUME ReceiveCheck PROVE Inv5'
  BY <1>12 DEF ReceiveCheck, TakesInterrupt, Inv5, Inv1, TypeOK, CallOK, SendPcs,
     ReceivePcs, Receiving, Matches
<1>13. ASSUME ReceiveFromZero PROVE Inv5'
  BY <1>13, <1>0 DEF ReceiveFromZero
<1>14. ASSUME ReceiveInt PROVE Inv5'
  BY <1>14 DEF ReceiveInt, IntMsg, Inv5, Inv1, TypeOK, CallOK, SendPcs, ReceivePcs,
     Receiving, Matches
<1>15. ASSUME ReceiveIntDone PROVE Inv5'
  <2>1. /\ pc = "tookint" /\ caller = HD /\ has_int_msg[caller] = 0 /\ must_wait
        /\ op = "receive" /\ peer = INTERRUPT
    BY <1>15 DEF ReceiveIntDone, Inv5
  <2>2. Idle(caller)
    BY <2>1 DEF Idle, Inv1, CallOK, ReceivePcs, Shape
  <2>3. /\ pc' = "user" /\ caller' = NULL /\ ~must_wait' /\ ~hd_busy'
        /\ UNCHANGED <<p_flags, p_recvfrom, p_msg, has_int_msg>>
    BY <1>15, <2>1, <2>2 DEF ReceiveIntDone, Return, Leave, Inv5
  <2> QED
    BY <2>1, <2>3 DEF Inv5, Receiving
<1>16. ASSUME ReceiveSearch PROVE Inv5'
  <2>a. CASE Fail("search")
    BY <1>16, <2>a, <1>0 DEF ReceiveSearch
  <2>b. CASE ~Fail("search")
    BY <1>16, <2>b DEF ReceiveSearch, Inv5, Receiving
  <2> QED
    BY <2>a, <2>b
<1>17. ASSUME ReceiveTake PROVE Inv5'
  <2>a. CASE TakeAsserts
    BY <1>17, <2>a DEF ReceiveTake, WithoutFrom, Return, Leave, Inv5, Inv1, TypeOK,
       CallOK, SendPcs, ReceivePcs, Receiving, Matches
  <2>b. CASE ~(TakeAsserts)
    BY <1>17, <2>b, <1>0 DEF ReceiveTake, WithoutFrom
  <2> QED
    BY <2>a, <2>b
<1>18. ASSUME ReceiveMark PROVE Inv5'
  BY <1>18 DEF ReceiveMark, Inv5, Inv1, TypeOK, CallOK, SendPcs, ReceivePcs, Receiving,
     Matches
<1>19. ASSUME Block PROVE Inv5'
  <2>a. CASE p_flags[caller] # {}
    BY <1>19, <2>a DEF Block, Inv5, Inv1, TypeOK, CallOK, SendPcs, ReceivePcs, Receiving,
       Matches
  <2>b. CASE ~(p_flags[caller] # {})
    BY <1>19, <2>b, <1>0 DEF Block
  <2> QED
    BY <2>a, <2>b
<1>20. ASSUME BlockExit PROVE Inv5'
  <2>a. CASE ExitAsserts
    BY <1>20, <2>a DEF BlockExit, Leave, Inv5, Inv1, TypeOK, CallOK, SendPcs, ReceivePcs,
       Receiving, Matches
  <2>b. CASE ~(ExitAsserts)
    BY <1>20, <2>b, <1>0 DEF BlockExit
  <2> QED
    BY <2>a, <2>b
<1>21. ASSUME HdInterrupt PROVE Inv5'
  BY <1>21 DEF HdInterrupt, NoteInterrupt, Inv5, Inv1, TypeOK, CallOK, SendPcs,
     ReceivePcs, Receiving, Matches
<1>22. CASE UNCHANGED vars
  BY <1>22 DEF vars, Inv5, Receiving, Matches
<1>23. ASSUME TaskPanic PROVE Inv5'
  BY <1>23, <1>0 DEF TaskPanic
<1> QED
  BY <1>1, <1>2, <1>3, <1>4, <1>5, <1>6, <1>6a, <1>7, <1>8, <1>9, <1>10, <1>11, <1>12,
     <1>13, <1>14, <1>15, <1>16, <1>17, <1>18, <1>19, <1>20, <1>21, <1>22, <1>23
     DEF Next, User, Kernel, Halted

-----------------------------------------------------------------------------
(* The assertions, and the theorems.                                     *)

\* Each assertion outside AssertionsHold follows from what the invariant says
\* of the step that evaluates it.
LEMMA AssertionsStep ==
    Inv1 /\ Inv2 /\ (~Spurious => Inv5) /\ AssertionsHold /\ [Next]_vars => AssertionsHold'
<1> SUFFICES ASSUME Inv1, Inv2, ~Spurious => Inv5, AssertionsHold, [Next]_vars
             PROVE  AssertionsHold'
  OBVIOUS
<1> USE Pids, SpuriousAssumption
<1>1. ASSUME fault' = fault PROVE AssertionsHold'
  BY <1>1 DEF AssertionsHold
<1>2. ASSUME DeadlockStep \/ ReceiveFromZero \/ TaskPanic PROVE AssertionsHold'
  BY <1>2 DEF TaskPanic, DeadlockStep, WalkEnds, ReachesCaller, ReceiveFromZero, Fail,
     AssertionsHold
<1>3. ASSUME SendWake PROVE AssertionsHold'
  <2>1. /\ p_flags[peer] \subseteq {"RECEIVING"} /\ p_msg[peer] = 0
        /\ p_sendto[peer] = NO_TASK
        /\ Idle(caller) /\ p_recvfrom[caller] = NO_TASK
    BY <1>3 DEF SendWake, Inv1, TypeOK, CallOK, Shape, SendPcs, Idle
  <2> QED
    BY <1>1, <1>3, <2>1 DEF SendWake, Return
<1>4. ASSUME SendEnqueue PROVE AssertionsHold'
  BY <1>1, <1>4 DEF SendEnqueue, Inv1, CallOK, SendPcs
<1>5. ASSUME ReceiveIntDone PROVE AssertionsHold'
  <2>1. CASE Spurious
    BY <1>1, <1>5, <2>1 DEF ReceiveIntDone, Return, Fail, AssertionsHold
  <2>2. CASE ~Spurious
    <3>1. Idle(caller) /\ has_int_msg[caller] = 0
      BY <1>5, <2>2 DEF ReceiveIntDone, Inv5, Idle, Inv1, CallOK, ReceivePcs, Shape
    <3> QED
      BY <1>1, <1>5, <3>1 DEF ReceiveIntDone, Return
  <2> QED
    BY <2>1, <2>2
<1>6. ASSUME ReceiveSearch PROVE AssertionsHold'
  <2>1. caller \in Procs /\ pc = "search" /\ SearchOK
    BY <1>6 DEF ReceiveSearch, Inv1, CallOK, Inv2
  <2>2. first_sending[caller] # NULL
    <3>1. /\ Linked(caller) \in SUBSET Procs /\ peer \in Linked(caller)
          /\ IsList(first_sending[caller], next_sending, Linked(caller))
      BY <2>1 DEF SearchOK, Inv2, QueueInv, Linked
    <3> QED
      BY <3>1, ListEmpty
  <2>3. ~(walk = NULL /\ prev = NULL)
    BY <2>1, <2>2 DEF SearchOK, Linked
  <2> QED
    BY <1>1, <1>6, <2>3 DEF ReceiveSearch
<1>7. ASSUME ReceiveTake PROVE AssertionsHold'
  <2>1. caller \in Procs /\ pc = "take" /\ TakeOK /\ p_flags[caller] = {}
    BY <1>7 DEF ReceiveTake, WithoutFrom, Inv1, CallOK, ReceivePcs, Inv2
  <2>2. IsList(first_sending[caller], next_sending, Linked(caller))
    BY <2>1 DEF Inv2, QueueInv
  <2>3. peer \in Procs \cup {ANY}
    BY <2>1 DEF TakeOK, Linked
  <2>4. From \in Linked(caller) /\ first_sending[caller] # NULL
    <3>1. CASE peer = ANY
      BY <2>1, <2>2, <3>1 DEF TakeOK, Linked, From, IsList
    <3>2. CASE peer # ANY
      BY <2>1, <2>2, <3>2, ListEmpty DEF TakeOK, Linked, From
    <3> QED
      BY <3>1, <3>2
  <2>5. (From = first_sending[caller]) <=> (prev = NULL)
    <3>1. CASE peer = ANY
      BY <2>1, <3>1 DEF TakeOK, From, Linked
    <3>2. CASE peer # ANY /\ prev = NULL
      BY <2>1, <3>2 DEF TakeOK, From, Linked
    <3>3. CASE peer # ANY /\ prev # NULL
      BY <2>1, <2>2, <3>3 DEF TakeOK, From, IsList, Linked
    <3> QED
      BY <3>1, <3>2, <3>3
  <2>6. /\ p_flags[From] = {"SENDING"} /\ p_msg[From] # 0
        /\ p_recvfrom[From] = NO_TASK /\ p_sendto[From] = caller
    BY <2>4 DEF Linked, Sending, Inv1, Shape
  <2>7. Idle(caller) /\ p_recvfrom[caller] = NO_TASK
    BY <2>1 DEF Idle, Inv1, Shape
  <2>8. TakeAsserts
    BY <2>4, <2>5, <2>6, <2>7 DEF TakeAsserts
  <2> QED
    BY <1>1, <1>7, <2>8 DEF ReceiveTake, WithoutFrom, Return
<1>8. ASSUME Block PROVE AssertionsHold'
  <2>1. p_flags[caller] # {} \/ Spurious
    BY <1>8 DEF Block, Inv1, CallOK, Inv5
  <2> QED
    BY <1>1, <1>8, <2>1 DEF Block, Fail, AssertionsHold
<1>9. ASSUME BlockExit PROVE AssertionsHold'
  <2>1. /\ pc = "exit" /\ caller \in Procs
        /\ op = "send" => p_flags[caller] = {"SENDING"} /\ p_sendto[caller] = peer
        /\ op # "send" => p_flags[caller] = {"RECEIVING"} \/ Spurious
        /\ op # "send" => op = "receive"
    BY <1>9 DEF BlockExit, Inv1, CallOK, Inv5
  <2>2. op = "send" => SentAsserts
    BY <2>1 DEF SentAsserts, Inv1, Shape
  <2>3. op # "send" => WaitAsserts \/ Spurious
    BY <2>1 DEF WaitAsserts, Inv1, Shape
  <2>4. ~ExitAsserts => fault' \in {"wait", "intmsg"} /\ (fault' = "wait" => Spurious)
    BY <1>9, <2>2, <2>3 DEF BlockExit, ExitAsserts, Fail
  <2>5. ExitAsserts => fault' = fault
    BY <1>9 DEF BlockExit
  <2> QED
    BY <1>1, <2>4, <2>5 DEF AssertionsHold
<1>10. ASSUME HdInterrupt PROVE AssertionsHold'
  BY <1>1, <1>10 DEF HdInterrupt, NoteInterrupt, Receiving, Inv1, TypeOK, Shape
<1>11. ASSUME \/ \E d \in Procs, t \in Types : SysSend(d, t)
             \/ \E x \in Procs \cup {ANY, INTERRUPT} : SysReceive(x)
             \/ HdCmdOut \/ Preempt \/ SendMatch \/ SendAddress \/ SendCopy \/ SendClear
             \/ SendTail \/ ReceiveCheck \/ ReceiveInt \/ ReceiveMark \/ UNCHANGED vars
       PROVE AssertionsHold'
  BY <1>1, <1>11 DEF SysSend, SysReceive, HdCmdOut, Preempt, SendMatch, SendAddress,
     SendCopy, SendClear, SendTail, ReceiveCheck, ReceiveInt, ReceiveMark, vars
<1> QED
  BY <1>2, <1>3, <1>4, <1>5, <1>6, <1>7, <1>8, <1>9, <1>10, <1>11
     DEF Next, User, Kernel, Halted

\* IInv holds in every reachable state, whatever the constants.
THEOREM Invariance == Spec => []IInv
<1>1. Init => IInv
  BY Inv1Init, Inv2Init, Inv3Init, Inv4Init, Inv5Init DEF IInv, Init, AssertionsHold
<1>2. IInv /\ [Next]_vars => IInv'
  BY Inv1Step, Inv2Step, Inv3Step, Inv4Step, Inv5Step, AssertionsStep DEF IInv
<1> QED
  BY <1>1, <1>2, PTL DEF Spec

\* The fields of the process table keep their types.
THEOREM TypeCorrect == Spec => []TypeOK
BY Invariance, PTL DEF IInv, Inv1

\* The list at first_sending holds exactly the blocked senders, each once
\* (process.c 185-194, 280-290).
THEOREM QueuesIntact == Spec => []QueueInv
BY Invariance, PTL DEF IInv, Inv2

\* deadlock() keeps circles of senders of any length out (process.c 98-121).
THEOREM NoSenderCircle == Spec => []NoSendCycle
BY Invariance, PTL DEF IInv, Inv3

\* A sender and the receiver it could meet never both sleep (process.c 159,
\* 235-278).
THEOREM NothingMissed == Spec => []NoMissedRendezvous
BY Invariance, PTL DEF IInv, Inv4

\* Only the listed assertions can fail (process.c 160-201, 218-319, 364-370).
THEOREM AssertionsSafe == Spec => []AssertionsHold
BY Invariance, PTL DEF IInv

\* The process at user level is not blocked (process.c 87-90).
THEOREM RunningReady == Spec => []RunningIsReady
<1>1. IInv => RunningIsReady
  BY DEF IInv, Inv1, TypeOK, CallOK, RunningIsReady, Runnable
<1> QED
  BY <1>1, Invariance, PTL

\* The interrupt that answers a command is never forgotten before the driver
\* takes it (process.c 373, 216-226).
THEOREM InterruptKept == Spec => []IrqNotLost
<1>1. IInv => IrqNotLost
  BY DEF IInv, Inv5, IrqNotLost
<1> QED
  BY <1>1, Invariance, PTL

\* A send is over only when its destination holds the message, if the disk
\* interrupts only when asked to (process.c 159-177, 291-303).
THEOREM Delivery == ASSUME ~Spurious PROVE Spec => SendMeansDelivered
<1> DEFINE Step == /\ pc = "wake" /\ pc' = "user" => buf[peer] = buf[caller]
                   /\ \A p \in Procs : Sending(p) /\ ~Sending(p)'
                                          => buf'[p_sendto[p]] = buf[p]
<1>1. IInv /\ [Next]_vars => [Step]_vars
  <2> SUFFICES ASSUME IInv, Next PROVE Step
    OBVIOUS
  <2>1. pc = "wake" => buf[peer] = buf[caller]
    BY DEF IInv, Inv5
  <2>2. ASSUME NEW p \in Procs, Sending(p), ~Sending(p)'
        PROVE  buf'[p_sendto[p]] = buf[p]
    <3>1. ReceiveTake /\ TakeAsserts
      <4>1. p_flags' # p_flags
        BY <2>2 DEF Sending
      <4>2. ~(SendWake \/ SendEnqueue \/ ReceiveMark \/ HdInterrupt)
        BY Pids, <2>2 DEF IInv, Inv1, TypeOK, Sending, SendWake, SendEnqueue, ReceiveMark,
           HdInterrupt, Fail, procVars
      <4>3. ReceiveTake
        BY <4>1, <4>2 DEF Next, User, Kernel, Halted, vars, procVars,
           SysSend, SysReceive, HdCmdOut, TaskPanic, Preempt, DeadlockStep, SendMatch,
           SendAddress, SendCopy, SendClear, SendTail, ReceiveCheck, ReceiveFromZero, ReceiveInt,
           ReceiveIntDone, ReceiveSearch, Block, BlockExit, Return, Leave, Fail
      <4> QED
        BY <4>1, <4>3 DEF ReceiveTake, WithoutFrom, Fail, procVars
    <3>2. p = From /\ p_sendto[p] = caller
      BY <2>2, <3>1 DEF ReceiveTake, WithoutFrom, TakeAsserts, Sending, IInv, Inv1, TypeOK
    <3>3. caller \in Procs
      BY <3>1 DEF ReceiveTake, WithoutFrom, IInv, Inv1, CallOK
    <3> QED
      BY <3>1, <3>2, <3>3 DEF ReceiveTake, WithoutFrom, IInv, Inv1, TypeOK
  <2> QED
    BY <2>1, <2>2
<1> QED
  BY <1>1, Invariance, PTL DEF Spec, SendMeansDelivered
=============================================================================
