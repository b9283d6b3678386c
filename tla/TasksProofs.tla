---------------------------- MODULE TasksProofs ----------------------------
(***************************************************************************)
(* What is proved about the message passing for any callers holds of the   *)
(* programs of the image: each of their steps is a step of Ipc.            *)
(***************************************************************************)
EXTENDS Tasks, IpcProofs

LEMMA CallIsIpc ==
    /\ \A d, t : t \in Types /\ SysSend(d, t) => Next
    /\ \A s : SysReceive(s) => Next
<1>1. ASSUME NEW d, NEW t \in Types, SysSend(d, t) PROVE Next
  <2>1. d \in Procs
    BY <1>1, PairAssumption DEF SysSend
  <2> QED
    BY <1>1, <2>1 DEF Next, User
<1>2. ASSUME NEW s, SysReceive(s) PROVE Next
  <2>1. s \in Procs \cup {ANY, INTERRUPT}
    BY <1>2, PairAssumption DEF SysReceive
  <2> QED
    BY <1>2, <2>1 DEF Next, User
<1> QED
  BY <1>1, <1>2

\* Every step of the programs is a step of the message passing, or none of it.
LEMMA TasksStep == TasksNext => Next \/ UNCHANGED vars
<1> SUFFICES ASSUME TasksNext PROVE Next \/ UNCHANGED vars
  OBVIOUS
<1> USE TasksAssumption
<1>1. ASSUME NEW p \in Procs, Step(p) PROVE Next \/ UNCHANGED vars
  <2>1. CASE p \in Clients /\ ClientStep(p)
    BY <2>1, CallIsIpc DEF ClientStep, Ask, Answer
  <2>2. CASE p = TestA /\ OpenStep
    BY <2>2, CallIsIpc DEF OpenStep
  <2>3. CASE p = SYS /\ SysStep
    <3>1. TaskPanic => Next
      BY DEF Next, User
    <3> QED
      BY <2>3, <3>1, CallIsIpc DEF SysStep, Reply, Panic
  <2>4. CASE p = HD /\ HdStep
    <3>1. (TaskPanic => Next) /\ (HdCmdOut => Next)
      BY DEF Next, User
    <3>2. CASE HdReceive \/ HdWait
      BY <3>2, CallIsIpc DEF HdReceive, HdWait
    <3>3. CASE HdServe \/ HdCommand
      BY <3>1, <3>3 DEF HdServe, HdCommand, HdSkip, Panic
    <3>4. CASE HdWaitfor
      BY <3>1, <3>4, CallIsIpc DEF HdWaitfor, Ask, Answer, HdSkip, Panic
    <3>5. CASE HdDone
      BY <3>5 DEF HdDone
    <3> QED
      BY <2>4, <3>2, <3>3, <3>4, <3>5 DEF HdStep
  <2> QED
    BY <1>1, <2>1, <2>2, <2>3, <2>4 DEF Step
<1>2. ASSUME NEW p \in Procs, SwitchTo(p) PROVE Next
  BY <1>2 DEF SwitchTo, Next
<1>3. CASE Kernel \/ HdInterrupt \/ Halted
  BY <1>3 DEF Next
<1> QED
  BY <1>1, <1>2, <1>3 DEF TasksNext

\* The image's programs implement the callers Ipc allows (systask.c, usercall.c,
\* hd.c, main.c), so the theorems of IpcProofs are theorems about the image.
THEOREM ImageIsIpc == TasksSpec => Spec
<1>1. TasksInit => Init
  BY DEF TasksInit
<1>2. [TasksNext]_allVars => [Next]_vars
  BY TasksStep DEF allVars
<1> QED
  BY <1>1, <1>2, PTL DEF TasksSpec, Spec

\* In the image, too, no sender and receiver that could meet are left blocked,
\* no senders block each other in a circle, and no queue loses a sender.
THEOREM ImageRendezvous == TasksSpec => [](NoMissedRendezvous /\ NoSendCycle /\ QueueInv)
BY ImageIsIpc, NothingMissed, NoSenderCircle, QueuesIntact, PTL

-----------------------------------------------------------------------------
(* What task_sys, task_hd and their callers know of each other             *)

Askers == Clients \cup {HD}
Asked  == {"started", "answer"}

InSend(p)    == Sending(p) \/ (pc \in SendPcs /\ caller = p)
InReceive(p) == Receiving(p) \/ (pc \in ReceivePcs /\ caller = p)

\* p's request has gone, and p will take no message before its answer.
Waits(p) == /\ p \in Askers
            /\ \/ at[p] \in Asked /\ ~InSend(p)
               \/ pc \in ReceivePcs /\ caller = p /\ peer = SYS
               \/ Receiving(p) /\ p_recvfrom[p] = SYS

\* What it means that p sends to d, or receives from s: s is the field
\* p_recvfrom of a blocked receiver, the argument src of one in the call.
SendPhase(p, d) ==
    \/ p \in Askers /\ d = SYS /\ at[p] \in Asked /\ buf[p] = [source |-> p, type |-> GET_TICKS]
    \/ p = TestA /\ d = HD /\ at[p] = "ask" /\ buf[p] = [source |-> p, type |-> DEV_OPEN]
    \/ p = SYS /\ at[p] = "receive" /\ Waits(d)
ReceivePhase(p, s) ==
    \/ p \in Askers /\ s = SYS /\ at[p] # "serve"
    \/ p \in {SYS, HD} /\ s = ANY /\ at[p] = "serve"
    \/ p = HD /\ s \in {INTERRUPT, NilPid} /\ at[p] = "done"

Points == {"receive", "serve", "open", "ask", "answer", "start", "started", "poll",
           "command", "wait", "done", "busy"}

\* A task that has a message has one it can serve; task_sys's comes from a
\* process that waits for the answer.
TalkOK ==
    /\ at \in [Procs -> Points]
    /\ \A p \in Procs : Sending(p) => SendPhase(p, p_sendto[p])
    /\ \A p \in Procs : Receiving(p) => ReceivePhase(p, p_recvfrom[p])
    /\ pc \in SendPcs => SendPhase(caller, peer)
    /\ pc \in ReceivePcs => ReceivePhase(caller, peer)
    /\ at[SYS] = "serve" /\ ~InReceive(SYS)
          => buf[SYS].type = GET_TICKS /\ Waits(buf[SYS].source)
    /\ at[HD] = "serve" /\ ~InReceive(HD) => buf[HD].type = DEV_OPEN
    /\ pc = "deadlock" => walk \in {peer, SYS} \/ ~Sending(walk)

TInv == (pc # "halt" => fault = "none" /\ TalkOK) /\ OnlyDiskStops

\* The destinations and sources that matter are different pids.
LEMMA Parties ==
    /\ {SYS, HD} \cup Clients \subseteq Procs \ {0} /\ TestA \in Clients
    /\ SYS # HD /\ SYS \notin Clients /\ HD \notin Clients /\ SYS \notin Askers
    /\ GET_TICKS # DEV_OPEN
    /\ \A p \in Procs : p # ANY /\ p # INTERRUPT /\ p # NilPid
    /\ ANY # INTERRUPT /\ ANY # NilPid /\ INTERRUPT # NilPid
BY TasksAssumption, Pids DEF Askers

\* What the message passing itself guarantees, as far as it is needed here.
LEMMA Blocked ==
    ASSUME IInv, pc # "halt"
    PROVE  /\ p_flags \in [Procs -> {{}, {"SENDING"}, {"RECEIVING"}}]
           /\ \A p \in Procs : Sending(p) => ~Receiving(p)
           /\ \A p \in Procs : Sending(p) => p_sendto[p] \in Procs \ {p}
           /\ p_recvfrom \in [Procs -> Procs \cup {ANY, NO_TASK, NilPid}]
           /\ p_sendto \in [Procs -> Procs \cup {NO_TASK}]
           /\ buf \in [Procs -> Messages] /\ p_proc_ready \in Procs
           /\ pc # "user" => caller \in Procs
           /\ pc \in {"user", "exit"} => p_flags[p_proc_ready] = {}
           /\ pc \in (SendPcs \cup ReceivePcs) \ {"tail"} => p_flags[caller] = {}
           /\ pc \in SendPcs => peer \in Procs \ {caller}
BY DEF IInv, Inv1, TypeOK, CallOK, Shape, Sending, Receiving, SendPcs, ReceivePcs

\* A step that changes nothing of what is said, but where the kernel is.
LEMMA TalkFrame ==
    ASSUME TalkOK, UNCHANGED <<at, p_flags, p_recvfrom, p_sendto, buf>>,
           pc \in SendPcs <=> pc' \in SendPcs, pc \in ReceivePcs <=> pc' \in ReceivePcs,
           pc \in SendPcs \cup ReceivePcs => UNCHANGED <<caller, peer>>,
           (pc = "deadlock" => walk \in {peer, SYS} \/ ~Sending(walk))'
    PROVE  TalkOK'
<1> USE DEF InSend, InReceive, Sending, Receiving
<1>1. \A p : Waits(p)' <=> Waits(p)
  BY DEF Waits
<1>2. \A p, d : /\ SendPhase(p, d)' <=> SendPhase(p, d)
                /\ ReceivePhase(p, d)' <=> ReceivePhase(p, d)
  BY <1>1 DEF SendPhase, ReceivePhase
<1> QED
  BY <1>1, <1>2 DEF TalkOK

\* The walk of deadlock() never comes back to its caller: task_sys sends only to
\* a process that waits for it, everyone else to task_sys or, TestA, to task_hd.
LEMMA NoWayBack ==
    ASSUME IInv, TalkOK, pc = "deadlock", Sending(walk)
    PROVE  /\ p_sendto[walk] # caller
           /\ p_sendto[walk] = SYS \/ ~Sending(p_sendto[walk])
<1> USE Parties
<1>1. /\ walk \in {peer, SYS} /\ pc \in SendPcs /\ p_flags[caller] = {}
      /\ caller \in Procs /\ peer \in Procs /\ SYS \in Procs
  BY Blocked DEF TalkOK, SendPcs
<1>2. SendPhase(walk, p_sendto[walk]) /\ SendPhase(caller, peer) /\ ~Sending(caller)
      /\ pc \notin ReceivePcs
  BY <1>1 DEF TalkOK, Sending, SendPcs, ReceivePcs
<1>3. \A q : Waits(q) => ~Sending(q) /\ q # caller
  <2> TAKE q
  <2>1. Receiving(q) /\ q \in Procs => ~Sending(q)
    BY Blocked
  <2>2. Waits(q) => q \in Procs
    BY DEF Waits, Askers
  <2> QED
    BY <1>1, <1>2, <2>1, <2>2 DEF Waits, InSend, Receiving
<1>4. CASE walk = SYS
  <2>1. Waits(p_sendto[walk])
    BY <1>2, <1>4 DEF SendPhase
  <2> QED
    BY <1>3, <2>1
<1>5. CASE walk # SYS
  <2>1. walk = peer /\ caller # SYS
    BY <1>1, <1>2, <1>3, <1>5 DEF SendPhase
  <2>2. walk = HD /\ p_sendto[walk] = SYS
    BY <1>2, <1>5, <2>1 DEF SendPhase
  <2> QED
    BY <2>1, <2>2
<1> QED
  BY <1>4, <1>5

LEMMA DeadlockTInv ==
    ASSUME IInv, TInv, DeadlockStep, UNCHANGED at PROVE TInv'
<1>1. pc = "deadlock" /\ TalkOK /\ fault = "none"
  BY DEF DeadlockStep, TInv
<1>2. ~(~WalkEnds /\ ReachesCaller)
  BY <1>1, NoWayBack DEF WalkEnds, ReachesCaller
<1>3. CASE ~WalkEnds /\ walk' = p_sendto[walk] /\ UNCHANGED <<procVars, callVars, buf, pc, fault>>
  <2>1. (walk \in {peer, SYS} \/ ~Sending(walk))'
    BY <1>1, <1>3, NoWayBack DEF WalkEnds, Sending, procVars, callVars
  <2> QED
    BY <1>1, <1>3, <2>1, TalkFrame DEF procVars, callVars, TInv, OnlyDiskStops
<1>4. CASE pc' = "match" /\ UNCHANGED <<procVars, callVars, buf, fault>>
  BY <1>1, <1>4, TalkFrame DEF procVars, callVars, TInv, OnlyDiskStops, SendPcs, ReceivePcs
<1> QED
  BY <1>2, <1>3, <1>4 DEF DeadlockStep

\* No assertion of the message passing but has_int_msg = 0 can fail.
LEMMA FailTInv ==
    ASSUME ~Spurious, IInv', NEW n, n \notin {"deadlock", "src0", "panic"}, Fail(n)
    PROVE  TInv'
BY DEF Fail, TInv, OnlyDiskStops, IInv, AssertionsHold

LEMMA QuietTInv ==
    ASSUME ~Spurious, IInv, IInv', TInv, UNCHANGED at,
           \/ SendMatch \/ SendAddress \/ SendClear
           \/ ReceiveCheck \/ ReceiveFromZero \/ ReceiveSearch
    PROVE  TInv'
<1> USE Parties DEF SendPcs, ReceivePcs
<1>1. pc # "halt" /\ TalkOK /\ fault = "none"
  BY DEF SendMatch, SendAddress, SendClear, ReceiveCheck, ReceiveFromZero, ReceiveSearch, TInv
<1>2. CASE /\ pc' # "deadlock"
           /\ pc \in SendPcs <=> pc' \in SendPcs
           /\ pc \in ReceivePcs <=> pc' \in ReceivePcs
           /\ UNCHANGED <<p_flags, p_recvfrom, p_sendto, buf, caller, peer, fault>>
  BY <1>1, <1>2, TalkFrame DEF TInv, OnlyDiskStops
<1>3. CASE SendMatch \/ SendAddress \/ SendClear \/ ReceiveCheck
  BY <1>2, <1>3 DEF SendMatch, SendAddress, SendClear, ReceiveCheck, procVars, callVars
<1>4. ~ReceiveFromZero
  BY <1>1, Pids DEF ReceiveFromZero, TalkOK, ReceivePhase
<1>5. CASE ReceiveSearch
  BY <1>2, <1>5, FailTInv DEF ReceiveSearch, procVars, callVars
<1> QED
  BY <1>3, <1>4, <1>5

\* The copy goes to a process that receives, and is not the caller.
LEMMA CopyTInv ==
    ASSUME ~Spurious, IInv, TInv, UNCHANGED at, SendCopy PROVE TInv'
<1> USE Parties DEF InSend, InReceive, Sending, Receiving
<1>1. pc = "copy" /\ pc' = "clear" /\ TalkOK /\ fault = "none" /\ fault' = fault
      /\ UNCHANGED <<p_flags, p_recvfrom, p_sendto, caller, peer>>
  BY DEF SendCopy, TInv, procVars, callVars
<1>2. /\ peer \in Procs \ {caller} /\ Receiving(peer) /\ ~Sending(peer)
      /\ \A p \in Procs \ {peer} : buf'[p] = buf[p]
  <2>1. Matches(peer, caller)
    BY <1>1 DEF IInv, Inv5
  <2> QED
    BY <1>1, <2>1, Blocked DEF SendCopy, Copied, Matches, SendPcs
<1>3. \A p : Waits(p)' <=> Waits(p)
  BY <1>1 DEF Waits, SendPcs, ReceivePcs
<1>4. \A p \in Procs \ {peer} : \A d : SendPhase(p, d)' <=> SendPhase(p, d)
  BY <1>1, <1>2, <1>3 DEF SendPhase
<1>5. \A p, d : ReceivePhase(p, d)' <=> ReceivePhase(p, d)
  BY <1>1 DEF ReceivePhase
<1>6. caller \in Procs
  BY <1>1, Blocked
<1>7. \A p \in Procs : ~InReceive(p) => buf'[p] = buf[p]
  BY <1>2
<1>8. TalkOK'
  BY <1>1, <1>2, <1>3, <1>4, <1>5, <1>6, <1>7 DEF TalkOK, SendPcs, ReceivePcs
<1> QED
  BY <1>1, <1>8 DEF TInv, OnlyDiskStops

LEMMA EnqueueTInv ==
    ASSUME ~Spurious, IInv, IInv', TInv, UNCHANGED at, SendEnqueue \/ SendTail PROVE TInv'
<1> USE Parties DEF SendPcs, ReceivePcs
<1>1. /\ pc \in {"enqueue", "tail"} /\ TalkOK /\ fault = "none"
      /\ caller \in Procs /\ peer \in Procs \ {caller} /\ ~Receiving(caller)
      /\ pc = "tail" => Sending(caller) /\ p_sendto[caller] = peer
  <2>1. pc = "enqueue" \/ (pc = "tail" /\ Sending(caller) /\ p_sendto[caller] = peer)
    BY DEF SendEnqueue, SendTail, IInv, Inv1, CallOK, Sending
  <2> QED
    BY <2>1, Blocked DEF SendEnqueue, SendTail, TInv, Receiving
<1>2. ASSUME pc' \in {"tail", "block"}, UNCHANGED <<p_recvfrom, buf, caller, peer, fault>>,
             p_flags' = [p_flags EXCEPT ![caller] = {"SENDING"}],
             p_sendto' = [p_sendto EXCEPT ![caller] = peer]
      PROVE  TInv'
  <2>1. /\ \A p \in Procs \ {caller} : p_flags'[p] = p_flags[p] /\ p_sendto'[p] = p_sendto[p]
        /\ p_flags'[caller] = {"SENDING"} /\ p_sendto'[caller] = peer
    BY <1>1, <1>2, Blocked
  <2> USE DEF InSend, InReceive, Sending, Receiving
  <2>2. \A p \in Procs : /\ InSend(p)' <=> InSend(p)
                         /\ Receiving(p)' <=> Receiving(p)
                         /\ InReceive(p)' <=> InReceive(p)
    BY <1>1, <1>2, <2>1
  <2>3. \A p : Waits(p)' <=> Waits(p)
    BY <1>1, <1>2, <2>2 DEF Waits, Askers
  <2>4. \A p, d : /\ SendPhase(p, d)' <=> SendPhase(p, d)
                  /\ ReceivePhase(p, d)' <=> ReceivePhase(p, d)
    BY <1>2, <2>3 DEF SendPhase, ReceivePhase
  <2>5. TalkOK'
    BY <1>1, <1>2, <2>1, <2>2, <2>3, <2>4 DEF TalkOK
  <2> QED
    BY <1>1, <1>2, <2>5 DEF TInv, OnlyDiskStops
<1>3. CASE SendEnqueue /\ p_flags[caller] = {}
  BY <1>1, <1>2, <1>3 DEF SendEnqueue, callVars
<1>4. CASE SendTail
  <2>1. /\ p_flags = [p_flags EXCEPT ![caller] = {"SENDING"}]
        /\ p_sendto = [p_sendto EXCEPT ![caller] = peer]
    <3>1. p_flags[caller] = {"SENDING"} /\ p_sendto[caller] = peer
      BY <1>1, <1>4, Blocked DEF SendTail, Sending
    <3> QED
      BY <1>1, <3>1, Blocked
  <2> QED
    BY <1>1, <1>2, <1>4, <2>1 DEF SendTail, procVars, callVars
<1>5. CASE SendEnqueue /\ p_flags[caller] # {}
  BY <1>5, FailTInv DEF SendEnqueue
<1> QED
  BY <1>3, <1>4, <1>5

LEMMA MarkTInv ==
    ASSUME ~Spurious, IInv, TInv, UNCHANGED at, ReceiveMark PROVE TInv'
<1> USE Parties DEF SendPcs, ReceivePcs
<1>1. /\ pc = "mark" /\ pc' = "block" /\ TalkOK /\ fault = "none" /\ fault' = fault
      /\ UNCHANGED <<p_sendto, buf, caller, peer>>
      /\ p_flags[caller] = {} /\ caller \in Procs
  BY Blocked DEF ReceiveMark, TInv, callVars
<1>2. /\ \A p \in Procs \ {caller} : p_flags'[p] = p_flags[p] /\ p_recvfrom'[p] = p_recvfrom[p]
      /\ p_flags'[caller] = {"RECEIVING"}
      /\ p_recvfrom'[caller] = IF peer = INTERRUPT THEN NilPid ELSE peer
  BY <1>1, Blocked DEF ReceiveMark
<1> USE DEF InSend, InReceive, Sending, Receiving
<1>3. \A p \in Procs : /\ InSend(p)' <=> InSend(p)
                       /\ InReceive(p)' <=> InReceive(p)
                       /\ Sending(p)' <=> Sending(p)
  BY <1>1, <1>2
<1>4. \A p : Waits(p)' <=> Waits(p)
  BY <1>1, <1>2, <1>3 DEF Waits, Askers
<1>5. \A p, d : SendPhase(p, d)' <=> SendPhase(p, d)
  BY <1>1, <1>4 DEF SendPhase
<1>6. \A p, d : ReceivePhase(p, d)' <=> ReceivePhase(p, d)
  BY <1>1 DEF ReceivePhase
<1>7. ReceivePhase(caller, p_recvfrom'[caller])
  BY <1>1, <1>2 DEF TalkOK, ReceivePhase
<1>8. TalkOK'
  BY <1>1, <1>2, <1>3, <1>4, <1>5, <1>6, <1>7 DEF TalkOK
<1> QED
  BY <1>1, <1>8 DEF TInv, OnlyDiskStops

LEMMA ExitTInv ==
    ASSUME ~Spurious, IInv, IInv', TInv, UNCHANGED at, Block \/ BlockExit \/ HdInterrupt
    PROVE  TInv'
<1> USE DEF SendPcs, ReceivePcs
<1>1. pc # "halt" /\ TalkOK /\ fault = "none"
  BY DEF Block, BlockExit, HdInterrupt, TInv
<1>2. CASE Block
  <2>1. CASE pc' = "exit" /\ UNCHANGED <<procVars, callVars, buf, fault>>
    BY <1>1, <1>2, <2>1, TalkFrame DEF Block, procVars, callVars, TInv, OnlyDiskStops
  <2> QED
    BY <1>2, <2>1, FailTInv DEF Block
<1>3. CASE BlockExit
  <2>1. CASE pc' = "user" /\ UNCHANGED <<procVars, buf, fault>>
    BY <1>1, <1>3, <2>1, TalkFrame DEF BlockExit, procVars, TInv, OnlyDiskStops
  <2>2. CASE \E n \in {"sent", "intmsg", "wait"} : Fail(n)
    BY <2>2, FailTInv
  <2> QED
    BY <1>3, <2>1, <2>2 DEF BlockExit, Leave
<1>4. CASE HdInterrupt
  <2>1. ~(Receiving(HD) /\ p_recvfrom[HD] \in {INTERRUPT, ANY})
    BY <1>4, Pids DEF HdInterrupt, IInv, Inv5
  <2>2. UNCHANGED <<p_flags, p_recvfrom, p_sendto, buf, pc, fault, callVars, walk>>
    BY <1>4, <2>1 DEF HdInterrupt
  <2>3. (pc = "deadlock" => walk \in {peer, SYS} \/ ~Sending(walk))'
    BY <1>1, <2>2 DEF TalkOK, Sending, callVars
  <2> QED
    BY <1>1, <2>2, <2>3, TalkFrame DEF callVars, TInv, OnlyDiskStops
<1> QED
  BY <1>2, <1>3, <1>4

\* The interrupt's message goes to a driver that waits for it.
LEMMA IntTInv ==
    ASSUME ~Spurious, IInv, IInv', TInv, UNCHANGED at, ReceiveInt \/ ReceiveIntDone
    PROVE  TInv'
<1> USE Parties DEF SendPcs, ReceivePcs
<1>1. /\ pc \in {"takeint", "tookint"} /\ TalkOK /\ fault = "none"
      /\ UNCHANGED <<p_flags, p_recvfrom, p_sendto>>
  BY DEF ReceiveInt, ReceiveIntDone, Return, Fail, TInv, procVars
<1>2. caller = HD /\ peer = INTERRUPT /\ p_flags[caller] = {} /\ HD \in Procs
  <2>1. caller = HD
    BY <1>1, Blocked DEF IInv, Inv5
  <2> QED
    BY <1>1, <2>1, Blocked DEF IInv, Inv5
<1>3. at[HD] = "done"
  BY <1>1, <1>2 DEF TalkOK, ReceivePhase
<1>4. ASSUME pc' \in {"tookint", "user"}, pc' = "tookint" => UNCHANGED <<caller, peer>>,
             \A p \in Procs \ {HD} : buf'[p] = buf[p], fault' = fault
      PROVE  TInv'
  <2> USE DEF InSend, InReceive, Sending, Receiving
  <2>1. /\ \A p \in Procs : InSend(p)' <=> InSend(p)
        /\ \A p \in Procs \ {HD} : InReceive(p)' <=> InReceive(p)
        /\ ~Sending(HD) /\ ~Receiving(HD)
    BY <1>1, <1>2, <1>4
  <2>2. \A p \in Procs : Waits(p) <=> Waits(p)'
    BY <1>1, <1>2, <1>4, <2>1 DEF Waits
  <2>3. \A d : Waits(d) => d \in Procs
    BY DEF Waits, Askers
  <2>4. \A p \in Procs \ {HD} : \A d : SendPhase(p, d) => SendPhase(p, d)'
    BY <1>1, <1>4, <2>2, <2>3 DEF SendPhase
  <2>5. \A p, d : ReceivePhase(p, d)' <=> ReceivePhase(p, d)
    BY <1>1 DEF ReceivePhase
  <2>6. TalkOK'
    BY <1>1, <1>2, <1>3, <1>4, <2>1, <2>2, <2>3, <2>4, <2>5 DEF TalkOK
  <2> QED
    BY <1>1, <1>4, <2>6 DEF TInv, OnlyDiskStops
<1>5. CASE ReceiveInt
  BY <1>2, <1>4, <1>5, Blocked DEF ReceiveInt, callVars
<1>6. CASE ReceiveIntDone
  <2>1. CASE Return /\ UNCHANGED buf
    BY <1>4, <2>1 DEF Return, Leave
  <2> QED
    BY <1>6, <2>1, FailTInv DEF ReceiveIntDone
<1> QED
  BY <1>5, <1>6

\* A message has been copied to d and d goes on with it, the sender f too: what
\* both kinds of delivery have in common.
LEMMA DeliveredTInv ==
    ASSUME TalkOK, UNCHANGED at, fault = "none", UNCHANGED fault, pc' = "user",
           NEW f \in Procs, NEW d \in Procs, f # d,
           SendPhase(f, d), ReceivePhase(d, f) \/ ReceivePhase(d, ANY),
           InSend(f), InReceive(d), ~InReceive(f), ~InSend(d),
           \A p \in Procs : pc \in SendPcs \cup ReceivePcs /\ caller = p => p \in {f, d},
           p_flags'[f] = {}, p_flags'[d] = {},
           \A p \in Procs \ {f, d} : p_flags'[p] = p_flags[p],
           \A p \in Procs \ {f} : p_sendto'[p] = p_sendto[p],
           \A p \in Procs \ {d} : p_recvfrom'[p] = p_recvfrom[p] /\ buf'[p] = buf[p],
           buf'[d] = buf[f]
    PROVE  TInv'
<1> USE Parties DEF SendPcs, ReceivePcs, InSend, InReceive, Sending, Receiving
<1>1. /\ \A p \in Procs \ {f, d} : /\ InSend(p)' <=> InSend(p)
                                   /\ InReceive(p)' <=> InReceive(p)
                                   /\ Sending(p)' <=> Sending(p)
                                   /\ Receiving(p)' <=> Receiving(p)
      /\ ~InSend(f)' /\ ~InSend(d)' /\ ~InReceive(f)' /\ ~InReceive(d)'
      /\ pc' \notin SendPcs \cup ReceivePcs
  OBVIOUS
<1>2. \A q : Waits(q) => q \in Procs \ {f} /\ (q # d => Waits(q)') /\ at[q] # "serve"
  <2> TAKE q
  <2> SUFFICES ASSUME Waits(q)
               PROVE  q \in Procs \ {f} /\ (q # d => Waits(q)') /\ at[q] # "serve"
    OBVIOUS
  <2>1. q \in Procs /\ q # f
    BY DEF Waits, Askers
  <2>2. q # d => Waits(q)'
    BY <1>1, <2>1 DEF Waits
  <2>3. at[q] \in Asked \/ ReceivePhase(q, SYS)
    BY <2>1 DEF Waits, TalkOK
  <2> QED
    BY <2>1, <2>2, <2>3 DEF ReceivePhase, Asked
<1>3. \A p \in Procs \ {f, d} :
         /\ p # SYS => \A x : SendPhase(p, x) => SendPhase(p, x)'
         /\ \A x : x # d /\ SendPhase(p, x) => SendPhase(p, x)'
  BY <1>2 DEF SendPhase
<1>4. \A p, x : ReceivePhase(p, x)' <=> ReceivePhase(p, x)
  BY DEF ReceivePhase
<1> SUFFICES /\ (\A p \in Procs : Sending(p) => SendPhase(p, p_sendto[p]))'
             /\ (at[SYS] = "serve" /\ ~InReceive(SYS)
                   => buf[SYS].type = GET_TICKS /\ Waits(buf[SYS].source))'
             /\ (at[HD] = "serve" /\ ~InReceive(HD) => buf[HD].type = DEV_OPEN)'
  BY <1>1, <1>4 DEF TalkOK, TInv, OnlyDiskStops
<1>5. CASE f \in Askers /\ d = SYS /\ at[f] \in Asked
           /\ buf[f] = [source |-> f, type |-> GET_TICKS]
  <2>1. Waits(f)'
    BY <1>1, <1>5 DEF Waits
  <2> QED
    BY <1>1, <1>3, <1>5, <2>1 DEF TalkOK, Asked
<1>6. CASE f = TestA /\ d = HD /\ at[f] = "ask" /\ buf[f] = [source |-> f, type |-> DEV_OPEN]
  <2>1. at[HD] = "serve"
    BY <1>6 DEF ReceivePhase
  <2>2. \A q : Waits(q) => q # d /\ Waits(q)'
    BY <1>2, <1>6, <2>1
  <2>3. \A p \in Procs \ {f, d} : \A x : SendPhase(p, x) => SendPhase(p, x)'
    BY <2>2 DEF SendPhase
  <2> QED
    BY <1>1, <1>6, <2>2, <2>3 DEF TalkOK
<1>7. CASE f = SYS /\ at[f] = "receive" /\ Waits(d)
  BY <1>1, <1>2, <1>3, <1>7 DEF TalkOK
<1> QED
  BY <1>5, <1>6, <1>7 DEF SendPhase

LEMMA WakeTInv ==
    ASSUME ~Spurious, IInv, IInv', TInv, UNCHANGED at, SendWake PROVE TInv'
<1> USE Parties DEF SendPcs, ReceivePcs, InSend, InReceive, Sending, Receiving
<1>1. /\ pc = "wake" /\ TalkOK /\ fault = "none" /\ caller \in Procs
      /\ peer \in Procs \ {caller} /\ p_flags[caller] = {}
      /\ Matches(peer, caller) /\ buf[peer] = buf[caller]
  BY Blocked DEF SendWake, TInv, IInv, Inv5
<1>2. CASE UNCHANGED <<p_sendto, buf, fault>> /\ Leave
           /\ p_flags' = [p_flags EXCEPT ![peer] = @ \ {"RECEIVING"}]
           /\ p_recvfrom' = [p_recvfrom EXCEPT ![peer] = NO_TASK]
  <2>1. Receiving(peer) /\ p_flags[peer] = {"RECEIVING"} /\ p_recvfrom[peer] \in {caller, ANY}
    BY <1>1, Blocked DEF Matches
  <2>2. /\ \A p \in Procs \ {peer} : p_flags'[p] = p_flags[p] /\ p_recvfrom'[p] = p_recvfrom[p]
        /\ p_flags'[peer] = {}
    BY <1>1, <1>2, <2>1, Blocked
  <2>3. SendPhase(caller, peer) /\ (ReceivePhase(peer, caller) \/ ReceivePhase(peer, ANY))
    BY <1>1, <2>1 DEF TalkOK
  <2>4. InSend(caller) /\ InReceive(peer) /\ ~InReceive(caller) /\ ~InSend(peer)
        /\ pc' = "user" /\ p_flags'[caller] = {}
    BY <1>1, <1>2, <2>1, <2>2 DEF Leave
  <2> QED
    BY <1>1, <1>2, <2>2, <2>3, <2>4, DeliveredTInv
<1> QED
  BY <1>1, <1>2, FailTInv DEF SendWake, Return

LEMMA TakeTInv ==
    ASSUME ~Spurious, IInv, IInv', TInv, UNCHANGED at, ReceiveTake PROVE TInv'
<1> USE Parties DEF SendPcs, ReceivePcs, InSend, InReceive, Sending, Receiving
<1>1. /\ pc = "take" /\ TalkOK /\ fault = "none" /\ caller \in Procs
      /\ p_flags[caller] = {}
      /\ peer \in Procs \cup {ANY}
  BY Blocked DEF ReceiveTake, TInv, IInv, Inv1, CallOK
<1>2. CASE TakeAsserts /\ UNCHANGED <<p_recvfrom, fault>> /\ Leave
           /\ buf' = [buf EXCEPT ![caller] = buf[From]]
           /\ p_flags' = [p_flags EXCEPT ![From] = @ \ {"SENDING"}]
           /\ p_sendto' = [p_sendto EXCEPT ![From] = NO_TASK]
  <2>1. p_flags[From] = {"SENDING"} /\ p_sendto[From] = caller /\ From \in Procs \ {caller}
        /\ peer \in {From, ANY}
    <3>1. From \in Procs
      BY <1>1, <1>2, Pids DEF IInv, Inv1, TypeOK, From, TakeAsserts
    <3> QED
      BY <1>1, <1>2, <3>1 DEF TakeAsserts, From
  <2>2. /\ \A p \in Procs \ {From} : p_flags'[p] = p_flags[p] /\ p_sendto'[p] = p_sendto[p]
        /\ p_flags'[From] = {} /\ \A p \in Procs \ {caller} : buf'[p] = buf[p]
        /\ buf'[caller] = buf[From]
    BY <1>1, <1>2, <2>1, Blocked
  <2> HIDE DEF From
  <2>3. SendPhase(From, caller) /\ (ReceivePhase(caller, From) \/ ReceivePhase(caller, ANY))
    BY <1>1, <2>1 DEF TalkOK
  <2>4. InSend(From) /\ InReceive(caller) /\ ~InReceive(From) /\ ~InSend(caller)
        /\ pc' = "user" /\ p_flags'[caller] = {}
    BY <1>1, <1>2, <2>1, <2>2 DEF Leave
  <2> QED
    BY <1>1, <1>2, <2>1, <2>2, <2>3, <2>4, DeliveredTInv
<1> QED
  BY <1>1, <1>2, FailTInv DEF ReceiveTake, Return

LEMMA KernelTInv ==
    ASSUME ~Spurious, IInv, IInv', TInv, UNCHANGED at, Kernel \/ HdInterrupt \/ Halted
    PROVE  TInv'
<1>1. CASE Halted
  BY <1>1 DEF Halted, vars, TInv, OnlyDiskStops
<1> QED
  BY <1>1, DeadlockTInv, QuietTInv, CopyTInv, WakeTInv, EnqueueTInv, IntTInv, TakeTInv,
     MarkTInv, ExitTInv DEF Kernel

-----------------------------------------------------------------------------
(* The steps of the programs                                               *)

\* A process at user level is in no call, and Waits for nothing unless it says so.
LEMMA AtUser ==
    ASSUME IInv, TInv, pc = "user", NEW p \in Procs, p_proc_ready = p
    PROVE  /\ TalkOK /\ fault = "none" /\ p_flags[p] = {}
           /\ ~InSend(p) /\ ~InReceive(p) /\ (Waits(p) => at[p] \in Asked)
<1>1. TalkOK /\ fault = "none" /\ p_flags[p] = {}
  BY Blocked DEF TInv
<1> QED
  BY <1>1 DEF InSend, InReceive, Waits, Sending, Receiving, SendPcs, ReceivePcs

\* p moves on and nothing else that the others can tell changes.
LEMMA Elsewhere ==
    ASSUME NEW p \in Procs, pc = "user", pc' \in {"user", "deadlock", "receive"},
           pc' # "user" => caller' = p, UNCHANGED <<p_flags, p_recvfrom, p_sendto>>,
           \A q \in Procs \ {p} : at'[q] = at[q] /\ buf'[q] = buf[q]
    PROVE  \A q \in Procs \ {p} :
              /\ InSend(q)' <=> InSend(q)
              /\ InReceive(q)' <=> InReceive(q)
              /\ Waits(q)' <=> Waits(q)
<1> USE DEF SendPcs, ReceivePcs, Sending, Receiving, InSend, InReceive
<1>1. \A q \in Procs \ {p} : /\ InSend(q)' <=> InSend(q)
                             /\ InReceive(q)' <=> InReceive(q)
  OBVIOUS
<1>2. \A q \in Procs \ {p} : Waits(q)' <=> Waits(q)
  BY DEF Waits
<1> QED
  BY <1>1, <1>2

LEMMA SendTInv ==
    ASSUME IInv, TInv, NEW p \in Procs, NEW d \in Procs, NEW t \in Types, SysSend(d, t),
           NEW here \in Points \ Asked, NEW there \in Points \ {"serve"}, Goto(p, here, there),
           \/ p \in Askers /\ d = SYS /\ t = GET_TICKS /\ there \in Asked
           \/ p = TestA /\ d = HD /\ t = DEV_OPEN /\ there = "ask"
           \/ p = SYS /\ there = "receive" /\ d # SYS /\ Waits(d)
    PROVE  TInv'
<1> USE Parties DEF SendPcs, ReceivePcs
<1>1. /\ pc = "user" /\ pc' = "deadlock" /\ caller' = p /\ peer' = d /\ walk' = d
      /\ UNCHANGED <<p_flags, p_recvfrom, p_sendto, fault>>
      /\ buf' = [buf EXCEPT ![p] = [source |-> p, type |-> t]]
      /\ p_proc_ready = p /\ at[p] = here /\ at' = [at EXCEPT ![p] = there]
  BY DEF SysSend, MayCall, Goto, procVars
<1>2. /\ TalkOK /\ fault = "none" /\ p_flags[p] = {} /\ ~Waits(p) /\ ~InReceive(p)
  BY <1>1, AtUser
<1>3. /\ \A q \in Procs \ {p} : at'[q] = at[q] /\ buf'[q] = buf[q]
      /\ at'[p] = there /\ buf'[p] = [source |-> p, type |-> t]
      /\ at' \in [Procs -> Points]
  BY <1>1, <1>2, Blocked DEF TalkOK
<1>4. \A q \in Procs \ {p} : /\ InSend(q)' <=> InSend(q)
                             /\ InReceive(q)' <=> InReceive(q)
                             /\ Waits(q)' <=> Waits(q)
  BY <1>1, <1>3, Elsewhere
<1>5. \A q : Waits(q) => q \in Procs \ {p} /\ Waits(q)'
  BY <1>2, <1>4 DEF Waits, Askers
<1>6. \A q \in Procs \ {p} : \A x : /\ SendPhase(q, x) => SendPhase(q, x)'
                                    /\ ReceivePhase(q, x) => ReceivePhase(q, x)'
  BY <1>3, <1>5 DEF SendPhase, ReceivePhase
<1>7. SendPhase(p, d)'
  BY <1>3, <1>5 DEF SendPhase
<1>8. ~Sending(p)' /\ ~Receiving(p)'
      /\ \A q \in Procs : (Sending(q)' <=> Sending(q)) /\ (Receiving(q)' <=> Receiving(q))
  BY <1>1, <1>2 DEF Sending, Receiving
<1>9. (at[SYS] = "serve" /\ ~InReceive(SYS)
          => buf[SYS].type = GET_TICKS /\ Waits(buf[SYS].source))'
  BY <1>3, <1>4, <1>2, <1>5 DEF TalkOK
<1>10. (at[HD] = "serve" /\ ~InReceive(HD) => buf[HD].type = DEV_OPEN)'
  BY <1>3, <1>4, <1>2 DEF TalkOK
<1>11. TalkOK'
  BY <1>1, <1>2, <1>3, <1>6, <1>7, <1>8, <1>9, <1>10 DEF TalkOK
<1> QED
  BY <1>1, <1>2, <1>11 DEF TInv, OnlyDiskStops

LEMMA ReceiveTInv ==
    ASSUME IInv, TInv, NEW p \in Procs, NEW s, SysReceive(s),
           NEW here \in Points \ {"serve"}, NEW there \in Points, Goto(p, here, there),
           \/ p \in Askers /\ s = SYS /\ there \notin Asked \cup {"serve"}
           \/ p \in {SYS, HD} /\ s = ANY /\ here = "receive" /\ there = "serve"
           \/ p = HD /\ s = INTERRUPT /\ here = "wait" /\ there = "done"
    PROVE  TInv'
<1> USE Parties DEF SendPcs, ReceivePcs
<1>1. /\ pc = "user" /\ pc' = "receive" /\ caller' = p /\ peer' = s
      /\ UNCHANGED <<p_flags, p_recvfrom, p_sendto, fault>>
      /\ buf' = [buf EXCEPT ![p].source = p]
      /\ p_proc_ready = p /\ at[p] = here /\ at' = [at EXCEPT ![p] = there]
  BY DEF SysReceive, MayCall, Goto, procVars
<1>2. /\ TalkOK /\ fault = "none" /\ p_flags[p] = {} /\ (Waits(p) => here \in Asked)
  BY <1>1, AtUser
<1>3. /\ \A q \in Procs \ {p} : at'[q] = at[q] /\ buf'[q] = buf[q]
      /\ at'[p] = there
      /\ at' \in [Procs -> Points]
  BY <1>1, <1>2, Blocked DEF TalkOK
<1>4. \A q \in Procs \ {p} : /\ InSend(q)' <=> InSend(q)
                             /\ InReceive(q)' <=> InReceive(q)
                             /\ Waits(q)' <=> Waits(q)
  BY <1>1, <1>3, Elsewhere
<1>5. Waits(p) => Waits(p)'
  BY <1>1, <1>2 DEF Waits, Asked
<1>6. \A q : Waits(q) => Waits(q)'
  BY <1>4, <1>5 DEF Waits, Askers
<1>7. \A q \in Procs \ {p} : \A x : /\ SendPhase(q, x) => SendPhase(q, x)'
                                    /\ ReceivePhase(q, x) => ReceivePhase(q, x)'
  BY <1>3, <1>6 DEF SendPhase, ReceivePhase
<1>8. ReceivePhase(p, s)' /\ InReceive(p)'
  BY <1>1, <1>3 DEF ReceivePhase, InReceive
<1>9. ~Sending(p)' /\ ~Receiving(p)'
      /\ \A q \in Procs : (Sending(q)' <=> Sending(q)) /\ (Receiving(q)' <=> Receiving(q))
  BY <1>1, <1>2 DEF Sending, Receiving
<1>10. (at[SYS] = "serve" /\ ~InReceive(SYS)
          => buf[SYS].type = GET_TICKS /\ Waits(buf[SYS].source))'
  BY <1>2, <1>3, <1>4, <1>6, <1>8 DEF TalkOK
<1>11. (at[HD] = "serve" /\ ~InReceive(HD) => buf[HD].type = DEV_OPEN)'
  BY <1>2, <1>3, <1>4, <1>8 DEF TalkOK
<1>12. TalkOK'
  BY <1>1, <1>2, <1>3, <1>7, <1>8, <1>9, <1>10, <1>11 DEF TalkOK
<1> QED
  BY <1>1, <1>2, <1>12 DEF TInv, OnlyDiskStops

\* The driver goes on without a call.
LEMMA MoveTInv ==
    ASSUME IInv, TInv, pc = "user", p_proc_ready = HD,
           at[HD] \notin Asked, NEW there \in Points \ (Asked \cup {"serve"}),
           at' = [at EXCEPT ![HD] = there],
           UNCHANGED <<procVars, pc, fault, buf, callVars, walk>>
    PROVE  TInv'
<1> USE Parties DEF SendPcs, ReceivePcs, procVars, callVars
<1>1. /\ TalkOK /\ fault = "none" /\ p_flags[HD] = {} /\ ~Waits(HD)
  BY AtUser
<1>2. /\ \A q \in Procs \ {HD} : at'[q] = at[q]
      /\ at'[HD] = there
      /\ at' \in [Procs -> Points]
  BY <1>1 DEF TalkOK
<1>3. \A q \in Procs \ {HD} : /\ InSend(q)' <=> InSend(q)
                              /\ InReceive(q)' <=> InReceive(q)
                              /\ Waits(q)' <=> Waits(q)
  BY <1>2, Elsewhere
<1>4. \A q : Waits(q) => Waits(q)'
  BY <1>1, <1>3 DEF Waits, Askers
<1>5. \A q \in Procs \ {HD} : \A x : /\ SendPhase(q, x) => SendPhase(q, x)'
                                     /\ ReceivePhase(q, x) => ReceivePhase(q, x)'
  BY <1>2, <1>4 DEF SendPhase, ReceivePhase
<1>6. ~Sending(HD)' /\ ~Receiving(HD)'
      /\ \A q \in Procs : (Sending(q)' <=> Sending(q)) /\ (Receiving(q)' <=> Receiving(q))
  BY <1>1 DEF Sending, Receiving
<1>7. (at[SYS] = "serve" /\ ~InReceive(SYS)
          => buf[SYS].type = GET_TICKS /\ Waits(buf[SYS].source))'
  BY <1>1, <1>2, <1>3, <1>4 DEF TalkOK
<1>8. TalkOK'
  BY <1>1, <1>2, <1>5, <1>6, <1>7 DEF TalkOK
<1> QED
  BY <1>1, <1>8 DEF TInv, OnlyDiskStops

\* A request for the ticks, and the receipt of the answer.
LEMMA GetTicksTInv ==
    ASSUME IInv, TInv, NEW p \in Askers
    PROVE  /\ \A h \in Points \ Asked, a \in Asked : Ask(p, h, a) => TInv'
           /\ \A a \in Asked, h \in Points \ (Asked \cup {"serve"}) : Answer(p, a, h) => TInv'
<1>1. p \in Procs /\ SYS \in Procs /\ GET_TICKS \in Types /\ Asked \subseteq Points \ {"serve"}
  BY Parties, TasksAssumption DEF Askers, Asked, Points
<1>2. \A h \in Points \ Asked, a \in Asked : Ask(p, h, a) => TInv'
  BY <1>1, SendTInv DEF Ask
<1>3. \A a \in Asked, h \in Points \ (Asked \cup {"serve"}) : Answer(p, a, h) => TInv'
  BY <1>1, ReceiveTInv DEF Answer
<1> QED
  BY <1>2, <1>3

LEMMA StepTInv ==
    ASSUME ~Spurious, IInv, TInv, NEW p \in Procs, Step(p)
    PROVE  TInv'
<1> USE Parties
<1>p. /\ Points \ {"serve"} = {"receive", "open", "ask", "answer", "start", "started", "poll",
                               "command", "wait", "done", "busy"}
      /\ Asked = {"started", "answer"} /\ "serve" \in Points
      /\ SYS \in Procs /\ HD \in Procs /\ TestA \in Procs /\ HD \in Askers
      /\ GET_TICKS \in Types /\ DEV_OPEN \in Types /\ Clients \subseteq Askers
  BY TasksAssumption DEF Points, Asked, Askers
<1>1. CASE p \in Clients /\ ClientStep(p)
  BY <1>1, <1>p, GetTicksTInv DEF ClientStep
<1>2. CASE OpenStep
  BY <1>2, <1>p, SendTInv DEF OpenStep
<1>3. CASE SysStep
  <2>1. CASE SysReceive(ANY) /\ Goto(SYS, "receive", "serve")
    BY <1>p, <2>1, ReceiveTInv
  <2>2. ASSUME at[SYS] = "serve", pc = "user", p_proc_ready = SYS
        PROVE  buf[SYS].type = GET_TICKS /\ Waits(buf[SYS].source)
    BY <1>p, <2>2, AtUser DEF TalkOK
  <2>3. CASE Reply
    <3> DEFINE d == buf[SYS].source
    <3>1. Goto(SYS, "serve", "receive") /\ SysSend(d, GET_TICKS)
      BY <2>3 DEF Reply
    <3>2. Waits(d)
      BY <2>2, <3>1 DEF Goto, SysSend, MayCall
    <3>3. d \in Procs /\ d # SYS
      BY <3>2 DEF Waits, Askers
    <3> HIDE DEF d
    <3> QED
      BY <1>p, <3>1, <3>2, <3>3, SendTInv
  <2>4. ~(buf[SYS].type # GET_TICKS /\ Panic(SYS, "serve"))
    BY <2>2 DEF Panic, Goto, TaskPanic
  <2> QED
    BY <1>3, <2>1, <2>3, <2>4 DEF SysStep
<1>4. CASE HdStep
  <2>1. ASSUME NEW h \in Points \ Asked, NEW t \in Points \ (Asked \cup {"serve"}), HdSkip(h, t)
        PROVE  TInv'
    <3>1. /\ pc = "user" /\ p_proc_ready = HD /\ at[HD] \notin Asked
          /\ at' = [at EXCEPT ![HD] = t]
          /\ UNCHANGED <<procVars, pc, fault, buf, callVars, walk>>
      BY <2>1 DEF HdSkip, Goto, vars
    <3> QED
      BY <3>1, MoveTInv
  <2>2. CASE HdReceive
    BY <1>p, <2>2, ReceiveTInv DEF HdReceive
  <2>3. CASE HdServe
    <3>1. ~(buf[HD].type # DEV_OPEN /\ Panic(HD, "serve"))
      <4>1. at[HD] = "serve" /\ pc = "user" /\ p_proc_ready = HD => buf[HD].type = DEV_OPEN
        BY <1>p, AtUser DEF TalkOK
      <4> QED
        BY <4>1 DEF Panic, Goto, TaskPanic
    <3> QED
      BY <1>p, <2>1, <2>3, <3>1 DEF HdServe
  <2>4. CASE HdWaitfor
    <3>1. Panic(HD, "poll") => TInv'
      BY <1>p, AtUser DEF Panic, Goto, TaskPanic, Fail, TInv, OnlyDiskStops, TalkOK
    <3> QED
      BY <1>p, <2>1, <2>4, <3>1, GetTicksTInv DEF HdWaitfor
  <2>5. CASE HdCommand
    <3>1. /\ pc = "user" /\ p_proc_ready = HD /\ at[HD] \notin Asked
          /\ at' = [at EXCEPT ![HD] = "wait"]
          /\ UNCHANGED <<procVars, pc, fault, buf, callVars, walk>>
      BY <1>p, <2>5 DEF HdCommand, HdCmdOut, Goto
    <3> QED
      BY <1>p, <3>1, MoveTInv
  <2>6. CASE HdWait
    BY <1>p, <2>6, ReceiveTInv DEF HdWait
  <2>7. CASE HdDone
    <3>1. PICK t \in {"start", "receive"} :
             /\ pc = "user" /\ p_proc_ready = HD /\ at[HD] \notin Asked
             /\ at' = [at EXCEPT ![HD] = t]
             /\ UNCHANGED <<procVars, pc, fault, buf, callVars, walk>>
      BY <1>p, <2>7 DEF HdDone, FirstOpen, vars
    <3> QED
      BY <1>p, <3>1, MoveTInv
  <2> QED
    BY <1>4, <2>2, <2>3, <2>4, <2>5, <2>6, <2>7 DEF HdStep
<1> QED
  BY <1>1, <1>2, <1>3, <1>4 DEF Step

LEMMA InitTInv == TasksInit => TInv
<1> SUFFICES ASSUME TasksInit PROVE TInv
  OBVIOUS
<1>1. /\ pc = "user" /\ fault = "none" /\ \A p \in Procs : ~Sending(p) /\ ~Receiving(p)
      /\ at \in [Procs -> Points] /\ at[SYS] = "receive" /\ at[HD] = "receive"
  BY Parties DEF TasksInit, Init, Sending, Receiving, Points
<1> QED
  BY <1>1 DEF TInv, TalkOK, OnlyDiskStops, SendPcs, ReceivePcs

THEOREM TalkInvariance == ASSUME ~Spurious PROVE TasksSpec => [](IInv /\ TInv)
<1>1. IInv /\ IInv' /\ TInv /\ [TasksNext]_allVars => TInv'
  <2> SUFFICES ASSUME IInv, IInv', TInv, [TasksNext]_allVars PROVE TInv'
    OBVIOUS
  <2>1. ASSUME UNCHANGED <<at, p_flags, p_recvfrom, p_sendto, buf, caller, peer, walk, pc, fault>>,
               p_proc_ready' = p_proc_ready \/ pc = "user"
        PROVE  TInv'
    <3>1. pc # "halt" => TalkOK'
      <4>1. ASSUME pc # "halt" PROVE (pc = "deadlock" => walk \in {peer, SYS} \/ ~Sending(walk))'
        BY <2>1, <4>1 DEF TInv, TalkOK, Sending
      <4> QED
        BY <2>1, <4>1, TalkFrame DEF TInv
    <3>2. pc = "user" => fault = "none"
      BY DEF TInv
    <3> QED
      BY <2>1, <3>1, <3>2 DEF TInv, OnlyDiskStops
  <2>2. CASE UNCHANGED allVars
    BY <2>1, <2>2 DEF allVars, vars, procVars, callVars
  <2>3. ASSUME NEW p \in Procs, SwitchTo(p) PROVE TInv'
    BY <2>1, <2>3 DEF SwitchTo, Preempt, procVars, callVars
  <2> QED
    BY <2>2, <2>3, StepTInv, KernelTInv DEF TasksNext
<1> QED
  BY <1>1, InitTInv, ImageIsIpc, Invariance, PTL DEF TasksSpec

\* As long as IRQ 14 only answers commands, neither a deadlock panic nor a panic
\* for an unknown message can stop the image (systask.c 23, hd.c 173; process.c
\* 98-121): of the panics only that of a disk that does not get ready is left.
THEOREM DiskOnly == ASSUME ~Spurious PROVE TasksSpec => []OnlyDiskStops
BY TalkInvariance, PTL DEF TInv

\* Whoever task_sys has a request of waits for the answer (systask.c 16-20,
\* usercall.c, 8253.c).
THEOREM OneOwed == ASSUME ~Spurious PROVE TasksSpec => []OwesOne
<1>1. IInv /\ TInv => OwesOne
  <2> SUFFICES ASSUME IInv, TInv, at[SYS] = "serve", pc = "user", p_proc_ready = SYS
               PROVE  \/ at[buf[SYS].source] \in {"started", "answer"}
                      \/ p_recvfrom[buf[SYS].source] = SYS
    BY DEF OwesOne
  <2>1. Waits(buf[SYS].source)
    BY Parties, AtUser DEF TalkOK
  <2> QED
    BY <2>1 DEF Waits, Asked, ReceivePcs
<1> QED
  BY <1>1, TalkInvariance, PTL
=============================================================================
