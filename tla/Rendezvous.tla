----------------------------- MODULE Rendezvous -----------------------------
(***************************************************************************)
(* What sendrec promises its callers, without the process table: each      *)
(* destination has a first-in first-out queue of senders, a send is over   *)
(* when its message is in the receiver's hands, a receive takes the oldest *)
(* message of whoever it names, nobody waits while its partner waits for   *)
(* it, and a send is refused exactly when it would close a circle of       *)
(* senders.  The one liberty: if the device may interrupt unasked, it may  *)
(* cut into the handing over of a message to its driver, which then holds  *)
(* the message, the interrupt or a mixture of both.                        *)
(* Ipc is shown to implement this module in IpcRefinement.                 *)
(***************************************************************************)
EXTENDS Integers, Sequences

CONSTANTS Procs, ANY, INTERRUPT, GARBLED, NOBODY, Types, HARD_INT, HD,
          Unasked     \* may the device interrupt without having been asked to?

VARIABLES
    queue,      \* queue[d]: the messages of the senders blocked on d
    waits,      \* waits[p]: whom p is blocked receiving from, or NOBODY
    inbox,      \* inbox[p]: the message p received last and has not let go
    pending,    \* pending[p]: an interrupt nobody has taken yet
    cpu,        \* the process that runs
    refused,    \* a send was refused; the system stopped
    late        \* who is still handing a message to the driver the device woke
vars == <<queue, waits, inbox, pending, cpu, refused, late>>

NoMsg    == [source |-> NOBODY, type |-> HARD_INT]
IntMsg   == [source |-> INTERRUPT, type |-> HARD_INT]
Messages == [source : Procs, type : Types]

Senders(d)   == {queue[d][i].source : i \in DOMAIN queue[d]}
SendsTo(p,d) == p \in Senders(d)
Ready(p)     == waits[p] = NOBODY /\ \A d \in Procs : ~SendsTo(p, d)
Runs(p)      == cpu = p /\ Ready(p) /\ ~refused /\ late = NOBODY

\* What a message of p to the driver may look like after an interrupt cut in.
Mixed(p, t)  == {[source |-> p, type |-> t], IntMsg}
                \cup [source : {GARBLED, INTERRUPT}, type : {t}]

\* d is, or sends directly or through others to, p.
LeadsTo(d, p) ==
    \A S \in SUBSET Procs :
        d \in S /\ (\A q \in S, r \in Procs : SendsTo(q, r) => r \in S) => p \in S

Init ==
    /\ queue   = [p \in Procs |-> <<>>]
    /\ waits   = [p \in Procs |-> NOBODY]
    /\ inbox   = [p \in Procs |-> NoMsg]
    /\ pending = [p \in Procs |-> FALSE]
    /\ cpu \in Procs
    /\ refused = FALSE
    /\ late = NOBODY

\* p starts a call and gives up the message it received before.
Begin(p) ==
    /\ Runs(p)
    /\ inbox' = [inbox EXCEPT ![p] = NoMsg]
    /\ UNCHANGED <<queue, waits, pending, cpu, refused, late>>

\* The destination waits for p: it gets the message and p goes on.
Deliver(p, d, t) ==
    /\ Runs(p) /\ waits[d] \in {p, ANY}
    /\ inbox' = [inbox EXCEPT ![d] = [source |-> p, type |-> t]]
    /\ waits' = [waits EXCEPT ![d] = NOBODY]
    /\ UNCHANGED <<queue, pending, cpu, refused, late>>

\* Otherwise p joins the end of the queue, unless that closes a circle.
Enqueue(p, d, t) ==
    /\ Runs(p) /\ d # p /\ waits[d] \notin {p, ANY} /\ ~LeadsTo(d, p)
    /\ queue' = [queue EXCEPT ![d] = Append(@, [source |-> p, type |-> t])]
    /\ UNCHANGED <<waits, inbox, pending, cpu, refused, late>>

Refuse(p, d) ==
    /\ Runs(p) /\ d # p /\ LeadsTo(d, p)
    /\ refused' = TRUE
    /\ UNCHANGED <<queue, waits, inbox, pending, cpu, late>>

\* The oldest message to r that s allows.
Oldest(r, s, i) == /\ i \in DOMAIN queue[r]
                   /\ s \in {ANY, queue[r][i].source}
                   /\ \A j \in 1 .. i - 1 : s \notin {ANY, queue[r][j].source}

Take(r, s) ==
    /\ Runs(r)
    /\ \E i \in DOMAIN queue[r] :
          /\ Oldest(r, s, i)
          /\ inbox' = [inbox EXCEPT ![r] = queue[r][i]]
          /\ queue' = [queue EXCEPT ![r] = SubSeq(@, 1, i - 1) \o SubSeq(@, i + 1, Len(@))]
    /\ UNCHANGED <<waits, pending, cpu, refused, late>>

TakeInterrupt(r) ==
    /\ Runs(r) /\ pending[r]
    /\ inbox' = [inbox EXCEPT ![r] = IntMsg]
    /\ pending' = [pending EXCEPT ![r] = FALSE]
    /\ UNCHANGED <<queue, waits, cpu, refused, late>>

\* Nothing to take: r waits.
Wait(r, s) ==
    /\ Runs(r) /\ s # r
    /\ \A i \in DOMAIN queue[r] : ~Oldest(r, s, i)
    /\ waits' = [waits EXCEPT ![r] = s]
    /\ UNCHANGED <<queue, inbox, pending, cpu, refused, late>>

\* The device interrupts: its driver is woken if it waits, or finds it later.
\* Unasked, it may do so while the running process hands the driver a message.
Interrupt ==
    /\ \/ /\ waits[HD] \in {ANY, INTERRUPT}
          /\ waits' = [waits EXCEPT ![HD] = NOBODY]
          /\ inbox' = [inbox EXCEPT ![HD] = IntMsg]
          /\ pending' = [pending EXCEPT ![HD] = FALSE]
          /\ late' \in {NOBODY} \cup IF Unasked THEN {cpu} ELSE {}
       \/ /\ waits[HD] # ANY
          /\ pending' = [pending EXCEPT ![HD] = TRUE]
          /\ UNCHANGED <<waits, inbox, late>>
    /\ UNCHANGED <<queue, cpu, refused>>

\* The handing over that the interrupt cut into ends.
Spoil == /\ late # NOBODY /\ late' = NOBODY
         /\ \/ \E t \in Types : \E m \in Mixed(late, t) : inbox' = [inbox EXCEPT ![HD] = m]
            \/ UNCHANGED inbox
         /\ UNCHANGED <<queue, waits, pending, cpu, refused>>

Switch == /\ ~refused /\ late = NOBODY
          /\ \E p \in Procs : Ready(p) /\ cpu' = p
          /\ UNCHANGED <<queue, waits, inbox, pending, refused, late>>

Next ==
    \/ \E p \in Procs : Begin(p) \/ TakeInterrupt(p)
    \/ \E p, d \in Procs : Refuse(p, d)
    \/ \E p, d \in Procs, t \in Types : Deliver(p, d, t) \/ Enqueue(p, d, t)
    \/ \E r \in Procs, s \in Procs \cup {ANY} : Take(r, s)
    \/ \E r \in Procs, s \in Procs \cup {ANY, INTERRUPT} : Wait(r, s)
    \/ Interrupt \/ Spoil
    \/ Switch

Spec == Init /\ [][Next]_vars
=============================================================================
