---------------------------- MODULE IpcInductive ----------------------------
(***************************************************************************)
(* The inductive invariant behind the properties of Ipc, in the parts the  *)
(* proofs of IpcProofs take one after the other.                           *)
(***************************************************************************)
EXTENDS Ipc

SendPcs    == {"deadlock", "match", "address", "copy", "clear", "wake", "enqueue",
               "tail"}
ReceivePcs == {"receive", "takeint", "tookint", "search", "take", "mark"}

\* The fields of a process agree with its flags.  Only the destination of a
\* copy that is about to be woken has lost its message address early.
Shape(p) ==
    /\ p_flags[p] \in {{}, {"SENDING"}, {"RECEIVING"}}
    /\ p_flags[p] = {} => p_msg[p] = 0 /\ p_recvfrom[p] = NO_TASK /\ p_sendto[p] = NO_TASK
    /\ p_flags[p] = {"SENDING"} => /\ p_msg[p] = 1 /\ p_recvfrom[p] = NO_TASK
                                   /\ p_sendto[p] \in Procs \ {p}
    /\ p_flags[p] = {"RECEIVING"} => /\ p_msg[p] = 1 \/ (pc = "wake" /\ p = peer)
                                     /\ p_recvfrom[p] # NO_TASK
                                     /\ p_sendto[p] = NO_TASK

\* The call in progress belongs to the running process and has arguments that
\* fit its kind; the caller is blocked only from the step that blocks it on.
CallOK ==
    /\ pc \notin {"user", "halt"} => caller \in Procs
    /\ pc \in SendPcs => op = "send" /\ peer \in Procs \ {caller}
    /\ pc \in ReceivePcs => op = "receive" /\ peer \in (Procs \cup {ANY, INTERRUPT}) \ {caller}
    /\ pc \in {"block", "exit"} =>
          \/ /\ op = "send" /\ peer \in Procs \ {caller}
             /\ p_flags[caller] = {"SENDING"} /\ p_sendto[caller] = peer
          \/ /\ op = "receive" /\ peer \in (Procs \cup {ANY, INTERRUPT}) \ {caller}
             /\ \/ p_flags[caller] = {"RECEIVING"}
                \/ caller = HD /\ p_flags[caller] = {}
    /\ pc \in (SendPcs \cup ReceivePcs) \ {"tail"} => p_flags[caller] = {}
    /\ pc = "tail" => p_flags[caller] = {"SENDING"} /\ p_sendto[caller] = peer
    /\ pc \notin {"user", "exit", "halt"} => caller = p_proc_ready
    /\ pc \in {"user", "exit"} => p_flags[p_proc_ready] = {}
    /\ pc \in {"deadlock", "tail"} => walk \in Procs
    /\ pc = "take" => peer # INTERRUPT
    /\ pc = "search" => peer \in Procs
    /\ pc \in {"address", "copy", "clear", "wake"} =>
          p_flags[peer] \in {{}, {"RECEIVING"}}
    /\ pc = "wake" => p_msg[peer] = 0
    /\ pc \in ReceivePcs /\ peer = INTERRUPT => caller = HD

Inv1 == TypeOK /\ CallOK /\ \A p \in Procs : Shape(p)

\* Where the loops over the list are.  V is what the search has passed.
SearchOK ==
    /\ peer \in Linked(caller)
    /\ walk \in Linked(caller) \cup {NULL}
    /\ \/ prev = NULL /\ walk = first_sending[caller]
       \/ prev \in Linked(caller) /\ walk = next_sending[prev]
    /\ \E V \in SUBSET Procs :
          /\ peer \notin V
          /\ first_sending[caller] \in V \cup {walk}
          /\ \A p \in V \cap Linked(caller) : next_sending[p] \in V \cup {walk}

TakeOK ==
    \/ peer = ANY /\ first_sending[caller] # NULL /\ prev = NULL
    \/ /\ peer \in Linked(caller)
       /\ \/ prev = NULL /\ first_sending[caller] = peer
          \/ prev \in Linked(caller) /\ next_sending[prev] = peer

Inv2 ==
    /\ QueueInv
    /\ pc = "tail" => walk \in Linked(peer)
    /\ pc \in {"receive", "takeint"} => prev = NULL
    /\ pc = "search" => SearchOK
    /\ pc = "take" => TakeOK

\* Nothing that sending leads to from peer can lead back to the caller.
ClosedUnderSending(S) == \A q \in S : Sending(q) => p_sendto[q] \in S
DeadlockWalk ==
    \E V \in SUBSET Procs :
        /\ caller \notin V \cup {walk} /\ peer \in V \cup {walk}
        /\ \A q \in V : p_sendto[q] \in V \cup {walk}
SafeToSend ==
    \E S \in SUBSET Procs : peer \in S /\ caller \notin S /\ ClosedUnderSending(S)

Inv3 ==
    /\ NoSendCycle
    /\ pc = "deadlock" => DeadlockWalk
    /\ pc \in {"match", "enqueue"} => SafeToSend

Inv4 ==
    /\ NoMissedRendezvous
    /\ pc = "enqueue" => ~Matches(peer, caller)
    /\ pc = "mark" => \A q \in Procs : Sending(q) /\ p_sendto[q] = caller
                                      => peer \notin {q, ANY}

\* The disk answers each command once, and the driver's next call is to wait
\* for the answer.
Inv5 ==
    /\ hd_busy => must_wait
    /\ must_wait /\ Receiving(HD) => p_recvfrom[HD] = NilPid
    /\ must_wait /\ caller = HD /\ pc \notin {"user", "halt"}
          => op = "receive" /\ peer = INTERRUPT
    /\ \A p \in Procs \ {HD} : has_int_msg[p] = 0
    /\ has_int_msg[HD] = 1 \/ (pc = "tookint" /\ caller = HD) => must_wait /\ ~hd_busy
    /\ must_wait /\ ~hd_busy => has_int_msg[HD] = 1 \/ (pc = "tookint" /\ caller = HD)
    /\ pc = "takeint" => has_int_msg[caller] = 1
    /\ pc = "tookint" => has_int_msg[caller] = 0 /\ caller = HD
    /\ pc \in {"block", "exit"} /\ op = "receive" => p_flags[caller] = {"RECEIVING"}
    /\ pc \in {"address", "copy", "clear", "wake"} => Matches(peer, caller)
    /\ pc \in {"address", "copy", "clear"} => p_msg[peer] = 1
    /\ pc \in {"clear", "wake"} => buf[peer] = buf[caller]

IInv == Inv1 /\ Inv2 /\ Inv3 /\ Inv4 /\ (~Spurious => Inv5) /\ AssertionsHold
=============================================================================
