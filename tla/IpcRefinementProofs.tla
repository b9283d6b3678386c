------------------------ MODULE IpcRefinementProofs ------------------------
(***************************************************************************)
(* Proof that Ipc implements Rendezvous, for every number of processes and *)
(* every choice of the constants, a disk that interrupts unasked included. *)
(* RInv says what the refinement mapping needs beyond IInv: each queue is  *)
(* one sequence of distinct processes along next_sending, buffers name     *)
(* their writers, and deadlock() walks where sending leads.  Induction     *)
(* over the list is over its length, by the least length that fails.       *)
(***************************************************************************)
EXTENDS IpcRefinement, IpcProofs, FiniteSetTheorems, NaturalsInduction

-----------------------------------------------------------------------------
(* What the mapping needs to hold                                          *)

\* The processes of s are linked one after the other from first_sending[d], and
\* are those of Linked(d).
Chain(s, d) ==
    /\ \A i, j \in 1 .. Len(s) : s[i] = s[j] => i = j
    /\ Linked(d) = {s[i] : i \in 1 .. Len(s)}
    /\ first_sending[d] = IF Len(s) = 0 THEN NULL ELSE s[1]
    /\ \A i \in 1 .. Len(s) : next_sending[s[i]] = IF i = Len(s) THEN NULL ELSE s[i + 1]
Chained == \A d \in Procs : \E s \in Seq(Procs) : Chain(s, d)

\* The message in p's buffer is one that p wrote.
Own(p) == buf[p].source = p
Sent(p) == Own(p) /\ buf[p].type \in Types

\* Who wrote the buffers that matter; nobody but the driver is woken while it
\* is being written to.
BuffersOK ==
    /\ \A p \in Procs : Sending(p) => Sent(p)
    /\ pc \in SendPcs => Sent(caller)
    /\ pc \in {"receive", "takeint", "search", "take", "mark"} => Own(caller)
    /\ pc \in {"address", "copy", "clear", "wake"} /\ Receiving(peer)
          => p_recvfrom[peer] \in {caller, ANY}
    /\ pc \in {"address", "copy"} /\ ~Receiving(peer) => peer = HD
    /\ pc \in {"clear", "wake"} /\ Receiving(peer) => buf[peer] = buf[caller]

\* A pending interrupt is the driver's, and it does not stay blocked on ANY with one.
PendingOK ==
    /\ \A p \in Procs \ {HD} : has_int_msg[p] = 0
    /\ pc = "takeint" => has_int_msg[caller] = 1
    /\ Receiving(HD) /\ p_recvfrom[HD] = ANY /\ has_int_msg[HD] = 1
          => pc = "halt" \/ (pc \in {"block", "exit"} /\ caller = HD /\ op = "receive")

\* deadlock() walks where sending leads, and the sender is linked when that is safe.
WalkOK ==
    /\ pc = "deadlock" => \A S \in SUBSET Procs : peer \in S /\ ClosedUnderSending(S) => walk \in S
    /\ pc = "tail" => SafeToSend

RInv == /\ Chained /\ BuffersOK /\ PendingOK /\ WalkOK
        /\ pc # "halt" => fault = "none"

-----------------------------------------------------------------------------
(* Lists and sequences                                                     *)

\* Every set of natural numbers that is not empty has a least element.
LEMMA LeastNat == ASSUME NEW T, T \subseteq Nat, T # {}
                  PROVE  \E x \in T : \A y \in T : x <= y
  <1> DEFINE R == OpToRel(<, Nat)
  <1>1. IsWellFoundedOn(R, Nat)
    BY NatLessThanWellFounded
  <1>2. \A x, y \in Nat : <<x, y>> \in R <=> x < y
    BY DEF OpToRel
  <1> HIDE DEF R
  <1>3. PICK x \in T : \A y \in T : ~(<<y, x>> \in R)
    BY <1>1, WFMin
  <1>4. \A y \in T : ~(y < x)
    BY <1>2, <1>3
  <1>5. \A y \in T : x <= y
    BY <1>4
  <1> QED
    BY <1>5

\* L is the function that ListFrom is of the buffers b and the pointers next.
Lists(L, b, next) ==
    L = [n \in 0 .. NProc |->
           [p \in Procs \cup {NULL} |->
              IF n = 0 \/ p = NULL THEN <<>> ELSE <<b[p]>> \o L[n - 1][next[p]]]]

\* There is one: it is built row by row.
LEMMA ListExists == ASSUME NEW b, NEW next PROVE \E L : Lists(L, b, next)
  <1> DEFINE P == Procs \cup {NULL}
             Row(X) == [p \in P |-> IF p = NULL THEN <<>> ELSE <<b[p]>> \o X[next[p]]]
             Zero == [p \in P |-> <<>>]
             Rec(L, m) == L = [n \in 0 .. m |-> IF n = 0 THEN Zero ELSE Row(L[n - 1])]
             Bad == {m \in Nat : ~ \E L : Rec(L, m)}
  <1>1. ASSUME NEW m \in Bad, \A y \in Bad : m <= y PROVE FALSE
    <2>1. m # 0
      <3>1. Rec([n \in 0 .. 0 |-> Zero], 0)
        <4> HIDE DEF Zero, Row
        <4> QED
          OBVIOUS
      <3> HIDE DEF Rec
      <3> QED
        BY <1>1, <3>1
    <2>2. m \in Nat /\ m - 1 \in Nat /\ m - 1 \notin Bad
      <3>1. m \in Nat
        BY <1>1
      <3> HIDE DEF Bad
      <3> QED
        BY <1>1, <2>1, <3>1
    <2>3. PICK L : Rec(L, m - 1)
      BY <2>2
    <2> DEFINE M == [n \in 0 .. m |-> IF n < m THEN L[n] ELSE Row(L[m - 1])]
    <2>4. Rec(M, m)
      <3> HIDE DEF Zero, Row
      <3>1. \A n \in 0 .. m - 1 : L[n] = IF n = 0 THEN Zero ELSE Row(L[n - 1])
        BY <2>2, <2>3
      <3>2. \A n \in 0 .. m - 1 : M[n] = L[n]
        BY <2>2
      <3>3. ASSUME NEW n \in 0 .. m
            PROVE  M[n] = IF n = 0 THEN Zero ELSE Row(M[n - 1])
        <4>1. CASE n < m
          <5>1. n \in 0 .. m - 1 /\ (n # 0 => n - 1 \in 0 .. m - 1)
            BY <2>2, <4>1
          <5> HIDE DEF M
          <5> QED
            BY <3>1, <3>2, <5>1
        <4>2. CASE n = m
          <5>1. M[n] = Row(L[m - 1])
            BY <2>2, <4>2
          <5>2. M[m - 1] = L[m - 1]
            BY <2>2, <3>2
          <5> HIDE DEF M
          <5> QED
            BY <2>1, <4>2, <5>1, <5>2
        <4> QED
          BY <2>2, <4>1, <4>2
      <3>4. M = [n \in 0 .. m |-> M[n]]
        OBVIOUS
      <3> HIDE DEF M
      <3> QED
        BY <3>3, <3>4
    <2> HIDE DEF Rec, M
    <2> QED
      BY <2>2, <2>4
  <1>2. Bad = {}
    <2> HIDE DEF Rec
    <2> SUFFICES ASSUME Bad # {} PROVE FALSE
      OBVIOUS
    <2>1. Bad \subseteq Nat
      OBVIOUS
    <2> HIDE DEF Bad
    <2> QED
      BY <1>1, <2>1, LeastNat
  <1>3. PICK L : Rec(L, NProc)
    <2> HIDE DEF Rec
    <2> QED
      BY <1>2, ProcAssumption
  <1>4. \A n \in 0 .. NProc :
           (IF n = 0 THEN Zero ELSE Row(L[n - 1]))
              = [p \in P |-> IF n = 0 \/ p = NULL THEN <<>> ELSE <<b[p]>> \o L[n - 1][next[p]]]
    OBVIOUS
  <1>5. Lists(L, b, next)
    <2> HIDE DEF Zero, Row
    <2> QED
      BY <1>3, <1>4 DEF Lists
  <1> QED
    BY <1>5

LEMMA ConsMap ==
    ASSUME NEW S, NEW x \in S, NEW m \in Nat, NEW g \in [1 .. m -> S]
    PROVE  <<x>> \o g = [i \in 1 .. m + 1 |-> IF i = 1 THEN x ELSE g[i - 1]]
  OBVIOUS

\* s runs along the pointers next from p to the end.
Along(s, next, p) ==
    /\ p = IF Len(s) = 0 THEN NULL ELSE s[1]
    /\ \A i \in 1 .. Len(s) : next[s[i]] = IF i = Len(s) THEN NULL ELSE s[i + 1]

\* What the processes of s have in the buffers b.
Said(s, b) == [i \in 1 .. Len(s) |-> b[s[i]]]

\* What the list that starts at p holds is what the processes along it wrote.
LEMMA ListIs ==
    ASSUME NEW b, NEW next \in [Procs -> Procs \cup {NULL}],
           NEW L, Lists(L, b, next), NEW p, NEW s \in Seq(Procs), Along(s, next, p), Len(s) <= NProc
    PROVE  L[NProc][p] = Said(s, b)
  <1> DEFINE S == {b[q] : q \in Procs}
             Fine(n) == \A q : \A t \in Seq(Procs) :
                           Along(t, next, q) /\ Len(t) <= n => L[n][q] = Said(t, b)
             Bad == {n \in 0 .. NProc : ~Fine(n)}
  <1>a. NProc \in Nat /\ NULL \notin Procs
    BY ProcAssumption
  <1>b. \A n \in 0 .. NProc, q \in Procs \cup {NULL} :
           L[n][q] = IF n = 0 \/ q = NULL THEN <<>> ELSE <<b[q]>> \o L[n - 1][next[q]]
    <2> DEFINE Row(n) == [r \in Procs \cup {NULL} |->
                            IF n = 0 \/ r = NULL THEN <<>> ELSE <<b[r]>> \o L[n - 1][next[r]]]
    <2>1. \A n \in 0 .. NProc, q \in Procs \cup {NULL} :
             Row(n)[q] = IF n = 0 \/ q = NULL THEN <<>> ELSE <<b[q]>> \o L[n - 1][next[q]]
      OBVIOUS
    <2>2. L = [n \in 0 .. NProc |-> Row(n)]
      BY DEF Lists
    <2> HIDE DEF Row
    <2>3. \A n \in 0 .. NProc : L[n] = Row(n)
      BY <2>2
    <2> QED
      BY <2>1, <2>3
  <1>1. ASSUME NEW n \in 0 .. NProc, n # 0 => Fine(n - 1), NEW q, NEW t \in Seq(Procs),
               Along(t, next, q), Len(t) <= n
        PROVE  L[n][q] = Said(t, b)
    <2>1. CASE Len(t) = 0
      <3>1. q = NULL
        BY <1>1, <2>1 DEF Along
      <3>2. L[n][q] = <<>>
        BY <1>b, <3>1
      <3>3. Said(t, b) = <<>>
        BY <2>1 DEF Said
      <3> QED
        BY <3>2, <3>3
    <2>2. CASE Len(t) # 0
      <3> DEFINE u == Tail(t)
                 k == Len(t) - 1
      <3>1. /\ Len(t) \in Nat /\ k \in Nat /\ q = t[1] /\ q \in Procs /\ n # 0
            /\ u \in Seq(Procs) /\ Len(u) = k
            /\ \A i \in 1 .. k : u[i] = t[i + 1]
        BY <1>1, <2>2 DEF Along
      <3>2. Along(u, next, next[q])
        <4>1. \A i \in 1 .. Len(t) : next[t[i]] = IF i = Len(t) THEN NULL ELSE t[i + 1]
          BY <1>1 DEF Along
        <4>2. Len(t) = k + 1
          BY <3>1
        <4> HIDE DEF u, k
        <4>3. next[t[1]] = IF k = 0 THEN NULL ELSE t[2]
          <5>1. 1 \in 1 .. Len(t) /\ (1 = Len(t) <=> k = 0)
            BY <3>1, <4>2
          <5>2. next[t[1]] = IF 1 = Len(t) THEN NULL ELSE t[1 + 1]
            BY <4>1, <5>1
          <5>3. 1 + 1 = 2
            OBVIOUS
          <5> QED
            BY <5>1, <5>2, <5>3
        <4>4. k # 0 => u[1] = t[2]
          <5>1. k # 0 => 1 \in 1 .. k
            BY <3>1
          <5> QED
            BY <3>1, <5>1
        <4>5. ASSUME NEW i \in 1 .. k
              PROVE  next[u[i]] = IF i = k THEN NULL ELSE u[i + 1]
          <5>1. /\ i \in Int /\ i + 1 \in 1 .. Len(t) /\ (i + 1 = Len(t) <=> i = k)
                /\ u[i] = t[i + 1]
                /\ i # k => i + 1 \in 1 .. k
            BY <3>1, <4>2
          <5>2. next[t[i + 1]] = IF i = k THEN NULL ELSE t[(i + 1) + 1]
            BY <4>1, <5>1
          <5>3. i # k => u[i + 1] = t[(i + 1) + 1]
            BY <3>1, <5>1
          <5> QED
            BY <5>1, <5>2, <5>3
        <4> QED
          BY <3>1, <4>3, <4>4, <4>5 DEF Along
      <3>3. L[n - 1][next[q]] = Said(u, b)
        <4>1. Len(u) <= n - 1
          BY <1>1, <3>1
        <4> HIDE DEF u, k
        <4> QED
          BY <1>1, <3>1, <3>2, <4>1
      <3>4. L[n][q] = <<b[q]>> \o Said(u, b)
        <4> HIDE DEF u, k
        <4>1. n # 0 /\ q # NULL /\ q \in Procs \cup {NULL}
          BY <1>a, <3>1
        <4>2. L[n][q] = <<b[q]>> \o L[n - 1][next[q]]
          BY <1>1, <1>b, <4>1
        <4> QED
          BY <3>3, <4>2
      <3>5. Said(u, b) \in [1 .. k -> S] /\ b[q] \in S
        <4> HIDE DEF u, k
        <4> QED
          BY <3>1 DEF Said
      <3>6. <<b[q]>> \o Said(u, b)
               = [i \in 1 .. k + 1 |-> IF i = 1 THEN b[q] ELSE Said(u, b)[i - 1]]
        <4> HIDE DEF u, k
        <4> QED
          BY <3>1, <3>5, ConsMap
      <3>7. \A i \in 1 .. k + 1 : (IF i = 1 THEN b[q] ELSE Said(u, b)[i - 1]) = b[t[i]]
        <4>1. \A i \in 1 .. k : Said(u, b)[i] = b[t[i + 1]]
          <5> HIDE DEF u, k
          <5> QED
            BY <3>1 DEF Said
        <4> HIDE DEF u, k
        <4>2. ASSUME NEW i \in 1 .. k + 1, i # 1 PROVE Said(u, b)[i - 1] = b[t[i]]
          <5>1. i - 1 \in 1 .. k /\ (i - 1) + 1 = i
            BY <3>1, <4>2
          <5> QED
            BY <4>1, <5>1
        <4> QED
          BY <3>1, <4>2
      <3>8. k + 1 = Len(t)
        BY <3>1
      <3>9. Said(t, b) = [i \in 1 .. k + 1 |-> b[t[i]]]
        BY <3>8 DEF Said
      <3> HIDE DEF u, k
      <3>10. [i \in 1 .. k + 1 |-> IF i = 1 THEN b[q] ELSE Said(u, b)[i - 1]]
                = [i \in 1 .. k + 1 |-> b[t[i]]]
        BY <3>7
      <3> QED
        BY <3>4, <3>6, <3>9, <3>10
    <2> QED
      BY <2>1, <2>2
  <1>2. Bad = {}
    <2> SUFFICES ASSUME Bad # {} PROVE FALSE
      OBVIOUS
    <2>1. Bad \subseteq Nat
      OBVIOUS
    <2>2. PICK n \in Bad : \A y \in Bad : n <= y
      <3> HIDE DEF Bad
      <3> QED
        BY <2>1, LeastNat
    <2> HIDE DEF Fine
    <2>3. n \in 0 .. NProc /\ ~Fine(n) /\ (n # 0 => n - 1 \in 0 .. NProc /\ n - 1 \notin Bad)
      BY <1>a, <2>2
    <2>4. n # 0 => Fine(n - 1)
      BY <2>3
    <2>5. \A q : \A t \in Seq(Procs) : Along(t, next, q) /\ Len(t) <= n => L[n][q] = Said(t, b)
      <3> HIDE DEF Bad
      <3> QED
        BY <1>1, <2>3, <2>4
    <2>6. Fine(n)
      BY <2>5 DEF Fine
    <2> QED
      BY <2>3, <2>6
  <1>3. Fine(NProc)
    <2> HIDE DEF Fine
    <2>1. NProc \in 0 .. NProc
      BY <1>a
    <2> QED
      BY <1>2, <2>1
  <1> QED
    BY <1>3

\* A sequence that names no process twice is not longer than there are processes.
LEMMA Pigeons ==
    ASSUME NEW s \in Seq(Procs), \A i, j \in 1 .. Len(s) : s[i] = s[j] => i = j
    PROVE  Len(s) <= NProc
  <1>1. NProc \in Nat /\ Len(s) \in Nat
    BY ProcAssumption
  <1>2. /\ IsFiniteSet(0 .. NProc - 1) /\ Cardinality(0 .. NProc - 1) = NProc
        /\ IsFiniteSet(1 .. Len(s)) /\ Cardinality(1 .. Len(s)) = Len(s)
    <2>1. /\ IsFiniteSet(0 .. NProc - 1)
          /\ Cardinality(0 .. NProc - 1) = IF 0 > NProc - 1 THEN 0 ELSE NProc - 1 - 0 + 1
      BY <1>1, FS_Interval
    <2>2. /\ IsFiniteSet(1 .. Len(s))
          /\ Cardinality(1 .. Len(s)) = IF 1 > Len(s) THEN 0 ELSE Len(s) - 1 + 1
      BY <1>1, FS_Interval
    <2> QED
      BY <1>1, <2>1, <2>2
  <1>3. SUFFICES ASSUME NProc < Len(s) PROVE FALSE
    BY <1>1
  <1>4. s \in [1 .. Len(s) -> 0 .. NProc - 1]
    <2>1. s \in [1 .. Len(s) -> Procs]
      OBVIOUS
    <2> QED
      BY <2>1 DEF Procs
  <1>5. \E x, y \in 1 .. Len(s) : x # y /\ s[x] = s[y]
    <2> DEFINE A == 1 .. Len(s)
               B == 0 .. NProc - 1
    <2>1. Cardinality(B) < Cardinality(A)
      BY <1>2, <1>3
    <2>2. IsFiniteSet(A) /\ IsFiniteSet(B) /\ s \in [A -> B]
      BY <1>2, <1>4
    <2> HIDE DEF A, B
    <2>3. \E x, y \in A : x # y /\ s[x] = s[y]
      BY <2>1, <2>2, FS_PigeonHole
    <2> QED
      BY <2>3 DEF A
  <1> QED
    BY <1>5

-----------------------------------------------------------------------------
(* What the abstract variables are                                         *)

LEMMA ListFromIs ==
    Lists(ListFrom, buf, next_sending) /\ Lists(ListFrom', buf', next_sending')
  <1>1. ListFrom = CHOOSE L : Lists(L, buf, next_sending)
    BY DEF ListFrom, Lists
  <1>2. ListFrom' = CHOOSE L : Lists(L, buf', next_sending')
    BY DEF ListFrom, Lists
  <1>3. /\ \E L : Lists(L, buf, next_sending)
        /\ \E L : Lists(L, buf', next_sending')
    BY ListExists
  <1> QED
    BY <1>1, <1>2, <1>3

\* The queue of d holds what the linked processes wrote, in their order.
LEMMA QueueIs ==
    ASSUME TypeOK, NEW d \in Procs, NEW s \in Seq(Procs), Chain(s, d)
    PROVE  Queue[d] = Said(s, buf)
  <1>1. Len(s) <= NProc
    BY Pigeons DEF Chain
  <1>2. Along(s, next_sending, first_sending[d])
    BY DEF Along, Chain
  <1>3. Queue[d] = ListFrom[NProc][first_sending[d]]
    BY DEF Queue
  <1>4. buf \in [Procs -> Messages] /\ next_sending \in [Procs -> Procs \cup {NULL}]
    BY DEF TypeOK
  <1>5. Lists(ListFrom, buf, next_sending)
    BY ListFromIs
  <1> DEFINE f == first_sending[d]
             L == ListFrom
  <1> HIDE DEF f, L
  <1>6. L[NProc][f] = Said(s, buf)
    BY <1>1, <1>2, <1>4, <1>5, ListIs DEF f, L
  <1> QED
    BY <1>3, <1>6 DEF f, L

LEMMA QueueWillBe ==
    ASSUME TypeOK', NEW d \in Procs, NEW s \in Seq(Procs), Chain(s, d)'
    PROVE  Queue'[d] = Said(s, buf')
  <1>1. Len(s) <= NProc
    BY Pigeons DEF Chain
  <1>2. Along(s, next_sending', first_sending'[d])
    BY DEF Along, Chain
  <1>3. Queue'[d] = ListFrom'[NProc][first_sending'[d]]
    BY DEF Queue
  <1>4. buf' \in [Procs -> Messages] /\ next_sending' \in [Procs -> Procs \cup {NULL}]
    BY DEF TypeOK, Messages
  <1> QED
    BY <1>1, <1>2, <1>3, <1>4, ListFromIs, ListIs

LEMMA ChainFrame ==
    ASSUME NEW d \in Procs, NEW s \in Seq(Procs), Chain(s, d),
           Linked(d)' = Linked(d), first_sending'[d] = first_sending[d],
           \A p \in Linked(d) : next_sending'[p] = next_sending[p]
    PROVE  Chain(s, d)'
  <1>1. \A i \in 1 .. Len(s) : s[i] \in Linked(d)
    BY DEF Chain
  <1> HIDE DEF Linked
  <1> QED
    BY <1>1 DEF Chain

\* One queue that a step leaves alone.
LEMMA QueueFrame1 ==
    ASSUME TypeOK, TypeOK', NEW d \in Procs, NEW s \in Seq(Procs), Chain(s, d),
           Linked(d)' = Linked(d), first_sending'[d] = first_sending[d],
           \A p \in Linked(d) : next_sending'[p] = next_sending[p] /\ buf'[p] = buf[p]
    PROVE  Chain(s, d)' /\ Queue'[d] = Queue[d]
  <1>1. Chain(s, d)'
    BY ChainFrame
  <1>2. \A i \in 1 .. Len(s) : s[i] \in Linked(d)
    BY DEF Chain
  <1>3. /\ Queue[d] = [i \in 1 .. Len(s) |-> buf[s[i]]]
        /\ Queue'[d] = [i \in 1 .. Len(s) |-> buf'[s[i]]]
    BY <1>1, QueueIs, QueueWillBe DEF Said
  <1>4. \A i \in 1 .. Len(s) : buf'[s[i]] = buf[s[i]]
    BY <1>2
  <1> QED
    BY <1>1, <1>3, <1>4

LEMMA QueueStays ==
    ASSUME TypeOK, TypeOK', Chained,
           \A d \in Procs : Linked(d)' = Linked(d) /\ first_sending'[d] = first_sending[d],
           \A d \in Procs : \A p \in Linked(d) : next_sending'[p] = next_sending[p]
                                                 /\ buf'[p] = buf[p]
    PROVE  Chained' /\ Queue' = Queue
  <1>1. ASSUME NEW d \in Procs PROVE (\E s \in Seq(Procs) : Chain(s, d)') /\ Queue'[d] = Queue[d]
    <2>1. PICK s \in Seq(Procs) : Chain(s, d)
      BY DEF Chained
    <2> QED
      BY <2>1, QueueFrame1
  <1>2. Queue = [d \in Procs |-> Queue[d]] /\ Queue' = [d \in Procs |-> Queue'[d]]
    BY DEF Queue
  <1>3. Chained'
    BY <1>1 DEF Chained
  <1> QED
    BY <1>1, <1>2, <1>3

\* Those in the queue of d are those linked to it.
LEMMA SendersAre ==
    ASSUME TypeOK, Chained, BuffersOK, NEW d \in Procs
    PROVE  Abstract!Senders(d) = Linked(d)
  <1>1. PICK s \in Seq(Procs) : Chain(s, d)
    BY DEF Chained
  <1>2. Queue[d] = [i \in 1 .. Len(s) |-> buf[s[i]]]
    BY <1>1, QueueIs DEF Said
  <1>3. \A i \in 1 .. Len(s) : s[i] \in Procs /\ s[i] \in Linked(d)
    BY <1>1 DEF Chain
  <1>4. \A i \in 1 .. Len(s) : buf[s[i]].source = s[i]
    BY <1>3 DEF BuffersOK, Sent, Own, Linked
  <1>5. DOMAIN Queue[d] = 1 .. Len(s) /\ \A i \in 1 .. Len(s) : Queue[d][i].source = s[i]
    BY <1>2, <1>4
  <1>6. Abstract!Senders(d) = {Queue[d][i].source : i \in DOMAIN Queue[d]}
    BY DEF Abstract!Senders
  <1>7. Linked(d) = {s[i] : i \in 1 .. Len(s)}
    BY <1>1 DEF Chain
  <1> QED
    BY <1>5, <1>6, <1>7

LEMMA WaitsAre ==
    /\ Waits = [p \in Procs |-> IF ~Receiving(p) THEN NOBODY
                               ELSE IF p_recvfrom[p] = NilPid THEN INTERRUPT ELSE p_recvfrom[p]]
    /\ Waits' = [p \in Procs |-> IF ~Receiving(p)' THEN NOBODY
                                ELSE IF p_recvfrom'[p] = NilPid THEN INTERRUPT
                                ELSE p_recvfrom'[p]]
  BY DEF Waits, Receiving

\* A process that is not blocked is in no queue and waits for nobody.
LEMMA ReadyIs ==
    ASSUME TypeOK, Chained, BuffersOK, NEW p \in Procs, ~Receiving(p),
           \A d \in Procs : p \notin Linked(d)
    PROVE  Abstract!Ready(p)
  <1>1. Waits[p] = NOBODY
    BY WaitsAre
  <1>2. \A d \in Procs : ~Abstract!SendsTo(p, d)
    BY SendersAre DEF Abstract!SendsTo
  <1> QED
    BY <1>1, <1>2 DEF Abstract!Ready

LEMMA RunsIs ==
    ASSUME TypeOK, Chained, BuffersOK, NEW p \in Procs, p_proc_ready = p, ~Receiving(p),
           \A d \in Procs : p \notin Linked(d), fault = "none", pc \notin {"address", "copy"}
    PROVE  Abstract!Runs(p)
  BY ReadyIs DEF Abstract!Runs, Late

-----------------------------------------------------------------------------
(* The parts of the invariant that no queue enters                         *)

LEMMA BuffersStep == Inv1 /\ BuffersOK /\ [Next]_vars => BuffersOK'
  <1> SUFFICES ASSUME Inv1, BuffersOK, [Next]_vars PROVE BuffersOK'
    OBVIOUS
  <1> USE Pids DEF BuffersOK, Sent, Own, Sending, Receiving, Inv1, TypeOK, CallOK, Shape,
                   SendPcs, ReceivePcs, procVars, listVars, callVars
  <1>1. ASSUME NEW d \in Procs, NEW t \in Types, SysSend(d, t) PROVE BuffersOK'
    BY <1>1 DEF SysSend, MayCall
  <1>2. ASSUME NEW x \in Procs \cup {ANY, INTERRUPT}, SysReceive(x) PROVE BuffersOK'
    BY <1>2 DEF SysReceive, MayCall
  <1>3. CASE HdCmdOut
    BY <1>3 DEF HdCmdOut
  <1>4. CASE Preempt
    BY <1>4 DEF Preempt, Runnable
  <1>5. CASE TaskPanic
    BY <1>5 DEF TaskPanic, Fail
  <1>6. CASE DeadlockStep
    BY <1>6 DEF DeadlockStep, WalkEnds, ReachesCaller, Fail
  <1>7. CASE SendMatch
    BY <1>7 DEF SendMatch, Matches
  <1>7a. CASE SendAddress
    BY <1>7a DEF SendAddress
  <1>8. CASE SendCopy
    BY <1>8 DEF SendCopy, Copied
  <1>9. CASE SendClear
    BY <1>9 DEF SendClear
  <1>10. CASE SendWake
    BY <1>10 DEF SendWake, Idle, Return, Leave, Fail
  <1>11. CASE SendEnqueue
    BY <1>11 DEF SendEnqueue, Fail
  <1>12. CASE SendTail
    BY <1>12 DEF SendTail, TailFound
  <1>13. CASE ReceiveCheck
    BY <1>13 DEF ReceiveCheck, TakesInterrupt, SenderWaits
  <1>14. CASE ReceiveFromZero
    BY <1>14 DEF ReceiveFromZero, Fail
  <1>15. CASE ReceiveInt
    BY <1>15 DEF ReceiveInt, IntMsg
  <1>16. CASE ReceiveIntDone
    BY <1>16 DEF ReceiveIntDone, Idle, Return, Leave, Fail
  <1>17. CASE ReceiveSearch
    BY <1>17 DEF ReceiveSearch, Fail
  <1>18. CASE ReceiveTake
    BY <1>18 DEF ReceiveTake, TakeAsserts, From, WithoutFrom, Idle, Return, Leave, Fail
  <1>19. CASE ReceiveMark
    BY <1>19 DEF ReceiveMark
  <1>20. CASE Block
    BY <1>20 DEF Block, Runnable, Fail
  <1>21. CASE BlockExit
    BY <1>21 DEF BlockExit, ExitAsserts, SentAsserts, WaitAsserts, Leave, Fail
  <1>22. CASE HdInterrupt
    BY <1>22 DEF HdInterrupt, NoteInterrupt, IntMsg
  <1>23. CASE UNCHANGED vars
    BY <1>23 DEF vars
  <1> QED
    BY <1>1, <1>2, <1>3, <1>4, <1>5, <1>6, <1>7, <1>7a, <1>8, <1>9, <1>10, <1>11, <1>12, <1>13,
       <1>14, <1>15, <1>16, <1>17, <1>18, <1>19, <1>20, <1>21, <1>22, <1>23
       DEF Next, User, Kernel, Halted

LEMMA PendingStep == Inv1 /\ PendingOK /\ [Next]_vars => PendingOK'
  <1> SUFFICES ASSUME Inv1, PendingOK, [Next]_vars PROVE PendingOK'
    OBVIOUS
  <1> USE Pids DEF PendingOK, Receiving, Inv1, TypeOK, CallOK, Shape, SendPcs, ReceivePcs,
                   procVars, listVars, callVars
  <1>1. ASSUME NEW d \in Procs, NEW t \in Types, SysSend(d, t) PROVE PendingOK'
    BY <1>1 DEF SysSend, MayCall
  <1>2. ASSUME NEW x \in Procs \cup {ANY, INTERRUPT}, SysReceive(x) PROVE PendingOK'
    BY <1>2 DEF SysReceive, MayCall
  <1>3. CASE HdCmdOut
    BY <1>3 DEF HdCmdOut
  <1>4. CASE Preempt
    BY <1>4 DEF Preempt, Runnable
  <1>5. CASE TaskPanic
    BY <1>5 DEF TaskPanic, Fail
  <1>6. CASE DeadlockStep
    BY <1>6 DEF DeadlockStep, WalkEnds, ReachesCaller, Fail
  <1>7. CASE SendMatch
    BY <1>7 DEF SendMatch, Matches
  <1>7a. CASE SendAddress
    BY <1>7a DEF SendAddress
  <1>8. CASE SendCopy
    BY <1>8 DEF SendCopy, Copied
  <1>9. CASE SendClear
    BY <1>9 DEF SendClear
  <1>10. CASE SendWake
    BY <1>10 DEF SendWake, Idle, Return, Leave, Fail
  <1>11. CASE SendEnqueue
    BY <1>11 DEF SendEnqueue, Fail
  <1>12. CASE SendTail
    BY <1>12 DEF SendTail, TailFound
  <1>13. CASE ReceiveCheck
    BY <1>13 DEF ReceiveCheck, TakesInterrupt, SenderWaits
  <1>14. CASE ReceiveFromZero
    BY <1>14 DEF ReceiveFromZero, Fail
  <1>15. CASE ReceiveInt
    BY <1>15 DEF ReceiveInt, IntMsg
  <1>16. CASE ReceiveIntDone
    BY <1>16 DEF ReceiveIntDone, Idle, Return, Leave, Fail
  <1>17. CASE ReceiveSearch
    BY <1>17 DEF ReceiveSearch, Fail
  <1>18. CASE ReceiveTake
    BY <1>18 DEF ReceiveTake, TakeAsserts, From, WithoutFrom, Idle, Return, Leave, Fail
  <1>19. CASE ReceiveMark
    BY <1>19 DEF ReceiveMark
  <1>20. CASE Block
    BY <1>20 DEF Block, Runnable, Fail
  <1>21. CASE BlockExit
    BY <1>21 DEF BlockExit, ExitAsserts, SentAsserts, WaitAsserts, Leave, Fail
  <1>22. CASE HdInterrupt
    BY <1>22 DEF HdInterrupt, NoteInterrupt, IntMsg
  <1>23. CASE UNCHANGED vars
    BY <1>23 DEF vars
  <1> QED
    BY <1>1, <1>2, <1>3, <1>4, <1>5, <1>6, <1>7, <1>7a, <1>8, <1>9, <1>10, <1>11, <1>12, <1>13,
       <1>14, <1>15, <1>16, <1>17, <1>18, <1>19, <1>20, <1>21, <1>22, <1>23
       DEF Next, User, Kernel, Halted

LEMMA WalkStep == Inv1 /\ Inv3 /\ WalkOK /\ [Next]_vars => WalkOK'
  <1> SUFFICES ASSUME Inv1, Inv3, WalkOK, [Next]_vars PROVE WalkOK'
    OBVIOUS
  <1> USE Pids DEF procVars, listVars, callVars
  <1>1. CASE pc' \notin {"deadlock", "tail"}
    BY <1>1 DEF WalkOK
  <1>2. ASSUME UNCHANGED <<pc, caller, peer, walk, p_sendto>>,
               \A p \in Procs : Sending(p)' = Sending(p)
        PROVE  WalkOK'
    <2>1. \A S \in SUBSET Procs : ClosedUnderSending(S)' = ClosedUnderSending(S)
      BY <1>2 DEF ClosedUnderSending
    <2> QED
      BY <1>2, <2>1 DEF WalkOK, SafeToSend
  <1>3. ASSUME NEW d \in Procs, NEW t \in Types, SysSend(d, t) PROVE WalkOK'
    BY <1>3 DEF SysSend, WalkOK
  <1>4. CASE DeadlockStep /\ pc' = "deadlock"
    <2>1. /\ Sending(walk) /\ walk' = p_sendto[walk] /\ pc = "deadlock"
          /\ UNCHANGED <<peer, p_sendto, p_flags>>
      BY <1>4 DEF DeadlockStep, WalkEnds, Fail
    <2>2. \A S \in SUBSET Procs : ClosedUnderSending(S)' = ClosedUnderSending(S)
      BY <2>1 DEF ClosedUnderSending, Sending
    <2>3. \A S \in SUBSET Procs : peer \in S /\ ClosedUnderSending(S) => p_sendto[walk] \in S
      BY <2>1 DEF WalkOK, ClosedUnderSending
    <2> QED
      BY <1>4, <2>1, <2>2, <2>3 DEF WalkOK
  <1>5. CASE SendEnqueue /\ pc' = "tail"
    <2>1. /\ pc = "enqueue" /\ caller \in Procs /\ UNCHANGED <<caller, peer>>
          /\ p_flags' = [p_flags EXCEPT ![caller] = {"SENDING"}]
          /\ p_sendto' = [p_sendto EXCEPT ![caller] = peer]
      BY <1>5 DEF SendEnqueue, Fail, Inv1, CallOK
    <2>2. PICK S \in SUBSET Procs : peer \in S /\ caller \notin S /\ ClosedUnderSending(S)
      BY <2>1 DEF Inv3, SafeToSend
    <2>3. ClosedUnderSending(S)'
      BY <2>1, <2>2 DEF ClosedUnderSending, Sending, Inv1, TypeOK
    <2> QED
      BY <1>5, <2>1, <2>2, <2>3 DEF WalkOK, SafeToSend
  <1>6. CASE SendTail /\ pc' = "tail"
    <2>1. pc = "tail" /\ UNCHANGED <<caller, peer, p_sendto, p_flags>>
      BY <1>6 DEF SendTail
    <2>2. \A S \in SUBSET Procs : ClosedUnderSending(S)' = ClosedUnderSending(S)
      BY <2>1 DEF ClosedUnderSending, Sending
    <2> QED
      BY <1>6, <2>1, <2>2 DEF WalkOK, SafeToSend
  <1>7. CASE HdInterrupt
    <2>1. UNCHANGED <<caller, peer, walk, p_sendto>> /\ pc' \in {pc, "halt"}
      BY <1>7 DEF HdInterrupt
    <2>2. \A p \in Procs : Sending(p)' = Sending(p)
      BY <1>7 DEF HdInterrupt, NoteInterrupt, Sending, Inv1, TypeOK
    <2> QED
      BY <1>1, <1>2, <2>1, <2>2
  <1>8. CASE UNCHANGED vars
    BY <1>2, <1>8 DEF vars, Sending
  <1>9. ASSUME pc' \in {"deadlock", "tail"}
        PROVE  \/ \E d \in Procs, t \in Types : SysSend(d, t)
               \/ DeadlockStep \/ SendEnqueue \/ SendTail \/ HdInterrupt \/ UNCHANGED vars
               \/ HdCmdOut \/ Preempt
    BY <1>9 DEF Next, User, Kernel, Halted, SysReceive, TaskPanic, SendMatch, SendAddress,
                SendCopy, SendClear, SendWake, ReceiveCheck, ReceiveFromZero, ReceiveInt, ReceiveIntDone, ReceiveSearch,
                ReceiveTake, ReceiveMark, Block, BlockExit, Return, Leave, Fail
  <1>10. CASE HdCmdOut \/ Preempt
    BY <1>1, <1>10 DEF HdCmdOut, Preempt
  <1>11. /\ DeadlockStep => pc' # "tail"
         /\ SendEnqueue \/ SendTail => pc' # "deadlock"
    BY DEF DeadlockStep, SendEnqueue, SendTail, Fail
  <1> QED
    BY <1>1, <1>3, <1>4, <1>5, <1>6, <1>7, <1>8, <1>9, <1>10, <1>11

LEMMA FaultStep ==
    ASSUME Inv1, pc # "halt" => fault = "none", [Next]_vars
    PROVE  /\ pc' # "halt" => fault' = "none"
           /\ fault' # fault => pc # "halt" /\ pc' = "halt"
  <1> USE DEF Fail, Return, Leave
  <1>1. CASE HdInterrupt
    BY <1>1 DEF HdInterrupt
  <1>2. CASE UNCHANGED vars
    BY <1>2 DEF vars
  <1>3. CASE User \/ Preempt
    BY <1>3 DEF User, SysSend, SysReceive, HdCmdOut, TaskPanic, MayCall, Preempt
  <1>4. CASE Kernel
    BY <1>4 DEF Kernel, DeadlockStep, SendMatch, SendAddress, SendCopy, SendClear,
                SendWake, SendEnqueue, SendTail, ReceiveCheck, ReceiveFromZero, ReceiveInt, ReceiveIntDone, ReceiveSearch,
                ReceiveTake, ReceiveMark, Block, BlockExit
  <1> QED
    BY <1>1, <1>2, <1>3, <1>4 DEF Next, Halted

-----------------------------------------------------------------------------
(* What the steps do to the queues                                         *)

\* The steps that link or unlink a sender.
Moves == \/ SendEnqueue /\ pc' = "block"
         \/ SendTail /\ pc' = "block"
         \/ ReceiveTake /\ pc' = "user"

LEMMA LinkedStays ==
    ASSUME UNCHANGED <<p_sendto, listVars>>, \A p \in Procs : Sending(p)' = Sending(p),
           (pc' = "tail") = (pc = "tail"), pc = "tail" => caller' = caller,
           \A p \in Procs : Sending(p) => buf'[p] = buf[p]
    PROVE  /\ \A d \in Procs : Linked(d)' = Linked(d) /\ first_sending'[d] = first_sending[d]
           /\ \A d \in Procs : \A p \in Linked(d) : next_sending'[p] = next_sending[p]
                                                    /\ buf'[p] = buf[p]
  BY DEF Linked, listVars

\* No other step changes a queue.
LEMMA QueueQuiet ==
    ASSUME Inv1, TypeOK', Chained, [Next]_vars, ~Moves
    PROVE  Chained' /\ Queue' = Queue
  <1> DEFINE Same == /\ \A d \in Procs : /\ Linked(d)' = Linked(d)
                                         /\ first_sending'[d] = first_sending[d]
                     /\ \A d \in Procs : \A p \in Linked(d) : /\ next_sending'[p] = next_sending[p]
                                                              /\ buf'[p] = buf[p]
  <1> HIDE DEF Same
  <1>0. SUFFICES Same
    <2>1. TypeOK
      BY DEF Inv1
    <2> QED
      BY <2>1, QueueStays DEF Same
  <1>l. ASSUME UNCHANGED <<p_sendto, listVars>>, \A p \in Procs : Sending(p)' = Sending(p),
               (pc' = "tail") = (pc = "tail"), pc = "tail" => caller' = caller,
               \A p \in Procs : Sending(p) => buf'[p] = buf[p]
        PROVE  Same
    BY <1>l, LinkedStays DEF Same
  <1> USE Pids DEF Inv1, TypeOK, CallOK, Shape, SendPcs, ReceivePcs, Sending, Receiving,
                   procVars,
                   callVars
  <1>1. ASSUME NEW d \in Procs, NEW t \in Types, SysSend(d, t) PROVE Same
    BY <1>l, <1>1 DEF SysSend, MayCall
  <1>2. ASSUME NEW x \in Procs \cup {ANY, INTERRUPT}, SysReceive(x) PROVE Same
    BY <1>l, <1>2 DEF SysReceive, MayCall
  <1>3. CASE HdCmdOut
    BY <1>l, <1>3 DEF HdCmdOut
  <1>4. CASE Preempt
    BY <1>l, <1>4 DEF Preempt, Runnable
  <1>5. CASE TaskPanic
    BY <1>l, <1>5 DEF TaskPanic, Fail
  <1>6. CASE DeadlockStep
    BY <1>l, <1>6 DEF DeadlockStep, WalkEnds, ReachesCaller, Fail
  <1>7. CASE SendMatch
    BY <1>l, <1>7 DEF SendMatch, Matches
  <1>7a. CASE SendAddress
    BY <1>l, <1>7a DEF SendAddress
  <1>8. CASE SendCopy
    BY <1>l, <1>8 DEF SendCopy
  <1>9. CASE SendClear
    BY <1>l, <1>9 DEF SendClear
  <1>10. CASE SendWake
    BY <1>l, <1>10 DEF SendWake, Idle, Return, Leave, Fail
  <1>11. CASE ReceiveCheck
    BY <1>l, <1>11 DEF ReceiveCheck, TakesInterrupt, SenderWaits
  <1>12. CASE ReceiveFromZero
    BY <1>l, <1>12 DEF ReceiveFromZero, Fail
  <1>13. CASE ReceiveInt
    BY <1>l, <1>13 DEF ReceiveInt, IntMsg
  <1>14. CASE ReceiveIntDone
    BY <1>l, <1>14 DEF ReceiveIntDone, Idle, Return, Leave, Fail
  <1>15. CASE ReceiveSearch
    BY <1>l, <1>15 DEF ReceiveSearch, Fail
  <1>16. CASE ReceiveMark
    BY <1>l, <1>16 DEF ReceiveMark
  <1>17. CASE Block
    BY <1>l, <1>17 DEF Block, Runnable, Fail
  <1>18. CASE BlockExit
    BY <1>l, <1>18 DEF BlockExit, ExitAsserts, SentAsserts, WaitAsserts, Leave, Fail
  <1>19. CASE HdInterrupt
    BY <1>l, <1>19 DEF HdInterrupt, NoteInterrupt, IntMsg
  <1>20. CASE UNCHANGED vars
    BY <1>l, <1>20 DEF vars
  <1>21. CASE SendEnqueue /\ pc' # "block"
    <2>1. CASE Fail("enqueue")
      BY <1>l, <1>21, <2>1 DEF Fail, SendEnqueue
    <2>2. CASE ~Fail("enqueue")
      <3>1. /\ pc = "enqueue" /\ pc' = "tail" /\ caller' = caller /\ caller \in Procs
            /\ UNCHANGED <<listVars, buf>> /\ p_flags[caller] = {}
            /\ p_flags' = [p_flags EXCEPT ![caller] = {"SENDING"}]
            /\ p_sendto' = [p_sendto EXCEPT ![caller] = peer]
        BY <1>21, <2>2 DEF SendEnqueue
      <3>2. \A d \in Procs : Linked(d)' = Linked(d)
        BY <3>1 DEF Linked
      <3> QED
        BY <3>1, <3>2 DEF Same, listVars
    <2> QED
      BY <2>1, <2>2
  <1>22. CASE SendTail /\ pc' # "block"
    BY <1>l, <1>22 DEF SendTail, TailFound, listVars
  <1>23. CASE ReceiveTake /\ pc' # "user"
    <2>1. Fail("take")
      BY <1>23 DEF ReceiveTake, Return, Leave
    <2> QED
      BY <1>l, <1>23, <2>1 DEF Fail, ReceiveTake
  <1> QED
    BY <1>1, <1>2, <1>3, <1>4, <1>5, <1>6, <1>7, <1>7a, <1>8, <1>9, <1>10, <1>11, <1>12,
       <1>13, <1>14, <1>15, <1>16, <1>17, <1>18, <1>19, <1>20, <1>21, <1>22, <1>23
       DEF Next, User, Kernel, Halted, Moves

\* The sequences the proofs build, element by element.
LEMMA AppendMap ==
    ASSUME NEW S, NEW x \in S, NEW m \in Nat, NEW g \in [1 .. m -> S]
    PROVE  Append(g, x) = [i \in 1 .. m + 1 |-> IF i = m + 1 THEN x ELSE g[i]]
  <1>1. g \in Seq(S) /\ Len(g) = m
    OBVIOUS
  <1>2. /\ Append(g, x) \in Seq(S) /\ Len(Append(g, x)) = m + 1
        /\ \A i \in 1 .. m + 1 : Append(g, x)[i] = IF i = m + 1 THEN x ELSE g[i]
    BY <1>1
  <1> DEFINE h == Append(g, x)
  <1> HIDE DEF h
  <1>3. h \in Seq(S) /\ Len(h) = m + 1
    BY <1>2 DEF h
  <1>4. h = [i \in 1 .. m + 1 |-> h[i]]
    BY <1>3
  <1> QED
    BY <1>2, <1>4 DEF h

LEMMA Joined ==
    ASSUME NEW S, NEW a \in Seq(S), NEW b \in Seq(S)
    PROVE  /\ a \o b \in Seq(S) /\ Len(a \o b) = Len(a) + Len(b)
           /\ \A j \in 1 .. Len(a) : (a \o b)[j] = a[j]
           /\ \A j \in 1 .. Len(b) : (a \o b)[Len(a) + j] = b[j]
  OBVIOUS

LEMMA Spelled == ASSUME NEW S, NEW q \in Seq(S) PROVE q = [j \in 1 .. Len(q) |-> q[j]]
  OBVIOUS
\* c links itself behind the processes of s.
LEMMA Linking ==
    ASSUME TypeOK, TypeOK', NEW d \in Procs, NEW s \in Seq(Procs), Chain(s, d),
           NEW c \in Procs \ Linked(d), Linked(d)' = Linked(d) \cup {c}, buf' = buf,
           next_sending'[c] = NULL,
           IF Len(s) = 0 THEN first_sending'[d] = c
           ELSE /\ first_sending'[d] = first_sending[d] /\ next_sending'[s[Len(s)]] = c
                /\ \A p \in Linked(d) \ {s[Len(s)]} : next_sending'[p] = next_sending[p]
    PROVE  /\ Chain(Append(s, c), d)'
           /\ Queue'[d] = Append(Queue[d], buf[c])
  <1> DEFINE t == Append(s, c)
             n == Len(s)
  <1>1. /\ t \in Seq(Procs) /\ n \in Nat /\ Len(t) = n + 1 /\ t[n + 1] = c
        /\ \A i \in 1 .. n : t[i] = s[i]
    OBVIOUS
  <1>2. /\ \A i \in 1 .. n : s[i] \in Linked(d)
        /\ \A p \in Linked(d) : \E i \in 1 .. n : s[i] = p
        /\ \A i, j \in 1 .. n : s[i] = s[j] => i = j
        /\ first_sending[d] = IF n = 0 THEN NULL ELSE s[1]
        /\ \A i \in 1 .. n : next_sending[s[i]] = IF i = n THEN NULL ELSE s[i + 1]
    BY DEF Chain
  <1> HIDE DEF Linked, t, n
  <1>3. \A i \in 1 .. n + 1 : i \in 1 .. n \/ i = n + 1
    BY <1>1
  <1>4. \A i, j \in 1 .. n + 1 : t[i] = t[j] => i = j
    BY <1>1, <1>2, <1>3
  <1>5. Linked(d)' = {t[i] : i \in 1 .. n + 1}
    <2>1. \A p \in Linked(d)' : \E i \in 1 .. n + 1 : t[i] = p
      <3>1. ASSUME NEW p \in Linked(d) PROVE \E i \in 1 .. n + 1 : t[i] = p
        <4>1. PICK i \in 1 .. n : s[i] = p
          BY <1>2
        <4>2. i \in 1 .. n + 1 /\ t[i] = p
          BY <1>1, <4>1
        <4> QED
          BY <4>2
      <3>2. n + 1 \in 1 .. n + 1
        BY <1>1
      <3> QED
        BY <1>1, <3>1, <3>2
    <2>2. \A i \in 1 .. n + 1 : t[i] \in Linked(d)'
      BY <1>1, <1>2, <1>3
    <2> QED
      BY <2>1, <2>2
  <1>6. first_sending'[d] = t[1]
    <2>1. CASE n = 0
      BY <1>1, <2>1 DEF n
    <2>2. CASE n # 0
      <3>1. 1 \in 1 .. n
        BY <1>1, <2>2
      <3> QED
        BY <1>1, <1>2, <2>2, <3>1 DEF n
    <2> QED
      BY <2>1, <2>2
  <1>7. ASSUME NEW i \in 1 .. n + 1
        PROVE  next_sending'[t[i]] = IF i = n + 1 THEN NULL ELSE t[i + 1]
    <2>1. CASE i = n + 1
      BY <1>1, <2>1
    <2>2. CASE i = n
      <3>1. i \in 1 .. n /\ n # 0 /\ i # n + 1 /\ t[i] = s[n]
        BY <1>1, <2>2
      <3> QED
        BY <1>1, <2>2, <3>1 DEF n
    <2>3. CASE i < n
      <3>1. i \in 1 .. n /\ n \in 1 .. n /\ i + 1 \in 1 .. n /\ n # 0 /\ i # n /\ i # n + 1
        BY <1>1, <2>3
      <3>2. s[i] \in Linked(d) \ {s[n]}
        BY <1>2, <3>1
      <3>3. next_sending'[s[i]] = s[i + 1]
        BY <1>2, <3>1, <3>2 DEF n
      <3> QED
        BY <1>1, <3>1, <3>3
    <2> QED
      BY <1>1, <2>1, <2>2, <2>3
  <1>8. Chain(t, d)'
    <2>1. n + 1 # 0 /\ Len(t) = n + 1
      BY <1>1
    <2> QED
      BY <1>4, <1>5, <1>6, <1>7, <2>1 DEF Chain
  <1>9. Queue[d] = Said(s, buf) /\ Queue'[d] = Said(t, buf)
    <2>1. Queue'[d] = Said(t, buf')
      BY <1>1, <1>8, QueueWillBe
    <2> QED
      BY <2>1, QueueIs
  <1>10. Said(t, buf) = Append(Said(s, buf), buf[c])
    <2> DEFINE g == Said(s, buf)
               S == {buf[p] : p \in Procs}
               x == buf[c]
    <2>1. g \in [1 .. n -> S]
      BY DEF Said, n
    <2>2. \A i \in 1 .. n : g[i] = buf[s[i]]
      BY DEF Said, n
    <2>3. x \in S
      OBVIOUS
    <2> HIDE DEF g, S, x
    <2>4. Append(g, x) = [i \in 1 .. n + 1 |-> IF i = n + 1 THEN x ELSE g[i]]
      BY <1>1, <2>1, <2>3, AppendMap
    <2>5. Said(t, buf) = [i \in 1 .. n + 1 |-> buf[t[i]]]
      BY <1>1 DEF Said
    <2>6. \A i \in 1 .. n + 1 : buf[t[i]] = IF i = n + 1 THEN x ELSE g[i]
      BY <1>1, <1>3, <2>2 DEF x
    <2> QED
      BY <2>4, <2>5, <2>6 DEF g, x
  <1> QED
    BY <1>8, <1>9, <1>10 DEF t

\* q without its i-th element.
Without(q, i) == [j \in 1 .. Len(q) - 1 |-> IF j < i THEN q[j] ELSE q[j + 1]]

LEMMA WithoutIs ==
    ASSUME NEW S, NEW q \in Seq(S), NEW i \in 1 .. Len(q)
    PROVE  /\ Without(q, i) = SubSeq(q, 1, i - 1) \o SubSeq(q, i + 1, Len(q))
           /\ Without(q, i) \in Seq(S) /\ Len(Without(q, i)) = Len(q) - 1
  <1> DEFINE n == Len(q)
             a == SubSeq(q, 1, i - 1)
             b == SubSeq(q, i + 1, Len(q))
  <1>1. n \in Nat /\ n > 0 /\ i \in Int /\ 1 <= i /\ i <= n
    OBVIOUS
  <1>2. a \in Seq(S) /\ Len(a) = i - 1 /\ \A j \in 1 .. i - 1 : a[j] = q[j]
    OBVIOUS
  <1>3. b \in Seq(S) /\ Len(b) = n - i /\ \A j \in 1 .. n - i : b[j] = q[i + j]
    OBVIOUS
  <1> HIDE DEF a, b
  <1>4. a \o b = [j \in 1 .. n - 1 |-> IF j < i THEN q[j] ELSE q[j + 1]]
    <2>1. /\ a \o b \in Seq(S) /\ Len(a \o b) = n - 1
          /\ \A j \in 1 .. i - 1 : (a \o b)[j] = a[j]
          /\ \A j \in 1 .. n - i : (a \o b)[i - 1 + j] = b[j]
      <3>1. /\ a \o b \in Seq(S) /\ Len(a \o b) = Len(a) + Len(b)
            /\ \A j \in 1 .. Len(a) : (a \o b)[j] = a[j]
            /\ \A j \in 1 .. Len(b) : (a \o b)[Len(a) + j] = b[j]
        <4> HIDE DEF n
        <4>1. a \in Seq(S) /\ b \in Seq(S)
          BY <1>2, <1>3
        <4> QED
          BY <4>1, Joined
      <3>2. Len(a) + Len(b) = n - 1
        BY <1>1, <1>2, <1>3
      <3> QED
        BY <1>2, <1>3, <3>1, <3>2
    <2>2. ASSUME NEW j \in 1 .. n - 1
          PROVE  (a \o b)[j] = IF j < i THEN q[j] ELSE q[j + 1]
      <3>1. CASE j < i
        <4>1. (a \o b)[j] = a[j]
          BY <1>1, <2>1, <3>1
        <4> QED
          BY <1>1, <1>2, <3>1, <4>1
      <3>2. CASE ~(j < i)
        <4>1. /\ j - (i - 1) \in 1 .. n - i /\ i + (j - (i - 1)) = j + 1
              /\ i - 1 + (j - (i - 1)) = j
          BY <1>1, <3>2
        <4>2. (a \o b)[j] = b[j - (i - 1)]
          BY <2>1, <4>1
        <4> QED
          BY <1>3, <3>2, <4>1, <4>2
      <3> QED
        BY <3>1, <3>2
    <2> DEFINE h == a \o b
    <2> HIDE DEF h, n
    <2>3. h = [j \in 1 .. n - 1 |-> h[j]]
      BY <2>1, Spelled DEF h
    <2> QED
      BY <2>2, <2>3 DEF h
  <1>5. Without(q, i) = a \o b
    BY <1>4 DEF Without
  <1>6. a \o b \in Seq(S) /\ Len(a \o b) = n - 1
    <2>1. a \o b \in Seq(S) /\ Len(a \o b) = Len(a) + Len(b)
      BY <1>2, <1>3, Joined
    <2> QED
      BY <1>1, <1>2, <1>3, <2>1
  <1> QED
    BY <1>5, <1>6 DEF a, b

\* The i-th of the processes of s is unlinked.
LEMMA Unlinking ==
    ASSUME TypeOK, TypeOK', NEW d \in Procs, NEW s \in Seq(Procs), Chain(s, d),
           NEW i \in 1 .. Len(s), Linked(d)' = Linked(d) \ {s[i]},
           \A p \in Linked(d) : buf'[p] = buf[p],
           IF i = 1 THEN /\ first_sending'[d] = next_sending[s[1]]
                         /\ \A p \in Linked(d) : next_sending'[p] = next_sending[p]
           ELSE /\ first_sending'[d] = first_sending[d]
                /\ next_sending'[s[i - 1]] = next_sending[s[i]]
                /\ \A p \in Linked(d) \ {s[i - 1], s[i]} : next_sending'[p] = next_sending[p]
    PROVE  /\ Chain(Without(s, i), d)'
           /\ Queue'[d] = Without(Queue[d], i)
  <1> DEFINE t == Without(s, i)
             n == Len(s)
  <1>1. /\ t \in Seq(Procs) /\ Len(t) = n - 1 /\ n \in Nat
        /\ i \in Int /\ 1 <= i /\ i <= n
    <2>1. t \in Seq(Procs) /\ Len(t) = Len(s) - 1
      BY WithoutIs
    <2> HIDE DEF t
    <2> QED
      BY <2>1
  <1>2. \A j \in 1 .. n - 1 : t[j] = IF j < i THEN s[j] ELSE s[j + 1]
    BY DEF Without
  <1>3. /\ \A j \in 1 .. n : s[j] \in Linked(d)
        /\ \A p \in Linked(d) : \E j \in 1 .. n : s[j] = p
        /\ \A j, k \in 1 .. n : s[j] = s[k] => j = k
        /\ first_sending[d] = s[1]
        /\ \A j \in 1 .. n : next_sending[s[j]] = IF j = n THEN NULL ELSE s[j + 1]
    BY DEF Chain
  <1>4. /\ i = 1 => /\ first_sending'[d] = next_sending[s[1]]
                    /\ \A p \in Linked(d) : next_sending'[p] = next_sending[p]
        /\ i # 1 => /\ first_sending'[d] = first_sending[d]
                    /\ next_sending'[s[i - 1]] = next_sending[s[i]]
                    /\ \A p \in Linked(d) \ {s[i - 1], s[i]} : next_sending'[p] = next_sending[p]
    OBVIOUS
  <1> HIDE DEF Linked, t, n
  <1>5. \A j \in 1 .. n - 1 : /\ j \in Int
                              /\ j < i => j \in 1 .. n /\ t[j] = s[j] /\ j # i
                              /\ ~(j < i) => j + 1 \in 1 .. n /\ t[j] = s[j + 1] /\ j + 1 # i
    BY <1>1, <1>2
  <1>6. \A j, k \in 1 .. n - 1 : t[j] = t[k] => j = k
    <2> SUFFICES ASSUME NEW j \in 1 .. n - 1, NEW k \in 1 .. n - 1, t[j] = t[k] PROVE j = k
      OBVIOUS
    <2>1. CASE j < i /\ k < i
      BY <1>3, <1>5, <2>1
    <2>2. CASE j < i /\ ~(k < i)
      <3>1. j = k + 1
        BY <1>3, <1>5, <2>2
      <3> QED
        BY <1>1, <2>2, <3>1
    <2>3. CASE ~(j < i) /\ k < i
      <3>1. k = j + 1
        BY <1>3, <1>5, <2>3
      <3> QED
        BY <1>1, <2>3, <3>1
    <2>4. CASE ~(j < i) /\ ~(k < i)
      <3>1. j + 1 = k + 1
        BY <1>3, <1>5, <2>4
      <3> QED
        BY <3>1
    <2> QED
      BY <2>1, <2>2, <2>3, <2>4
  <1>7. Linked(d)' = {t[j] : j \in 1 .. n - 1}
    <2>1. \A j \in 1 .. n - 1 : t[j] \in Linked(d) /\ t[j] # s[i]
      <3>1. i \in 1 .. n
        BY <1>1
      <3> QED
        BY <1>3, <1>5, <3>1
    <2>2. ASSUME NEW p \in Linked(d), p # s[i] PROVE \E j \in 1 .. n - 1 : t[j] = p
      <3>1. PICK k \in 1 .. n : s[k] = p
        BY <1>3
      <3>2. CASE k < i
        <4>1. k \in 1 .. n - 1
          BY <1>1, <3>2
        <4> QED
          BY <1>5, <3>1, <3>2, <4>1
      <3>3. CASE i < k
        <4>1. k - 1 \in 1 .. n - 1 /\ ~(k - 1 < i) /\ (k - 1) + 1 = k
          BY <1>1, <3>3
        <4>2. t[k - 1] = s[k]
          BY <1>5, <4>1
        <4> QED
          BY <3>1, <4>1, <4>2
      <3>4. k # i /\ k \in Int
        BY <2>2, <3>1
      <3> QED
        BY <1>1, <3>2, <3>3, <3>4
    <2> QED
      BY <2>1, <2>2
  <1>8. first_sending'[d] = IF n - 1 = 0 THEN NULL ELSE t[1]
    <2>1. CASE i = 1
      <3>1. 1 \in 1 .. n /\ (1 = n <=> n - 1 = 0)
        BY <1>1
      <3>2. n - 1 # 0 => 1 \in 1 .. n - 1 /\ ~(1 < i)
        BY <1>1, <2>1
      <3>3. n - 1 # 0 => t[1] = s[2]
        BY <1>2, <3>2
      <3>4. next_sending[s[1]] = IF n - 1 = 0 THEN NULL ELSE s[2]
        BY <1>3, <3>1
      <3> QED
        BY <1>4, <2>1, <3>3, <3>4
    <2>2. CASE i # 1
      <3>1. 1 \in 1 .. n - 1 /\ 1 < i /\ n - 1 # 0
        BY <1>1, <2>2
      <3>2. t[1] = s[1]
        BY <1>5, <3>1
      <3> QED
        BY <1>3, <1>4, <2>2, <3>1, <3>2
    <2> QED
      BY <2>1, <2>2
  <1>9. ASSUME NEW j \in 1 .. n - 1
        PROVE  next_sending'[t[j]] = IF j = n - 1 THEN NULL ELSE t[j + 1]
    <2>1. CASE ~(j < i)
      <3>1. /\ j + 1 \in 1 .. n /\ t[j] = s[j + 1] /\ (j + 1 = n <=> j = n - 1)
            /\ j + 1 # i /\ j + 1 # i - 1
        BY <1>1, <1>5, <2>1
      <3>2. next_sending'[s[j + 1]] = next_sending[s[j + 1]]
        <4>1. s[j + 1] \in Linked(d)
          BY <1>3, <3>1
        <4>2. CASE i = 1
          BY <1>4, <4>1, <4>2
        <4>3. CASE i # 1
          <5>1. i \in 1 .. n /\ i - 1 \in 1 .. n
            BY <1>1, <4>3
          <5>2. s[j + 1] \notin {s[i - 1], s[i]}
            BY <1>3, <3>1, <5>1
          <5> QED
            BY <1>4, <4>1, <4>3, <5>2
        <4> QED
          BY <4>2, <4>3
      <3>3. next_sending[s[j + 1]] = IF j = n - 1 THEN NULL ELSE s[(j + 1) + 1]
        BY <1>3, <3>1
      <3>4. j # n - 1 => t[j + 1] = s[(j + 1) + 1]
        <4>1. j # n - 1 => j + 1 \in 1 .. n - 1 /\ ~(j + 1 < i)
          BY <1>1, <2>1
        <4> QED
          BY <1>2, <4>1
      <3> QED
        BY <3>1, <3>2, <3>3, <3>4
    <2>2. CASE j = i - 1
      <3>1. /\ i # 1 /\ i \in 1 .. n /\ t[j] = s[i - 1] /\ (i = n <=> j = n - 1)
        BY <1>1, <1>5, <2>2
      <3>2. next_sending'[t[j]] = IF j = n - 1 THEN NULL ELSE s[i + 1]
        BY <1>3, <1>4, <3>1
      <3>3. j # n - 1 => t[j + 1] = s[i + 1]
        <4>1. j + 1 = i /\ (j # n - 1 => i \in 1 .. n - 1) /\ ~(i < i)
          BY <1>1, <2>2
        <4> QED
          BY <1>2, <4>1
      <3> QED
        BY <3>2, <3>3
    <2>3. CASE j < i - 1
      <3>1. /\ i # 1 /\ i \in 1 .. n /\ i - 1 \in 1 .. n /\ j \in 1 .. n /\ j < i
            /\ j # i /\ j # i - 1 /\ j # n /\ j # n - 1
            /\ j + 1 \in 1 .. n - 1 /\ j + 1 < i
        BY <1>1, <2>3
      <3>2. t[j] = s[j] /\ t[j + 1] = s[j + 1]
        BY <1>5, <3>1
      <3>3. s[j] \in Linked(d) \ {s[i - 1], s[i]}
        BY <1>3, <3>1
      <3>4. next_sending'[s[j]] = s[j + 1]
        BY <1>3, <1>4, <3>1, <3>3
      <3> QED
        BY <3>1, <3>2, <3>4
    <2>4. j < i - 1 \/ j = i - 1 \/ ~(j < i)
      BY <1>1
    <2> QED
      BY <2>1, <2>2, <2>3, <2>4
  <1>10. Chain(t, d)'
    BY <1>1, <1>6, <1>7, <1>8, <1>9 DEF Chain
  <1>11. Queue[d] = Said(s, buf) /\ Queue'[d] = Said(t, buf')
    BY <1>1, <1>10, QueueIs, QueueWillBe
  <1>12. Said(t, buf') = Without(Said(s, buf), i)
    <2> DEFINE g == Said(s, buf)
    <2>1. Len(g) = n /\ \A j \in 1 .. n : g[j] = buf[s[j]]
      <3>1. g \in [1 .. n -> {buf[p] : p \in Procs}]
        BY DEF Said, n
      <3> QED
        BY <1>1, <3>1 DEF Said, n
    <2> HIDE DEF g
    <2>2. Said(t, buf') = [j \in 1 .. n - 1 |-> buf'[t[j]]]
      BY <1>1 DEF Said
    <2>3. Without(g, i) = [j \in 1 .. n - 1 |-> IF j < i THEN g[j] ELSE g[j + 1]]
      BY <2>1 DEF Without
    <2>4. ASSUME NEW j \in 1 .. n - 1
          PROVE  buf'[t[j]] = IF j < i THEN g[j] ELSE g[j + 1]
      <3>1. CASE j < i
        <4>1. j \in 1 .. n /\ t[j] = s[j]
          BY <1>5, <3>1
        <4> QED
          BY <1>3, <2>1, <3>1, <4>1
      <3>2. CASE ~(j < i)
        <4>1. j + 1 \in 1 .. n /\ t[j] = s[j + 1]
          BY <1>5, <3>2
        <4> QED
          BY <1>3, <2>1, <3>2, <4>1
      <3> QED
        BY <3>1, <3>2
    <2> QED
      BY <2>2, <2>3, <2>4 DEF g
  <1> QED
    BY <1>10, <1>11, <1>12 DEF t

\* The process c joins the queue of e.
LEMMA Joins ==
    ASSUME TypeOK, TypeOK', Chained, NEW e \in Procs, NEW c \in Procs,
           \A d \in Procs : c \notin Linked(d), Own(c), buf' = buf,
           Linked(e)' = Linked(e) \cup {c}, next_sending'[c] = NULL,
           \A d \in Procs \ {e} : Linked(d)' = Linked(d) /\ first_sending'[d] = first_sending[d],
           NEW s \in Seq(Procs), Chain(s, e),
           IF Len(s) = 0
           THEN /\ first_sending'[e] = c
                /\ \A p \in Procs \ {c} : next_sending'[p] = next_sending[p]
           ELSE /\ first_sending'[e] = first_sending[e] /\ next_sending'[s[Len(s)]] = c
                /\ \A p \in Procs \ {c, s[Len(s)]} : next_sending'[p] = next_sending[p]
    PROVE  /\ Chained'
           /\ Queue' = [Queue EXCEPT ![e] = Append(@, [source |-> c, type |-> buf[c].type])]
  <1>1. /\ c \in Procs \ Linked(e) /\ \A d \in Procs : Linked(d) \subseteq Procs
        /\ \A d \in Procs \ {e} : Linked(d) \cap Linked(e) = {}
    BY DEF Linked
  <1>2. Len(s) # 0 => s[Len(s)] \in Linked(e)
    <2>1. Len(s) # 0 => Len(s) \in 1 .. Len(s)
      OBVIOUS
    <2> QED
      BY <2>1 DEF Chain
  <1>3. buf[c] = [source |-> c, type |-> buf[c].type]
    <2>1. buf[c] \in Messages
      BY DEF TypeOK
    <2> QED
      BY <2>1 DEF Messages, Own
  <1> HIDE DEF Linked
  <1>4. Chain(Append(s, c), e)' /\ Queue'[e] = Append(Queue[e], buf[c])
    <2>1. IF Len(s) = 0 THEN first_sending'[e] = c
          ELSE /\ first_sending'[e] = first_sending[e] /\ next_sending'[s[Len(s)]] = c
               /\ \A p \in Linked(e) \ {s[Len(s)]} : next_sending'[p] = next_sending[p]
      BY <1>1
    <2> QED
      BY <1>1, <2>1, Linking
  <1>5. Append(s, c) \in Seq(Procs)
    OBVIOUS
  <1>6. ASSUME NEW d \in Procs \ {e}
        PROVE  (\E q \in Seq(Procs) : Chain(q, d)') /\ Queue'[d] = Queue[d]
    <2>1. PICK q \in Seq(Procs) : Chain(q, d)
      BY DEF Chained
    <2>2. \A p \in Linked(d) : next_sending'[p] = next_sending[p] /\ buf'[p] = buf[p]
      BY <1>1, <1>2
    <2> QED
      BY <2>1, <2>2, QueueFrame1
  <1>7. Chained'
    <2>1. \A d \in Procs : \E q \in Seq(Procs) : Chain(q, d)'
      BY <1>4, <1>5, <1>6
    <2> QED
      BY <2>1 DEF Chained
  <1>8. Queue = [d \in Procs |-> Queue[d]] /\ Queue' = [d \in Procs |-> Queue'[d]]
    BY DEF Queue
  <1> QED
    BY <1>3, <1>4, <1>6, <1>7, <1>8

LEMMA EnqueueStep ==
    ASSUME Inv1, Inv2, Chained, BuffersOK, TypeOK',
           SendEnqueue \/ SendTail, pc' = "block"
    PROVE  /\ Chained'
           /\ Queue' = [Queue EXCEPT ![peer] =
                          Append(@, [source |-> caller, type |-> buf[caller].type])]
  <1>1. PICK c \in Procs : c = caller
    BY DEF Inv1, CallOK, SendEnqueue, SendTail
  <1>2. PICK e \in Procs : e = peer
    BY DEF Inv1, CallOK, SendEnqueue, SendTail, SendPcs
  <1>3. PICK s \in Seq(Procs) : Chain(s, e)
    BY DEF Chained
  <1>4. TypeOK /\ Own(c) /\ buf' = buf /\ c # e
    BY <1>1, <1>2 DEF Inv1, CallOK, SendEnqueue, SendTail, SendPcs, Fail, BuffersOK, Sent
  <1>5. \A d \in Procs : c \notin Linked(d)
    BY <1>1, <1>2 DEF Inv1, CallOK, SendEnqueue, SendTail, SendPcs, Linked, Sending
  <1>6. CASE SendEnqueue
    <2>1. /\ pc = "enqueue" /\ p_flags[c] = {} /\ first_sending[e] = NULL
          /\ p_flags' = [p_flags EXCEPT ![c] = {"SENDING"}]
          /\ p_sendto' = [p_sendto EXCEPT ![c] = e]
          /\ first_sending' = [first_sending EXCEPT ![e] = c]
          /\ next_sending' = [next_sending EXCEPT ![c] = NULL]
      BY <1>1, <1>2, <1>6 DEF SendEnqueue, Fail
    <2>2. /\ Linked(e)' = Linked(e) \cup {c}
          /\ \A d \in Procs \ {e} : Linked(d)' = Linked(d)
      BY <1>4, <2>1 DEF Linked, Sending, TypeOK
    <2>3. Len(s) = 0
      <3>1. Len(s) # 0 => 1 \in 1 .. Len(s)
        OBVIOUS
      <3>2. Len(s) # 0 => s[1] \in Procs /\ first_sending[e] = s[1]
        BY <1>3, <3>1 DEF Chain
      <3> QED
        BY <2>1, <3>2, Pids
    <2>4. /\ first_sending'[e] = c /\ next_sending'[c] = NULL
          /\ \A d \in Procs \ {e} : first_sending'[d] = first_sending[d]
          /\ \A p \in Procs \ {c} : next_sending'[p] = next_sending[p]
      BY <1>4, <2>1 DEF TypeOK
    <2>5. IF Len(s) = 0
          THEN /\ first_sending'[e] = c
               /\ \A p \in Procs \ {c} : next_sending'[p] = next_sending[p]
          ELSE /\ first_sending'[e] = first_sending[e] /\ next_sending'[s[Len(s)]] = c
               /\ \A p \in Procs \ {c, s[Len(s)]} : next_sending'[p] = next_sending[p]
      BY <2>3, <2>4
    <2>6. /\ Chained'
          /\ Queue' = [Queue EXCEPT ![e] = Append(@, [source |-> c, type |-> buf[c].type])]
      <3> HIDE DEF Linked
      <3> QED
        BY <1>3, <1>4, <1>5, <2>2, <2>4, <2>5, Joins
    <2> QED
      BY <1>1, <1>2, <2>6
  <1>7. CASE SendTail
    <2> DEFINE w == s[Len(s)]
    <2>1. /\ pc = "tail" /\ p_flags[c] = {"SENDING"} /\ p_sendto[c] = e
          /\ next_sending[walk] = NULL /\ walk \in Linked(e)
          /\ UNCHANGED <<p_flags, p_sendto, first_sending>>
          /\ next_sending' = [next_sending EXCEPT ![walk] = c, ![c] = NULL]
      BY <1>1, <1>2, <1>7 DEF SendTail, TailFound, Inv1, Inv2, CallOK, procVars
    <2>2. /\ Linked(e)' = Linked(e) \cup {c}
          /\ \A d \in Procs \ {e} : Linked(d)' = Linked(d)
      BY <1>1, <2>1 DEF Linked, Sending
    <2>3. walk = w /\ Len(s) # 0
      <3>1. PICK i \in 1 .. Len(s) : s[i] = walk
        BY <1>3, <2>1 DEF Chain
      <3>2. next_sending[s[i]] = IF i = Len(s) THEN NULL ELSE s[i + 1]
        BY <1>3, <3>1 DEF Chain
      <3>3. i # Len(s) => s[i + 1] \in Procs
        <4>1. i # Len(s) => i + 1 \in 1 .. Len(s)
          BY <3>1
        <4> QED
          BY <4>1
      <3>4. i = Len(s)
        BY <2>1, <3>1, <3>2, <3>3, Pids
      <3> QED
        BY <3>1, <3>4
    <2>4. w \in Procs /\ w # c
      BY <1>5, <2>1, <2>3 DEF Linked
    <2> HIDE DEF w
    <2>5. /\ first_sending' = first_sending /\ next_sending'[c] = NULL /\ next_sending'[w] = c
          /\ \A p \in Procs \ {c, w} : next_sending'[p] = next_sending[p]
      BY <1>4, <2>1, <2>3, <2>4 DEF TypeOK
    <2> HIDE DEF Linked
    <2> QED
      BY <1>1, <1>2, <1>3, <1>4, <1>5, <2>2, <2>3, <2>5, Joins DEF w
  <1> QED
    BY <1>6, <1>7

\* The receiver takes the oldest message that its source allows.
LEMMA TakeStep ==
    ASSUME Inv1, Inv2, Chained, BuffersOK, TypeOK', ReceiveTake, pc' = "user"
    PROVE  /\ Chained'
           /\ \E i \in DOMAIN Queue[caller] :
                 /\ Abstract!Oldest(caller, peer, i)
                 /\ Queue[caller][i] = buf[From]
                 /\ Queue' = [Queue EXCEPT ![caller] =
                                 SubSeq(@, 1, i - 1) \o SubSeq(@, i + 1, Len(@))]
  <1>1. PICK c \in Procs : c = caller
    BY DEF Inv1, CallOK, ReceiveTake
  <1>2. /\ pc = "take" /\ TakeAsserts /\ TakeOK /\ TypeOK /\ peer \in Procs \cup {ANY}
        /\ p_flags[c] = {}
    BY <1>1 DEF Inv1, Inv2, ReceiveTake, Fail, CallOK, ReceivePcs
  <1>3. PICK f \in Procs : f = From
    BY <1>1, <1>2 DEF From, TakeAsserts, TypeOK
  <1>4. PICK v : v = prev
    OBVIOUS
  <1>5. PICK s \in Seq(Procs) : Chain(s, c)
    BY DEF Chained
  <1>6. /\ \A d \in Procs : c \notin Linked(d)
        /\ f \in Linked(c) /\ (f = first_sending[c]) = (v = NULL)
        /\ peer = ANY => f = first_sending[c]
        /\ peer # ANY => f = peer
        /\ v # NULL => v \in Linked(c) /\ next_sending[v] = f
    BY <1>1, <1>2, <1>3, <1>4, Pids DEF TakeAsserts, TakeOK, From, Linked, Sending, Idle
  <1>7. /\ p_flags' = [p_flags EXCEPT ![f] = @ \ {"SENDING"}]
        /\ p_sendto' = [p_sendto EXCEPT ![f] = NO_TASK]
        /\ buf' = [buf EXCEPT ![c] = buf[f]]
        /\ IF f = first_sending[c]
           THEN /\ first_sending' = [first_sending EXCEPT ![c] = next_sending[f]]
                /\ next_sending' = [next_sending EXCEPT ![c] = NULL]
           ELSE /\ next_sending' = [next_sending EXCEPT ![v] = next_sending[f], ![f] = NULL]
                /\ first_sending' = first_sending
    BY <1>1, <1>2, <1>3, <1>4 DEF ReceiveTake, WithoutFrom
  <1>8. /\ Linked(c)' = Linked(c) \ {f} /\ Linked(c) \subseteq Procs
        /\ \A d \in Procs \ {c} : Linked(d)' = Linked(d) /\ f \notin Linked(d)
        /\ \A d \in Procs \ {c} : v # NULL => v \notin Linked(d)
    BY <1>2, <1>6, <1>7 DEF Linked, Sending, TypeOK
  <1>9. /\ \A p \in Procs \ {c} : buf'[p] = buf[p]
        /\ f = first_sending[c] => /\ first_sending'[c] = next_sending[f]
                                   /\ \A p \in Procs \ {c} : next_sending'[p] = next_sending[p]
        /\ f # first_sending[c] => /\ first_sending'[c] = first_sending[c]
                                   /\ next_sending'[v] = next_sending[f]
                                   /\ \A p \in Procs \ {v, f} : next_sending'[p] = next_sending[p]
        /\ \A d \in Procs \ {c} : first_sending'[d] = first_sending[d]
    <2>1. f # first_sending[c] => v # f
      <3>1. \A p \in Linked(c) : next_sending[p] # p
        <4>1. ASSUME NEW p \in Linked(c), next_sending[p] = p PROVE FALSE
          <5>1. PICK i \in 1 .. Len(s) : s[i] = p
            BY <1>5, <4>1 DEF Chain
          <5>2. next_sending[p] = IF i = Len(s) THEN NULL ELSE s[i + 1]
            BY <1>5, <5>1 DEF Chain
          <5>3. i # Len(s) => i + 1 \in 1 .. Len(s) /\ i + 1 # i
            BY <5>1
          <5>4. \A j \in 1 .. Len(s) : s[j] = s[i] => j = i
            BY <1>5, <5>1 DEF Chain
          <5>5. p \in Procs
            BY <5>1
          <5> QED
            BY <4>1, <5>1, <5>2, <5>3, <5>4, <5>5, Pids
        <4> QED
          BY <4>1
      <3> QED
        BY <1>6, <3>1
    <2>2. f # first_sending[c] => v \in Procs
      BY <1>6 DEF Linked
    <2> QED
      BY <1>2, <1>7, <2>1, <2>2 DEF TypeOK
  <1> HIDE DEF Linked
  <1>10. PICK i \in 1 .. Len(s) : s[i] = f
    BY <1>5, <1>6 DEF Chain
  <1>11. /\ \A j \in 1 .. Len(s) : s[j] \in Linked(c)
         /\ \A j, k \in 1 .. Len(s) : s[j] = s[k] => j = k
         /\ first_sending[c] = s[1]
         /\ \A j \in 1 .. Len(s) : next_sending[s[j]] = IF j = Len(s) THEN NULL ELSE s[j + 1]
    <2>1. Len(s) # 0
      BY <1>10
    <2> QED
      BY <1>5, <2>1 DEF Chain
  <1>12. i = 1 <=> f = first_sending[c]
    <2>1. 1 \in 1 .. Len(s)
      BY <1>10
    <2> QED
      BY <1>10, <1>11, <2>1
  <1>13. i # 1 => v = s[i - 1]
    <2> SUFFICES ASSUME i # 1 PROVE v = s[i - 1]
      OBVIOUS
    <2>1. v \in Linked(c) /\ next_sending[v] = f
      BY <1>6, <1>12
    <2>2. PICK k \in 1 .. Len(s) : s[k] = v
      BY <1>5, <2>1 DEF Chain
    <2>3. next_sending[v] = IF k = Len(s) THEN NULL ELSE s[k + 1]
      BY <1>11, <2>2
    <2>4. k # Len(s)
      BY <2>1, <2>3, Pids
    <2>5. k + 1 \in 1 .. Len(s)
      BY <2>2, <2>4
    <2>6. k + 1 = i
      BY <1>10, <1>11, <2>1, <2>3, <2>4, <2>5
    <2>7. k = i - 1
      BY <2>2, <2>6
    <2> QED
      BY <2>2, <2>7
  <1>14. Chain(Without(s, i), c)' /\ Queue'[c] = Without(Queue[c], i)
    <2>1. \A p \in Linked(c) : buf'[p] = buf[p]
      BY <1>6, <1>8, <1>9
    <2>2. IF i = 1 THEN /\ first_sending'[c] = next_sending[s[1]]
                        /\ \A p \in Linked(c) : next_sending'[p] = next_sending[p]
          ELSE /\ first_sending'[c] = first_sending[c]
               /\ next_sending'[s[i - 1]] = next_sending[s[i]]
               /\ \A p \in Linked(c) \ {s[i - 1], s[i]} : next_sending'[p] = next_sending[p]
      BY <1>6, <1>8, <1>9, <1>10, <1>12, <1>13
    <2>3. Linked(c)' = Linked(c) \ {s[i]}
      BY <1>8, <1>10
    <2> QED
      BY <1>2, <1>5, <1>10, <2>1, <2>2, <2>3, Unlinking
  <1>15. ASSUME NEW d \in Procs \ {c}
         PROVE  (\E q \in Seq(Procs) : Chain(q, d)') /\ Queue'[d] = Queue[d]
    <2>1. PICK q \in Seq(Procs) : Chain(q, d)
      BY DEF Chained
    <2>2. Linked(d) \subseteq Procs
      BY DEF Linked
    <2>3. \A p \in Linked(d) : next_sending'[p] = next_sending[p] /\ buf'[p] = buf[p]
      BY <1>6, <1>8, <1>9, <2>2
    <2> QED
      BY <1>2, <1>8, <1>9, <2>1, <2>3, QueueFrame1
  <1>16. Without(s, i) \in Seq(Procs)
    BY <1>10, WithoutIs
  <1>17. Chained'
    <2>1. \A d \in Procs : \E q \in Seq(Procs) : Chain(q, d)'
      BY <1>14, <1>15, <1>16
    <2> QED
      BY <2>1 DEF Chained
  <1>18. Queue = [d \in Procs |-> Queue[d]] /\ Queue' = [d \in Procs |-> Queue'[d]]
    BY DEF Queue
  <1>19. Queue[c] = Said(s, buf) /\ Queue[c] \in Seq(Messages) /\ Len(Queue[c]) = Len(s)
    <2>1. Queue[c] = Said(s, buf)
      BY <1>2, <1>5, QueueIs
    <2>2. \A j \in 1 .. Len(s) : buf[s[j]] \in Messages
      BY <1>2 DEF TypeOK
    <2>3. Said(s, buf) \in [1 .. Len(s) -> Messages]
      BY <2>2 DEF Said
    <2> DEFINE n == Len(s)
               g == Said(s, buf)
    <2>4. n \in Nat
      OBVIOUS
    <2> HIDE DEF n, g
    <2>5. g \in Seq(Messages) /\ Len(g) = n
      BY <2>3, <2>4 DEF n, g
    <2> QED
      BY <2>1, <2>5 DEF n, g
  <1>20. Queue' = [Queue EXCEPT ![c] = SubSeq(@, 1, i - 1) \o SubSeq(@, i + 1, Len(@))]
    <2>1. Queue'[c] = SubSeq(Queue[c], 1, i - 1) \o SubSeq(Queue[c], i + 1, Len(Queue[c]))
      <3> DEFINE q == Queue[c]
      <3> HIDE DEF q
      <3>1. q \in Seq(Messages) /\ i \in 1 .. Len(q) /\ Queue'[c] = Without(q, i)
        BY <1>10, <1>14, <1>19 DEF q
      <3>2. Without(q, i) = SubSeq(q, 1, i - 1) \o SubSeq(q, i + 1, Len(q))
        BY <3>1, WithoutIs
      <3> QED
        BY <3>1, <3>2 DEF q
    <2> QED
      BY <1>15, <1>18, <2>1
  <1>21. /\ i \in DOMAIN Queue[c] /\ Queue[c][i] = buf[f]
         /\ \A j \in 1 .. Len(s) : Queue[c][j].source = s[j]
    <2>1. \A j \in 1 .. Len(s) : Queue[c][j] = buf[s[j]]
      BY <1>19 DEF Said
    <2>2. \A j \in 1 .. Len(s) : buf[s[j]].source = s[j]
      BY <1>11 DEF BuffersOK, Sent, Own, Linked
    <2>3. DOMAIN Queue[c] = 1 .. Len(s)
      BY <1>19 DEF Said
    <2> QED
      BY <1>10, <2>1, <2>2, <2>3
  <1>22. Abstract!Oldest(c, peer, i)
    <2>1. peer \in {ANY, Queue[c][i].source}
      BY <1>6, <1>10, <1>21
    <2>2. ASSUME NEW j \in 1 .. i - 1 PROVE peer \notin {ANY, Queue[c][j].source}
      <3>1. i # 1 /\ j \in 1 .. Len(s) /\ j # i
        BY <1>10
      <3>2. peer # ANY /\ f = peer
        BY <1>6, <1>12, <3>1
      <3> QED
        BY <1>10, <1>11, <1>21, <3>1, <3>2
    <2> QED
      BY <1>21, <2>1, <2>2 DEF Abstract!Oldest
  <1> QED
    BY <1>1, <1>3, <1>17, <1>20, <1>21, <1>22

-----------------------------------------------------------------------------
(* The invariant as a whole                                                *)

LEMMA RInit == Init => RInv
  <1> SUFFICES ASSUME Init PROVE RInv
    OBVIOUS
  <1>1. Chained
    <2> SUFFICES ASSUME NEW d \in Procs PROVE \E s \in Seq(Procs) : Chain(s, d)
      BY DEF Chained
    <2>1. <<>> \in Seq(Procs) /\ Len(<<>>) = 0 /\ \A i : i \notin 1 .. 0
      OBVIOUS
    <2>2. Linked(d) = {}
      BY DEF Init, Linked, Sending
    <2>3. Chain(<<>>, d)
      BY <2>1, <2>2 DEF Chain, Init
    <2> QED
      BY <2>1, <2>3
  <1>2. BuffersOK
    BY DEF Init, BuffersOK, Sending, Receiving, SendPcs
  <1>3. PendingOK
    BY Pids DEF Init, PendingOK, Receiving
  <1>4. WalkOK /\ fault = "none"
    BY DEF Init, WalkOK
  <1> QED
    BY <1>1, <1>2, <1>3, <1>4 DEF RInv

LEMMA RStep == IInv /\ IInv' /\ RInv /\ [Next]_vars => RInv'
  <1> SUFFICES ASSUME IInv, IInv', RInv, [Next]_vars PROVE RInv'
    OBVIOUS
  <1>1. Chained'
    <2>1. CASE Moves
      BY <2>1, EnqueueStep, TakeStep DEF Moves, IInv, Inv1, RInv
    <2>2. CASE ~Moves
      BY <2>2, QueueQuiet DEF IInv, Inv1, RInv
    <2> QED
      BY <2>1, <2>2
  <1>2. BuffersOK' /\ PendingOK' /\ WalkOK'
    BY BuffersStep, PendingStep, WalkStep DEF IInv, RInv
  <1>3. (pc # "halt" => fault = "none")'
    BY FaultStep DEF IInv, RInv
  <1> QED
    BY <1>1, <1>2, <1>3 DEF RInv

-----------------------------------------------------------------------------
(* The steps                                                               *)

\* p holds a message somebody gave it.
Hand(p) == p_flags[p] = {} /\ buf[p].source # p

LEMMA InboxIs ==
    /\ Inbox  = [p \in Procs |-> IF Hand(p) THEN buf[p]
                                 ELSE [source |-> NOBODY, type |-> HARD_INT]]
    /\ Inbox' = [p \in Procs |-> IF Hand(p)' THEN buf'[p]
                                 ELSE [source |-> NOBODY, type |-> HARD_INT]]
  BY DEF Inbox, Hand

LEMMA WaitsStay ==
    ASSUME \A p \in Procs : /\ Receiving(p)' = Receiving(p)
                            /\ Receiving(p) => p_recvfrom'[p] = p_recvfrom[p]
    PROVE  Waits' = Waits
  BY WaitsAre

LEMMA InboxStays ==
    ASSUME \A p \in Procs : Hand(p)' = Hand(p) /\ (Hand(p) => buf'[p] = buf[p])
    PROVE  Inbox' = Inbox
  BY InboxIs

\* The steps the abstract system does not see.
Unseen ==
    \/ HdCmdOut \/ TaskPanic \/ SendMatch \/ SendClear \/ ReceiveCheck
    \/ ReceiveFromZero \/ ReceiveIntDone \/ ReceiveSearch \/ BlockExit \/ Halted
    \/ (SendAddress \/ SendCopy) /\ Receiving(peer)
    \/ DeadlockStep /\ pc' # "halt"
    \/ SendWake /\ ~Receiving(peer)
    \/ SendEnqueue /\ pc' # "block"
    \/ SendTail /\ pc' # "block"
    \/ ReceiveTake /\ pc' # "user"
    \/ Block /\ pc' = "halt"
    \/ UNCHANGED vars

LEMMA UnseenStep ==
    ASSUME Inv1, BuffersOK, pc # "halt" => fault = "none", Unseen
    PROVE  /\ Waits' = Waits /\ Inbox' = Inbox /\ Late' = Late
           /\ UNCHANGED <<has_int_msg, p_proc_ready, fault = "deadlock">>
  <1> DEFINE Kept == /\ Waits' = Waits /\ Inbox' = Inbox /\ Late' = Late
                     /\ UNCHANGED <<has_int_msg, p_proc_ready, fault = "deadlock">>
  <1> HIDE DEF Kept
  <1> SUFFICES Kept
    BY DEF Kept
  <1>0. Late' = Late
    <2>1. CASE SendMatch
      BY <2>1 DEF SendMatch, Matches, Late, Receiving, procVars, callVars
    <2>2. CASE (SendAddress \/ SendCopy) /\ Receiving(peer)
      BY <2>2 DEF SendAddress, SendCopy, Late, Receiving, procVars, callVars
    <2>3. CASE Halted \/ UNCHANGED vars
      BY <2>3 DEF Halted, vars, procVars, callVars, Late, Receiving
    <2>4. CASE ~(\/ SendMatch \/ Halted \/ UNCHANGED vars
                 \/ (SendAddress \/ SendCopy) /\ Receiving(peer))
      <3>1. pc \notin {"address", "copy"} /\ pc' \notin {"address", "copy"}
        BY <2>4 DEF Unseen, HdCmdOut, TaskPanic, SendClear, ReceiveCheck, ReceiveFromZero,
           ReceiveIntDone, ReceiveSearch, BlockExit, DeadlockStep, SendWake, SendEnqueue,
           SendTail, ReceiveTake, Block, Fail, Return, Leave
      <3> QED
        BY <3>1 DEF Late
    <2> QED
      BY <2>1, <2>2, <2>3, <2>4
  <1>k. ASSUME \A p \in Procs : /\ Receiving(p)' = Receiving(p)
                                /\ Receiving(p) => p_recvfrom'[p] = p_recvfrom[p],
               \A p \in Procs : Hand(p)' = Hand(p) /\ (Hand(p) => buf'[p] = buf[p]),
               UNCHANGED <<has_int_msg, p_proc_ready, fault = "deadlock">>
        PROVE  Kept
    BY <1>k, <1>0, WaitsStay, InboxStays DEF Kept
  <1>1. CASE HdCmdOut \/ SendMatch \/ SendClear \/ ReceiveCheck \/ Halted \/ UNCHANGED vars
    BY <1>1, <1>k DEF HdCmdOut, SendMatch, SendClear, ReceiveCheck, Halted, vars,
                      procVars,
                      Hand, Receiving
  <1>2. CASE TaskPanic \/ ReceiveFromZero
    BY <1>2, <1>k DEF TaskPanic, ReceiveFromZero, Fail, procVars, Hand, Receiving
  <1>3. CASE (SendAddress \/ SendCopy) /\ Receiving(peer)
    <2>1. buf \in [Procs -> Messages] /\ p_flags[peer] # {}
      BY <1>3 DEF Inv1, TypeOK, Receiving
    <2>2. \A p \in Procs : p_flags[p] = {} => buf'[p] = buf[p]
      BY <1>3, <2>1 DEF SendAddress, SendCopy
    <2>3. UNCHANGED <<p_flags, p_recvfrom, has_int_msg, p_proc_ready, fault>>
      BY <1>3 DEF SendAddress, SendCopy, procVars
    <2> QED
      BY <1>k, <2>2, <2>3 DEF Hand, Receiving
  <1>4. CASE ReceiveIntDone \/ BlockExit \/ ReceiveSearch
    BY <1>4, <1>k DEF ReceiveIntDone, BlockExit, ReceiveSearch, Return, Leave, Fail,
                      procVars,
                      Hand, Receiving, ExitAsserts, WaitAsserts
  <1>5. CASE DeadlockStep /\ pc' # "halt"
    BY <1>5, <1>k DEF DeadlockStep, Fail, procVars, Hand, Receiving
  <1>6. CASE SendWake /\ ~Receiving(peer)
    <2>1. /\ peer \in Procs /\ caller \in Procs
          /\ p_flags[peer] = {} /\ p_recvfrom[peer] = NO_TASK
          /\ p_flags \in [Procs -> SUBSET {"SENDING", "RECEIVING"}]
          /\ p_recvfrom \in [Procs -> Procs \cup {ANY, NO_TASK, NilPid}]
      BY <1>6 DEF SendWake, Inv1, TypeOK, CallOK, SendPcs, Shape, Receiving
    <2> QED
      BY <1>6, <1>k, <2>1 DEF SendWake, Return, Leave, Fail, procVars, Hand, Receiving
  <1>7. CASE SendEnqueue /\ pc' # "block"
    <2>1. caller \in Procs /\ p_flags[caller] = {} /\ buf[caller].source = caller
      BY <1>7 DEF SendEnqueue, Inv1, CallOK, SendPcs, BuffersOK, Sent, Own
    <2>2. p_flags \in [Procs -> SUBSET {"SENDING", "RECEIVING"}]
      BY DEF Inv1, TypeOK
    <2> QED
      BY <1>7, <1>k, <2>1, <2>2 DEF SendEnqueue, Hand, Receiving
  <1>8. CASE SendTail /\ pc' # "block"
    BY <1>8, <1>k DEF SendTail, procVars, Hand, Receiving
  <1>9. CASE ReceiveTake /\ pc' # "user"
    BY <1>9, <1>k DEF ReceiveTake, Return, Leave, Fail, procVars, Hand, Receiving
  <1>10. CASE Block /\ pc' = "halt"
    BY <1>10, <1>k DEF Block, Fail, procVars, Hand, Receiving
  <1> QED
    BY <1>1, <1>2, <1>3, <1>4, <1>5, <1>6, <1>7, <1>8, <1>9, <1>10 DEF Unseen

\* The process that executes the kernel runs in the abstract system too.
LEMMA CallerRuns ==
    ASSUME IInv, RInv, pc \notin {"user", "halt", "block", "exit", "address", "copy"}
    PROVE  caller \in Procs /\ Abstract!Runs(caller) /\ fault = "none"
  <1>1. PICK c \in Procs : c = caller
    BY DEF IInv, Inv1, CallOK
  <1>2. c = p_proc_ready /\ fault = "none" /\ TypeOK /\ Chained /\ BuffersOK
    BY <1>1 DEF IInv, Inv1, CallOK, RInv
  <1>3. ~Receiving(c) /\ \A d \in Procs : c \notin Linked(d)
    <2>1. pc # "tail" => p_flags[c] = {}
      BY <1>1 DEF IInv, Inv1, TypeOK, Pcs, CallOK, SendPcs, ReceivePcs
    <2>2. pc = "tail" => p_flags[c] = {"SENDING"}
      BY <1>1 DEF IInv, Inv1, CallOK
    <2> QED
      BY <1>1, <2>1, <2>2 DEF Receiving, Linked, Sending
  <1>4. Abstract!Runs(c)
    BY <1>2, <1>3, RunsIs
  <1> QED
    BY <1>1, <1>2, <1>4

\* A system call begins.
LEMMA BeginStep ==
    ASSUME IInv, RInv, Queue' = Queue,
           \/ \E d \in Procs, t \in Types : SysSend(d, t)
           \/ \E s \in Procs \cup {ANY, INTERRUPT} : SysReceive(s)
    PROVE  \E p \in Procs : Abstract!Begin(p)
  <1>1. PICK p \in Procs : p = p_proc_ready
    BY DEF IInv, Inv1, TypeOK
  <1>2. /\ pc = "user" /\ p_flags[p] = {} /\ TypeOK /\ Chained /\ BuffersOK /\ fault = "none"
    BY <1>1 DEF SysSend, SysReceive, MayCall, IInv, Inv1, CallOK, RInv
  <1>3. /\ UNCHANGED <<p_flags, p_recvfrom, has_int_msg, p_proc_ready, fault>>
        /\ \A q \in Procs \ {p} : buf'[q] = buf[q]
        /\ buf'[p].source = p
    <2>1. buf \in [Procs -> Messages] /\ buf[p] \in Messages
      BY <1>2 DEF TypeOK
    <2>2. CASE \E d \in Procs, t \in Types : SysSend(d, t)
      BY <1>1, <2>1, <2>2 DEF SysSend, procVars
    <2>3. CASE \E s \in Procs \cup {ANY, INTERRUPT} : SysReceive(s)
      <3>1. /\ buf' = [buf EXCEPT ![p].source = p]
            /\ UNCHANGED <<p_flags, p_recvfrom, has_int_msg, p_proc_ready, fault>>
        BY <1>1, <2>3 DEF SysReceive, procVars
      <3>2. buf' = [buf EXCEPT ![p] = [buf[p] EXCEPT !.source = p]]
        BY <3>1
      <3>3. [buf[p] EXCEPT !.source = p].source = p
        BY <2>1 DEF Messages
      <3> QED
        BY <2>1, <3>1, <3>2, <3>3
    <2> QED
      BY <2>2, <2>3
  <1>4. Abstract!Runs(p)
    BY <1>1, <1>2, RunsIs DEF Receiving, Linked, Sending
  <1>5. Waits' = Waits
    BY <1>3, WaitsStay DEF Receiving
  <1>6. Inbox' = [Inbox EXCEPT ![p] = Abstract!NoMsg]
    BY <1>3, InboxIs DEF Hand, Abstract!NoMsg
  <1>7. Late' = Late
    BY DEF SysSend, SysReceive, MayCall, Late
  <1> QED
    BY <1>3, <1>4, <1>5, <1>6, <1>7 DEF Abstract!Begin

\* The CPU goes to a process that is not blocked.
LEMMA SwitchStep ==
    ASSUME IInv, RInv, Queue' = Queue, Preempt \/ (Block /\ pc' # "halt")
    PROVE  Abstract!Switch
  <1>1. PICK p \in Runnable : p_proc_ready' = p
    BY DEF Preempt, Block, Fail
  <1>2. p \in Procs /\ p_flags[p] = {}
    BY <1>1 DEF Runnable
  <1>3. TypeOK /\ Chained /\ BuffersOK /\ fault = "none"
    BY DEF IInv, Inv1, RInv, Preempt, Block
  <1>4. UNCHANGED <<p_flags, p_recvfrom, has_int_msg, buf, fault>>
    BY DEF Preempt, Block, Fail, procVars
  <1>5. Abstract!Ready(p)
    BY <1>2, <1>3, ReadyIs DEF Receiving, Linked, Sending
  <1>6. Waits' = Waits /\ Inbox' = Inbox
    BY <1>4, WaitsStay, InboxStays DEF Receiving, Hand
  <1>7. Late' = NOBODY /\ Late = NOBODY
    BY DEF Preempt, Block, Fail, Late
  <1> QED
    BY <1>1, <1>2, <1>3, <1>4, <1>5, <1>6, <1>7 DEF Abstract!Switch

\* Sending leads from d to p in the abstract system when it does in the table.
LEMMA LeadsIs ==
    ASSUME IInv, RInv, NEW S \in SUBSET Procs
    PROVE  /\ pc # "tail" =>
                ((\A q \in S, r \in Procs : Abstract!SendsTo(q, r) => r \in S)
                    => ClosedUnderSending(S))
           /\ ClosedUnderSending(S) => \A q \in S, r \in Procs : Abstract!SendsTo(q, r) => r \in S
  <1>1. \A r \in Procs : Abstract!Senders(r) = Linked(r)
    BY SendersAre DEF IInv, Inv1, RInv
  <1>2. \A q \in S, r \in Procs : Abstract!SendsTo(q, r) <=> q \in Linked(r)
    BY <1>1 DEF Abstract!SendsTo
  <1>3. \A q \in Procs : Sending(q) => p_sendto[q] \in Procs
    <2> SUFFICES ASSUME NEW q \in Procs, Sending(q) PROVE p_sendto[q] \in Procs
      OBVIOUS
    <2>1. Shape(q)
      BY DEF IInv, Inv1
    <2> QED
      BY <2>1 DEF Shape, Sending
  <1> QED
    BY <1>2, <1>3 DEF ClosedUnderSending, Linked

\* The deadlock panic refuses the send.
LEMMA RefuseStep ==
    ASSUME IInv, RInv, Queue' = Queue, DeadlockStep, pc' = "halt"
    PROVE  \E p, d \in Procs : Abstract!Refuse(p, d)
  <1>1. /\ pc = "deadlock" /\ Sending(walk) /\ p_sendto[walk] = caller /\ Fail("deadlock")
        /\ walk \in Procs
    BY DEF DeadlockStep, WalkEnds, ReachesCaller, IInv, Inv1, CallOK
  <1>2. PICK c \in Procs : c = caller
    BY CallerRuns, <1>1
  <1>3. PICK e \in Procs : e = peer
    BY <1>1 DEF IInv, Inv1, CallOK, SendPcs
  <1>4. Abstract!Runs(c) /\ c # e
    BY <1>1, <1>2, <1>3, CallerRuns DEF IInv, Inv1, CallOK, SendPcs
  <1>5. Abstract!LeadsTo(e, c)
    <2> SUFFICES ASSUME NEW S \in SUBSET Procs, e \in S,
                        \A q \in S, r \in Procs : Abstract!SendsTo(q, r) => r \in S
                 PROVE  c \in S
      BY DEF Abstract!LeadsTo
    <2>1. ClosedUnderSending(S)
      BY <1>1, LeadsIs
    <2>2. walk \in S
      BY <1>1, <1>3, <2>1 DEF RInv, WalkOK
    <2> QED
      BY <1>1, <1>2, <2>1, <2>2 DEF ClosedUnderSending
  <1>6. /\ UNCHANGED <<p_flags, p_recvfrom, has_int_msg, p_proc_ready, buf>>
        /\ fault' = "deadlock"
    BY <1>1 DEF Fail, procVars
  <1>7. Waits' = Waits /\ Inbox' = Inbox
    BY <1>6, WaitsStay, InboxStays DEF Receiving, Hand
  <1>8. Late' = Late
    BY <1>1 DEF Fail, Late
  <1> QED
    BY <1>4, <1>5, <1>6, <1>7, <1>8 DEF Abstract!Refuse

\* The receiver that waited is handed the message.
LEMMA DeliverStep ==
    ASSUME IInv, RInv, Queue' = Queue, SendWake, Receiving(peer)
    PROVE  \E p, d \in Procs, t \in Types : Abstract!Deliver(p, d, t)
  <1>1. /\ pc = "wake" /\ peer \in Procs /\ caller # peer /\ TypeOK
        /\ p_flags[peer] = {"RECEIVING"} /\ p_msg[peer] = 0
    BY DEF SendWake, IInv, Inv1, CallOK, SendPcs, Receiving
  <1>2. PICK c \in Procs : c = caller
    BY CallerRuns, <1>1
  <1>3. PICK e \in Procs : e = peer
    BY <1>1
  <1>4. Abstract!Runs(c)
    BY <1>1, <1>2, CallerRuns
  <1>5. /\ buf[c].source = c /\ buf[c].type \in Types /\ buf[e] = buf[c]
        /\ p_recvfrom[e] \in {c, ANY} /\ Receiving(e)
    BY <1>1, <1>2, <1>3 DEF RInv, BuffersOK, SendPcs, Sent, Own
  <1>6. buf[c] = [source |-> c, type |-> buf[c].type]
    <2>1. buf[c] \in Messages
      BY <1>1 DEF TypeOK
    <2> QED
      BY <1>5, <2>1 DEF Messages
  <1>7. /\ p_flags' = [p_flags EXCEPT ![e] = {}]
        /\ p_recvfrom' = [p_recvfrom EXCEPT ![e] = NO_TASK]
        /\ UNCHANGED <<has_int_msg, p_proc_ready, buf>>
        /\ (fault = "deadlock")' = (fault = "deadlock")
    <2>1. /\ p_flags[peer] \subseteq {"RECEIVING"} /\ p_msg[peer] = 0
          /\ p_sendto[peer] = NO_TASK
          /\ Idle(caller) /\ p_recvfrom[caller] = NO_TASK
      BY <1>1, <1>2 DEF IInv, Inv1, TypeOK, CallOK, Shape, SendPcs, Idle
    <2> QED
      BY <1>1, <1>3, <2>1 DEF SendWake, Return, Leave
  <1>8. Waits[e] \in {c, ANY}
    BY <1>5, WaitsAre, Pids
  <1>9. Waits' = [Waits EXCEPT ![e] = NOBODY]
    BY <1>1, <1>7, WaitsAre DEF Receiving, TypeOK
  <1>10. Inbox' = [Inbox EXCEPT ![e] = [source |-> c, type |-> buf[c].type]]
    <2>1. Hand(e)' /\ \A p \in Procs \ {e} : Hand(p)' = Hand(p) /\ buf'[p] = buf[p]
      BY <1>1, <1>2, <1>3, <1>5, <1>7 DEF Hand, TypeOK
    <2>2. buf'[e] = [source |-> c, type |-> buf[c].type]
      BY <1>5, <1>6, <1>7
    <2> QED
      BY <2>1, <2>2, InboxIs
  <1>11. Late' = Late
    BY <1>1 DEF SendWake, Return, Leave, Fail, Late
  <1>12. Abstract!Deliver(c, e, buf[c].type)
    BY <1>4, <1>7, <1>8, <1>9, <1>10, <1>11 DEF Abstract!Deliver
  <1> QED
    BY <1>5, <1>12

\* The sender is linked.
LEMMA LinkStep ==
    ASSUME IInv, RInv, TypeOK', SendEnqueue \/ SendTail, pc' = "block"
    PROVE  \E p, d \in Procs, t \in Types : Abstract!Enqueue(p, d, t)
  <1>1. /\ pc \in {"enqueue", "tail"} /\ peer \in Procs /\ caller # peer /\ TypeOK
        /\ ~Fail("enqueue")
    BY DEF SendEnqueue, SendTail, IInv, Inv1, CallOK, SendPcs, Fail
  <1>2. PICK c \in Procs : c = caller
    BY CallerRuns, <1>1
  <1>3. PICK e \in Procs : e = peer
    BY <1>1
  <1>4. Abstract!Runs(c)
    BY <1>1, <1>2, CallerRuns
  <1>5. buf[c].source = c /\ buf[c].type \in Types
    BY <1>1, <1>2 DEF RInv, BuffersOK, SendPcs, Sent, Own
  <1>6. ~(Receiving(e) /\ p_recvfrom[e] \in {c, ANY})
    <2>1. CASE pc = "enqueue"
      BY <1>2, <1>3, <2>1 DEF IInv, Inv4, Matches
    <2>2. CASE pc = "tail"
      BY <1>2, <1>3, <2>2 DEF IInv, Inv1, CallOK, Inv4, NoMissedRendezvous, Sending
    <2> QED
      BY <1>1, <2>1, <2>2
  <1>7. Waits[e] \notin {c, ANY}
    BY <1>6, WaitsAre, Pids DEF NOBODY
  <1>8. ~Abstract!LeadsTo(e, c)
    <2>1. SafeToSend
      BY <1>1 DEF IInv, Inv3, RInv, WalkOK
    <2>2. PICK S \in SUBSET Procs : e \in S /\ c \notin S /\ ClosedUnderSending(S)
      BY <1>2, <1>3, <2>1 DEF SafeToSend
    <2>3. \A q \in S, r \in Procs : Abstract!SendsTo(q, r) => r \in S
      BY <2>2, LeadsIs
    <2> QED
      BY <2>2, <2>3 DEF Abstract!LeadsTo
  <1>9. Queue' = [Queue EXCEPT ![e] = Append(@, [source |-> c, type |-> buf[c].type])]
    BY <1>2, <1>3, EnqueueStep DEF IInv, RInv
  <1>10. /\ UNCHANGED <<p_recvfrom, has_int_msg, p_proc_ready, buf, fault>>
         /\ p_flags' = p_flags \/ p_flags' = [p_flags EXCEPT ![c] = {"SENDING"}]
         /\ ~Receiving(c)
    <2>1. ~Receiving(c)
      BY <1>1, <1>2 DEF IInv, Inv1, CallOK, SendPcs, ReceivePcs, Receiving
    <2> QED
      BY <1>1, <1>2, <2>1 DEF SendEnqueue, SendTail, procVars
  <1>11. Waits' = Waits
    BY <1>1, <1>10, WaitsStay DEF Receiving, TypeOK
  <1>12. Inbox' = Inbox
    BY <1>1, <1>5, <1>10, InboxStays DEF Hand, TypeOK
  <1>13. Late' = Late
    BY <1>1 DEF Late
  <1>14. Abstract!Enqueue(c, e, buf[c].type)
    BY <1>1, <1>2, <1>3, <1>4, <1>7, <1>8, <1>9, <1>10, <1>11, <1>12, <1>13
       DEF Abstract!Enqueue
  <1> QED
    BY <1>5, <1>14

\* The pending interrupts, and what they become.
LEMMA PendingIs ==
    ASSUME has_int_msg \in [Procs -> {0, 1}], NEW p \in Procs, NEW b \in {0, 1},
           has_int_msg' = [has_int_msg EXCEPT ![p] = b]
    PROVE  [q \in Procs |-> has_int_msg'[q] = 1]
              = [[q \in Procs |-> has_int_msg[q] = 1] EXCEPT ![p] = (b = 1)]
  <1> DEFINE New(q) == has_int_msg'[q] = 1
             Old(q) == has_int_msg[q] = 1
  <1>1. \A q \in Procs : New(q) = IF q = p THEN b = 1 ELSE Old(q)
    OBVIOUS
  <1> HIDE DEF New, Old
  <1>2. [[q \in Procs |-> Old(q)] EXCEPT ![p] = (b = 1)]
           = [q \in Procs |-> IF q = p THEN b = 1 ELSE Old(q)]
    OBVIOUS
  <1>3. [q \in Procs |-> New(q)] = [q \in Procs |-> IF q = p THEN b = 1 ELSE Old(q)]
    BY <1>1
  <1> QED
    BY <1>2, <1>3 DEF New, Old

\* The receiver takes the interrupt.
LEMMA TakeIntStep ==
    ASSUME IInv, RInv, Queue' = Queue, ReceiveInt
    PROVE  \E p \in Procs : Abstract!TakeInterrupt(p)
  <1>1. PICK c \in Procs : c = caller
    BY CallerRuns DEF ReceiveInt
  <1>2. /\ Abstract!Runs(c) /\ TypeOK /\ p_flags[c] = {}
        /\ has_int_msg[c] = 1 /\ buf[c].source = c
    BY <1>1, CallerRuns DEF ReceiveInt, IInv, Inv1, CallOK, ReceivePcs, RInv, PendingOK,
                            BuffersOK, Own
  <1>3. /\ buf' = [buf EXCEPT ![c] = IntMsg]
        /\ has_int_msg' = [has_int_msg EXCEPT ![c] = 0]
        /\ UNCHANGED <<p_flags, p_recvfrom, p_proc_ready, fault>>
    BY <1>1 DEF ReceiveInt
  <1>4. Waits' = Waits
    BY <1>3, WaitsStay DEF Receiving
  <1>5. Inbox' = [Inbox EXCEPT ![c] = Abstract!IntMsg]
    <2>1. /\ Hand(c)' /\ buf'[c] = Abstract!IntMsg
          /\ \A p \in Procs \ {c} : Hand(p)' = Hand(p) /\ buf'[p] = buf[p]
      BY <1>2, <1>3, Pids DEF Hand, TypeOK, IntMsg, Abstract!IntMsg
    <2> QED
      BY <2>1, InboxIs
  <1>6. [p \in Procs |-> has_int_msg'[p] = 1]
           = [[p \in Procs |-> has_int_msg[p] = 1] EXCEPT ![c] = FALSE]
    <2>1. [p \in Procs |-> has_int_msg'[p] = 1]
             = [[p \in Procs |-> has_int_msg[p] = 1] EXCEPT ![c] = (0 = 1)]
      BY <1>2, <1>3, PendingIs DEF TypeOK
    <2>2. (0 = 1) = FALSE
      OBVIOUS
    <2> QED
      BY <2>1, <2>2
  <1>7. Late' = Late
    BY DEF ReceiveInt, Late
  <1> QED
    BY <1>2, <1>3, <1>4, <1>5, <1>6, <1>7 DEF Abstract!TakeInterrupt

\* The receiver takes a message.
LEMMA UnlinkStep ==
    ASSUME IInv, RInv, TypeOK', ReceiveTake, pc' = "user"
    PROVE  \E r \in Procs, s \in Procs \cup {ANY} : Abstract!Take(r, s)
  <1>1. PICK c \in Procs : c = caller
    BY CallerRuns DEF ReceiveTake
  <1>2. /\ Abstract!Runs(c) /\ TypeOK /\ p_flags[c] = {} /\ TakeAsserts /\ TakeOK
        /\ peer \in Procs \cup {ANY} /\ pc = "take" /\ buf[c].source = c
    BY <1>1, CallerRuns DEF ReceiveTake, Fail, IInv, Inv1, Inv2, CallOK, ReceivePcs, RInv,
                            BuffersOK, Own
  <1>3. PICK f \in Procs : f = From
    BY <1>1, <1>2 DEF From, TakeAsserts, TypeOK
  <1>4. PICK s \in Procs \cup {ANY} : s = peer
    BY <1>2
  <1>5. PICK i \in DOMAIN Queue[c] :
           /\ Abstract!Oldest(c, s, i) /\ Queue[c][i] = buf[f]
           /\ Queue' = [Queue EXCEPT ![c] = SubSeq(@, 1, i - 1) \o SubSeq(@, i + 1, Len(@))]
    BY <1>1, <1>3, <1>4, TakeStep DEF IInv, RInv
  <1>6. f # c /\ p_flags[f] = {"SENDING"} /\ buf[f].source = f
    BY <1>1, <1>2, <1>3 DEF TakeAsserts, RInv, BuffersOK, Sending, Sent, Own
  <1>7. /\ buf' = [buf EXCEPT ![c] = buf[f]]
        /\ p_flags' = [p_flags EXCEPT ![f] = {}]
        /\ UNCHANGED <<p_recvfrom, has_int_msg, p_proc_ready, fault>>
    BY <1>1, <1>2, <1>3, <1>6 DEF ReceiveTake, Return
  <1>8. Waits' = Waits
    BY <1>2, <1>6, <1>7, WaitsStay DEF Receiving, TypeOK
  <1>9. Inbox' = [Inbox EXCEPT ![c] = Queue[c][i]]
    <2>1. /\ Hand(c)' /\ buf'[c] = Queue[c][i] /\ ~Hand(f) /\ ~Hand(f)'
          /\ \A p \in Procs \ {c, f} : Hand(p)' = Hand(p)
          /\ \A p \in Procs \ {c} : buf'[p] = buf[p]
      BY <1>2, <1>5, <1>6, <1>7 DEF Hand, TypeOK
    <2> QED
      BY <2>1, InboxIs
  <1>10. Late' = Late
    BY DEF ReceiveTake, Late
  <1>11. Abstract!Take(c, s)
    BY <1>2, <1>5, <1>7, <1>8, <1>9, <1>10 DEF Abstract!Take
  <1> QED
    BY <1>11

\* The receiver finds nothing to take.
LEMMA MarkStep ==
    ASSUME IInv, RInv, Queue' = Queue, ReceiveMark
    PROVE  \E r \in Procs, s \in Procs \cup {ANY, INTERRUPT} : Abstract!Wait(r, s)
  <1>1. PICK c \in Procs : c = caller
    BY CallerRuns DEF ReceiveMark
  <1>2. /\ Abstract!Runs(c) /\ TypeOK /\ p_flags[c] = {} /\ buf[c].source = c
        /\ peer \in (Procs \cup {ANY, INTERRUPT}) \ {c}
    BY <1>1, CallerRuns DEF ReceiveMark, IInv, Inv1, CallOK, ReceivePcs, RInv, BuffersOK,
                            Own
  <1>3. PICK s \in (Procs \cup {ANY, INTERRUPT}) \ {c} : s = peer
    BY <1>2
  <1>4. ASSUME NEW i \in DOMAIN Queue[c] PROVE ~Abstract!Oldest(c, s, i)
    <2>1. Queue[c][i].source \in Linked(c)
      <3>1. Queue[c][i].source \in Abstract!Senders(c)
        BY DEF Abstract!Senders
      <3> QED
        BY <3>1, <1>2, SendersAre DEF RInv
    <2>2. s \notin {ANY, Queue[c][i].source}
      BY <1>1, <1>3, <2>1 DEF ReceiveMark, IInv, Inv4, Linked
    <2> QED
      BY <2>2 DEF Abstract!Oldest
  <1>5. /\ p_flags' = [p_flags EXCEPT ![c] = {"RECEIVING"}]
        /\ p_recvfrom' = [p_recvfrom EXCEPT ![c] = IF s = INTERRUPT THEN NilPid ELSE s]
        /\ UNCHANGED <<has_int_msg, p_proc_ready, buf, fault>>
    BY <1>1, <1>2, <1>3 DEF ReceiveMark
  <1>6. Waits' = [Waits EXCEPT ![c] = s]
    BY <1>2, <1>5, WaitsAre, Pids DEF Receiving, TypeOK
  <1>7. Inbox' = Inbox
    BY <1>2, <1>5, InboxStays DEF Hand, TypeOK
  <1>8. Late' = Late
    BY DEF ReceiveMark, Late
  <1>9. Abstract!Wait(c, s)
    BY <1>2, <1>3, <1>4, <1>5, <1>6, <1>7, <1>8 DEF Abstract!Wait
  <1> QED
    BY <1>9

\* The copy to a driver that the interrupt has woken ends.
LEMMA SpoilStep ==
    ASSUME IInv, RInv, Queue' = Queue, SendAddress \/ SendCopy, ~Receiving(peer)
    PROVE  Abstract!Spoil
  <1>1. /\ pc \in {"address", "copy"} /\ peer = HD /\ TypeOK
        /\ p_flags[HD] = {} /\ p_msg[HD] = 0
    BY DEF SendAddress, SendCopy, RInv, BuffersOK, IInv, Inv1, CallOK, SendPcs, Shape,
           Receiving
  <1>2. PICK c \in Procs \ {HD} : c = caller
    BY <1>1 DEF IInv, Inv1, CallOK, SendPcs
  <1>3. buf[c].source = c /\ buf[c].type \in Types
    BY <1>1, <1>2 DEF RInv, BuffersOK, SendPcs, Sent, Own
  <1>4. Late = c /\ c # NOBODY /\ Late' = NOBODY
    <2>1. pc' = "clear"
      BY <1>1 DEF SendAddress, SendCopy
    <2> QED
      BY <1>1, <1>2, <2>1, Pids DEF Late, NOBODY
  <1>5. UNCHANGED <<p_flags, p_recvfrom, has_int_msg, p_proc_ready, fault>>
    BY DEF SendAddress, SendCopy, procVars
  <1>6. Waits' = Waits
    BY <1>5, WaitsStay DEF Receiving
  <1>7. CASE SendAddress
    <2>1. Inbox' = Inbox
      BY <1>5, <1>7, InboxStays DEF SendAddress, Hand
    <2> QED
      BY <1>4, <1>5, <1>6, <2>1 DEF Abstract!Spoil
  <1>8. CASE SendCopy
    <2>1. PICK m \in Mixed(buf[c]) : buf' = [buf EXCEPT ![HD] = m]
      BY <1>1, <1>2, <1>8 DEF SendCopy, Copied
    <2>2. buf[c] = [source |-> c, type |-> buf[c].type]
      BY <1>1, <1>3 DEF TypeOK, Messages
    <2>3. m \in Abstract!Mixed(c, buf[c].type)
      BY <2>1, <2>2 DEF Mixed, Abstract!Mixed, IntMsg, Abstract!IntMsg
    <2>4. m.source # HD
      BY <1>3, <2>1, Pids DEF Mixed, IntMsg
    <2>5. Hand(HD)' /\ buf'[HD] = m /\ \A p \in Procs \ {HD} : Hand(p)' = Hand(p) /\ buf'[p] = buf[p]
      BY <1>1, <1>5, <2>1, <2>4, Pids DEF Hand, TypeOK
    <2>6. Inbox' = [Inbox EXCEPT ![HD] = m]
      BY <2>5, InboxIs
    <2> QED
      BY <1>3, <1>4, <1>5, <1>6, <2>3, <2>6 DEF Abstract!Spoil
  <1> QED
    BY <1>7, <1>8

\* The disk interrupts.  When it wakes a driver that a sender is about to wake,
\* it is the sender's message that the driver finds.
LEMMA InterruptStep ==
    ASSUME IInv, RInv, Queue' = Queue, HdInterrupt
    PROVE  \/ Abstract!Interrupt
           \/ \E p, d \in Procs, t \in Types : Abstract!Deliver(p, d, t)
  <1>1. TypeOK /\ pc # "halt" /\ Shape(HD) /\ HD \in Procs
    BY Pids DEF IInv, Inv1, HdInterrupt
  <1>2. CASE ~(Receiving(HD) /\ p_recvfrom[HD] = ANY)
    <2>1. /\ has_int_msg' = [has_int_msg EXCEPT ![HD] = 1]
          /\ UNCHANGED <<p_flags, p_recvfrom, buf, p_proc_ready, fault>>
      BY <1>1, <1>2, Pids DEF HdInterrupt, NoteInterrupt, TypeOK
    <2>2. Waits' = Waits /\ Inbox' = Inbox
      BY <2>1, WaitsStay, InboxStays DEF Receiving, Hand
    <2>3. Waits[HD] # ANY
      BY <1>1, <1>2, WaitsAre, Pids DEF NOBODY
    <2>4. [p \in Procs |-> has_int_msg'[p] = 1]
             = [[p \in Procs |-> has_int_msg[p] = 1] EXCEPT ![HD] = TRUE]
      BY <1>1, <2>1, PendingIs DEF TypeOK
    <2>5. Late' = Late
      BY <1>1, <1>2, <2>1, Pids DEF HdInterrupt, TypeOK, Late, Receiving, callVars
    <2> QED
      BY <2>1, <2>2, <2>3, <2>4, <2>5 DEF Abstract!Interrupt
  <1>3. CASE Receiving(HD) /\ p_recvfrom[HD] = ANY
    <2>1. /\ p_flags[HD] = {"RECEIVING"} /\ p_sendto[HD] = NO_TASK
          /\ p_msg[HD] # 1 => pc = "wake" /\ HD = peer
          /\ p_msg[HD] \in {0, 1}
      BY <1>1, <1>3 DEF Shape, Receiving, TypeOK
    <2>2. /\ p_flags' = [p_flags EXCEPT ![HD] = {}]
          /\ p_recvfrom' = [p_recvfrom EXCEPT ![HD] = NO_TASK]
          /\ has_int_msg' = [has_int_msg EXCEPT ![HD] = 0]
          /\ buf' = IF p_msg[HD] # 0 THEN [buf EXCEPT ![HD] = IntMsg] ELSE buf
          /\ UNCHANGED <<p_proc_ready, fault>>
      BY <1>1, <1>3, <2>1 DEF HdInterrupt
    <2>3. Waits[HD] = ANY
      BY <1>1, <1>3, WaitsAre, Pids
    <2>4. Waits' = [Waits EXCEPT ![HD] = NOBODY]
      BY <1>1, <2>2, WaitsAre DEF Receiving, TypeOK
    <2>5. [p \in Procs |-> has_int_msg'[p] = 1]
             = [[p \in Procs |-> has_int_msg[p] = 1] EXCEPT ![HD] = FALSE]
      <3>1. [p \in Procs |-> has_int_msg'[p] = 1]
               = [[p \in Procs |-> has_int_msg[p] = 1] EXCEPT ![HD] = (0 = 1)]
        BY <1>1, <2>2, PendingIs DEF TypeOK
      <3>2. (0 = 1) = FALSE
        OBVIOUS
      <3> QED
        BY <3>1, <3>2
    <2>6. CASE p_msg[HD] = 1
      <3>1. buf' = [buf EXCEPT ![HD] = IntMsg]
        BY <2>2, <2>6
      <3>2. /\ Hand(HD)' /\ buf'[HD] = Abstract!IntMsg
            /\ \A p \in Procs \ {HD} : Hand(p)' = Hand(p) /\ buf'[p] = buf[p]
        BY <1>1, <2>2, <3>1, Pids DEF Hand, TypeOK, IntMsg, Abstract!IntMsg
      <3>3. Inbox' = [Inbox EXCEPT ![HD] = Abstract!IntMsg]
        BY <1>1, <3>2, InboxIs
      <3>4. Spurious
        BY <1>3, Pids DEF HdInterrupt, IInv, Inv5
      <3>5. Late' \in {NOBODY, p_proc_ready}
        <4>1. UNCHANGED <<pc, caller, peer>>
          BY <1>1, <1>3, <2>1 DEF HdInterrupt, callVars
        <4>2. pc \in {"address", "copy"} => caller = p_proc_ready
          BY DEF IInv, Inv1, CallOK
        <4> QED
          BY <4>1, <4>2 DEF Late
      <3> QED
        BY <2>2, <2>3, <2>4, <2>5, <3>3, <3>4, <3>5 DEF Abstract!Interrupt
    <2>7. CASE p_msg[HD] # 1
      <3>1. pc = "wake" /\ HD = peer /\ buf' = buf
        BY <2>1, <2>2, <2>7
      <3>2. PICK c \in Procs : c = caller
        BY <3>1, CallerRuns
      <3>3. Abstract!Runs(c) /\ c # HD
        BY <3>1, <3>2, CallerRuns DEF IInv, Inv1, CallOK, SendPcs
      <3>4. buf[c].source = c /\ buf[c].type \in Types /\ buf[HD] = buf[c]
        BY <1>3, <3>1, <3>2 DEF RInv, BuffersOK, SendPcs, Sent, Own
      <3>5. buf[c] = [source |-> c, type |-> buf[c].type]
        <4>1. buf[c] \in Messages
          BY <1>1 DEF TypeOK
        <4> QED
          BY <3>4, <4>1 DEF Messages
      <3>6. has_int_msg[HD] = 0
        BY <1>1, <1>3, <3>1 DEF RInv, PendingOK, TypeOK
      <3>7. has_int_msg' = has_int_msg
        BY <1>1, <2>2, <3>6 DEF TypeOK
      <3>8. Inbox' = [Inbox EXCEPT ![HD] = [source |-> c, type |-> buf[c].type]]
        <4>1. Hand(HD)' /\ \A p \in Procs \ {HD} : Hand(p)' = Hand(p) /\ buf'[p] = buf[p]
          BY <1>1, <2>2, <3>1, <3>3, <3>4 DEF Hand, TypeOK
        <4>2. buf'[HD] = [source |-> c, type |-> buf[c].type]
          BY <3>1, <3>4, <3>5
        <4> QED
          BY <1>1, <4>1, <4>2, InboxIs
      <3>9. Late' = Late
        BY <1>1, <1>3, <2>1, <3>1 DEF HdInterrupt, Late
      <3>10. Abstract!Deliver(c, HD, buf[c].type)
        BY <2>2, <2>3, <2>4, <3>3, <3>7, <3>8, <3>9 DEF Abstract!Deliver
      <3> QED
        BY <1>1, <3>4, <3>10
    <2> QED
      BY <2>6, <2>7
  <1> QED
    BY <1>2, <1>3

-----------------------------------------------------------------------------
(* The theorems                                                            *)

LEMMA MapsInit == Init => Abstract!Init
  <1> SUFFICES ASSUME Init PROVE Abstract!Init
    OBVIOUS
  <1>1. TypeOK /\ RInv
    BY Inv1Init, RInit DEF Inv1
  <1>2. Queue = [p \in Procs |-> <<>>]
    <2>1. ASSUME NEW d \in Procs PROVE Queue[d] = <<>>
      <3>1. PICK s \in Seq(Procs) : Chain(s, d)
        BY <1>1 DEF RInv, Chained
      <3>2. Len(s) = 0
        <4>1. Len(s) # 0 => 1 \in 1 .. Len(s) /\ s[1] \in Procs
          OBVIOUS
        <4>2. first_sending[d] = NULL
          BY DEF Init
        <4> QED
          BY <3>1, <4>1, <4>2, Pids DEF Chain
      <3>3. Queue[d] = Said(s, buf)
        BY <1>1, <3>1, QueueIs
      <3> QED
        BY <3>2, <3>3 DEF Said
    <2> QED
      BY <2>1 DEF Queue
  <1>3. Waits = [p \in Procs |-> NOBODY]
    BY WaitsAre DEF Init, Receiving
  <1>4. Inbox = [p \in Procs |-> Abstract!NoMsg]
    BY DEF Init, Inbox, Abstract!NoMsg
  <1>5. [p \in Procs |-> has_int_msg[p] = 1] = [p \in Procs |-> FALSE]
    <2>1. \A p \in Procs : (has_int_msg[p] = 1) = FALSE
      BY DEF Init
    <2> QED
      BY <2>1, Zenon
  <1> QED
    BY <1>2, <1>3, <1>4, <1>5, Pids DEF Abstract!Init, Init, Late

LEMMA MapsStep ==
    IInv /\ RInv /\ IInv' /\ [Next]_vars => [Abstract!Next]_(Abstract!vars)
  <1> SUFFICES ASSUME IInv, RInv, IInv', [Next]_vars PROVE [Abstract!Next]_(Abstract!vars)
    OBVIOUS
  <1>1. TypeOK' /\ TypeOK
    BY DEF IInv, Inv1
  <1>2. ASSUME ~Moves PROVE Queue' = Queue
    BY <1>1, <1>2, QueueQuiet DEF IInv, RInv
  <1>3. CASE Moves
    BY <1>1, <1>3, LinkStep, UnlinkStep DEF Moves, Abstract!Next
  <1>4. CASE Unseen /\ ~Moves
    <2>1. /\ Waits' = Waits /\ Inbox' = Inbox /\ Queue' = Queue /\ Late' = Late
          /\ UNCHANGED <<has_int_msg, p_proc_ready, fault = "deadlock">>
      BY <1>2, <1>4, UnseenStep DEF IInv, RInv
    <2> QED
      BY <2>1 DEF Abstract!vars
  <1>5. CASE ~Moves /\ \/ \E d \in Procs, t \in Types : SysSend(d, t)
                       \/ \E s \in Procs \cup {ANY, INTERRUPT} : SysReceive(s)
    BY <1>2, <1>5, BeginStep DEF Abstract!Next
  <1>6. CASE ~Moves /\ (Preempt \/ (Block /\ pc' # "halt"))
    BY <1>2, <1>6, SwitchStep DEF Abstract!Next
  <1>7. CASE ~Moves /\ DeadlockStep /\ pc' = "halt"
    BY <1>2, <1>7, RefuseStep DEF Abstract!Next
  <1>8. CASE ~Moves /\ SendWake /\ Receiving(peer)
    BY <1>2, <1>8, DeliverStep DEF Abstract!Next
  <1>9. CASE ~Moves /\ ReceiveInt
    BY <1>2, <1>9, TakeIntStep DEF Abstract!Next
  <1>10. CASE ~Moves /\ ReceiveMark
    BY <1>2, <1>10, MarkStep DEF Abstract!Next
  <1>11. CASE ~Moves /\ HdInterrupt
    BY <1>2, <1>11, InterruptStep DEF Abstract!Next
  <1>11a. CASE ~Moves /\ (SendAddress \/ SendCopy) /\ ~Receiving(peer)
    BY <1>2, <1>11a, SpoilStep DEF Abstract!Next
  <1>12. CASE Kernel
    <2>1. SendTail \/ SendEnqueue \/ ReceiveTake => Moves \/ Unseen
      BY DEF Moves, Unseen
    <2>2. (\/ SendMatch \/ SendClear \/ ReceiveCheck
           \/ (SendAddress \/ SendCopy) /\ Receiving(peer)
           \/ ReceiveFromZero \/ ReceiveIntDone \/ ReceiveSearch \/ BlockExit) => Unseen
      BY DEF Unseen
    <2>3. DeadlockStep => pc' = "halt" \/ Unseen
      BY DEF Unseen
    <2>4. SendWake => Receiving(peer) \/ Unseen
      BY DEF Unseen
    <2>5. Block => pc' # "halt" \/ Unseen
      BY DEF Unseen
    <2> HIDE DEF Moves, Unseen
    <2> QED
      BY <1>3, <1>4, <1>6, <1>7, <1>8, <1>9, <1>10, <1>11a, <1>12, <2>1, <2>2, <2>3, <2>4, <2>5
         DEF Kernel
  <1>13. CASE User
    <2>1. HdCmdOut \/ TaskPanic => Unseen
      BY DEF Unseen
    <2> QED
      BY <1>3, <1>4, <1>5, <1>13, <2>1 DEF User
  <1>14. CASE Preempt \/ HdInterrupt
    BY <1>3, <1>6, <1>11, <1>14
  <1>15. CASE Halted \/ UNCHANGED vars
    BY <1>3, <1>4, <1>15 DEF Unseen
  <1> QED
    BY <1>12, <1>13, <1>14, <1>15 DEF Next

\* Each queue is one list of distinct processes, whose buffers say who sends
\* and to whom the kernel's walk leads (process.c 98-121, 185-194, 280-290).
THEOREM RendezvousInvariance == Spec => [](IInv /\ RInv)
  <1>1. Init => IInv /\ RInv
    BY Inv1Init, Inv2Init, Inv3Init, Inv4Init, Inv5Init, RInit
       DEF IInv, Init, AssertionsHold
  <1>2. IInv /\ RInv /\ [Next]_vars => (IInv /\ RInv)'
    BY Inv1Step, Inv2Step, Inv3Step, Inv4Step, Inv5Step, AssertionsStep, RStep DEF IInv
  <1> QED
    BY <1>1, <1>2, PTL DEF Spec

\* Every step of sendrec on the process table, its linked lists, flags and
\* buffers, interrupts in between included, is a step of the rendezvous its
\* callers rely on, or none (process.c 123-321, 349-377).
THEOREM SendrecIsRendezvous == Spec => ImplementsRendezvous
  <1>1. IInv /\ RInv /\ IInv' /\ [Next]_vars => [Abstract!Next]_(Abstract!vars)
    BY MapsStep
  <1> QED
    BY <1>1, MapsInit, RendezvousInvariance, PTL
       DEF Spec, ImplementsRendezvous, Abstract!Spec

-----------------------------------------------------------------------------
(* The loops of a call                                                     *)

\* Where the pointers of next lead from w.
Onward(w, next) ==
    {q \in Procs : \A S \in SUBSET Procs :
        w \in S \cup {NULL} /\ (\A r \in S : next[r] \in S \cup {NULL}) => q \in S}

SentTo == [p \in Procs |-> IF Sending(p) THEN p_sendto[p] ELSE NULL]

\* What the loop that is running can still visit.
Loops   == {"deadlock", "tail", "search"}
ToVisit == IF pc = "deadlock" THEN Onward(walk, SentTo)
           ELSE IF pc \in Loops THEN Onward(walk, next_sending) ELSE {}

\* Every turn of a loop leaves a process behind for good, and an interrupt in
\* between gives it none to visit that it had not.
TurnsShrink ==
    [][\/ pc \notin Loops \/ pc' # pc
       \/ ToVisit' = ToVisit /\ walk' = walk
       \/ ToVisit' \subseteq ToVisit \ {walk} /\ walk \in ToVisit]_vars

\* Where the pointers lead into no circle, one step ahead leads to less.
LEMMA OnwardShrinks ==
    ASSUME NEW next, NEW M \in SUBSET Procs, NEW w \in M,
           \A q \in M : next[q] \in M \cup {NULL},
           \A C \in SUBSET M : C # {} => \E q \in C : next[q] \notin C
    PROVE  Onward(next[w], next) \subseteq Onward(w, next) \ {w} /\ w \in Onward(w, next)
  <1>1. NULL \notin Procs
    BY Pids
  <1>2. Onward(next[w], next) \subseteq Onward(w, next)
    BY <1>1 DEF Onward
  <1>3. \A q \in Procs : q \in Onward(q, next)
    BY <1>1 DEF Onward
  <1>4. ASSUME w \in Onward(next[w], next) PROVE FALSE
    <2> DEFINE C == {q \in M : w \in Onward(q, next)}
    <2>1. C \in SUBSET M /\ C # {}
      BY <1>3
    <2>2. Onward(NULL, next) = {}
      <3>1. {} \in SUBSET Procs /\ NULL \in {} \cup {NULL}
        OBVIOUS
      <3> QED
        BY <3>1 DEF Onward
    <2>3. ASSUME NEW q \in C PROVE next[q] \in C
      <3>1. w \in Onward(next[q], next)
        <4>1. CASE q = w
          BY <1>4, <4>1
        <4>2. CASE q # w
          <5> SUFFICES ASSUME NEW S \in SUBSET Procs, next[q] \in S \cup {NULL},
                              \A r \in S : next[r] \in S \cup {NULL}
                       PROVE  w \in S
            BY DEF Onward
          <5> DEFINE T == S \cup {q}
          <5>1. T \in SUBSET Procs /\ q \in T \cup {NULL} /\ \A r \in T : next[r] \in T \cup {NULL}
            OBVIOUS
          <5>2. w \in T
            BY <5>1 DEF Onward
          <5> QED
            BY <4>2, <5>2
        <4> QED
          BY <4>1, <4>2
      <3>2. next[q] # NULL
        BY <2>2, <3>1
      <3> QED
        BY <3>1, <3>2
    <2> HIDE DEF C
    <2> QED
      BY <2>1, <2>3
  <1> QED
    BY <1>2, <1>3, <1>4

\* No list runs into a circle.
LEMMA ListEnds ==
    ASSUME Chained, NEW d \in Procs, NEW C \in SUBSET Linked(d), C # {}
    PROVE  \E q \in C : next_sending[q] \notin C
  <1>1. PICK s \in Seq(Procs) : Chain(s, d)
    BY DEF Chained
  <1> DEFINE n == Len(s)
             T == {k \in 0 .. n : \E i \in 1 .. n : i = n - k /\ s[i] \in C}
  <1>2. /\ n \in Nat
        /\ \A q \in Linked(d) : \E i \in 1 .. n : s[i] = q
        /\ \A i, j \in 1 .. n : s[i] = s[j] => i = j
        /\ \A i \in 1 .. n : next_sending[s[i]] = IF i = n THEN NULL ELSE s[i + 1]
        /\ NULL \notin C
    BY <1>1, Pids DEF Chain, Linked
  <1> HIDE DEF n, Linked
  <1>3. T # {} /\ T \subseteq Nat
    <2>1. PICK q : q \in C
      OBVIOUS
    <2>2. PICK i \in 1 .. n : s[i] = q
      BY <1>2, <2>1
    <2>3. n - i \in 0 .. n /\ i = n - (n - i)
      BY <1>2
    <2>4. n - i \in T
      BY <2>1, <2>2, <2>3
    <2>5. 0 .. n \subseteq Nat
      BY <1>2
    <2>6. T \subseteq 0 .. n
      OBVIOUS
    <2> HIDE DEF T
    <2> QED
      BY <2>4, <2>5, <2>6
  <1>4. PICK k \in T : \A l \in T : k <= l
    <2> HIDE DEF T
    <2> QED
      BY <1>3, LeastNat
  <1>5. PICK i \in 1 .. n : i = n - k /\ s[i] \in C
    BY <1>4
  <1>6. next_sending[s[i]] \notin C
    <2>1. CASE i = n
      BY <1>2, <2>1
    <2>2. CASE i # n
      <3>1. i + 1 \in 1 .. n /\ k \in 0 .. n
        BY <1>2, <1>4, <1>5, <2>2
      <3>2. ASSUME s[i + 1] \in C PROVE FALSE
        <4>1. k - 1 \in 0 .. n /\ i + 1 = n - (k - 1)
          BY <1>2, <1>5, <3>1
        <4>2. k - 1 \in T
          BY <3>1, <3>2, <4>1
        <4>3. k <= k - 1
          BY <1>4, <4>2
        <4> QED
          BY <3>1, <4>3
      <3> QED
        BY <1>2, <2>2, <3>2
    <2> QED
      BY <2>1, <2>2
  <1> QED
    BY <1>5, <1>6

\* The loops that follow next_sending.
LEMMA ListTurn ==
    ASSUME IInv, RInv, NEW d \in Procs, walk \in Linked(d)
    PROVE  /\ Onward(next_sending[walk], next_sending) \subseteq Onward(walk, next_sending) \ {walk}
           /\ walk \in Onward(walk, next_sending)
  <1>1. Linked(d) \in SUBSET Procs
    BY DEF Linked
  <1>2. \A q \in Linked(d) : next_sending[q] \in Linked(d) \cup {NULL}
    BY DEF IInv, Inv2, QueueInv, IsList
  <1>3. \A C \in SUBSET Linked(d) : C # {} => \E q \in C : next_sending[q] \notin C
    BY ListEnds DEF RInv
  <1> HIDE DEF Linked
  <1> QED
    BY <1>1, <1>2, <1>3, OnwardShrinks

\* The loop that follows p_sendto.
LEMMA DeadlockTurn ==
    ASSUME IInv, walk \in Procs, Sending(walk)
    PROVE  /\ Onward(p_sendto[walk], SentTo) \subseteq Onward(walk, SentTo) \ {walk}
           /\ walk \in Onward(walk, SentTo)
  <1>1. \A q \in Procs : SentTo[q] \in Procs \cup {NULL}
    <2> SUFFICES ASSUME NEW q \in Procs, Sending(q) PROVE p_sendto[q] \in Procs
      BY DEF SentTo
    <2>1. Shape(q)
      BY DEF IInv, Inv1
    <2> QED
      BY <2>1 DEF Shape, Sending
  <1>2. \A C \in SUBSET Procs : C # {} => \E q \in C : SentTo[q] \notin C
    BY Pids DEF IInv, Inv3, NoSendCycle, SentTo
  <1>3. SentTo[walk] = p_sendto[walk]
    BY DEF SentTo
  <1> DEFINE next == SentTo
  <1>4. /\ Onward(next[walk], next) \subseteq Onward(walk, next) \ {walk}
        /\ walk \in Onward(walk, next)
    <2>1. /\ \A q \in Procs : next[q] \in Procs \cup {NULL}
          /\ \A C \in SUBSET Procs : C # {} => \E q \in C : next[q] \notin C
      BY <1>1, <1>2
    <2> HIDE DEF next
    <2> QED
      BY <2>1, OnwardShrinks
  <1> QED
    BY <1>3, <1>4

LEMMA TurnStep ==
    ASSUME IInv, RInv, Next, pc \in Loops, pc' = pc
    PROVE  \/ ToVisit' = ToVisit /\ walk' = walk
           \/ ToVisit' \subseteq ToVisit \ {walk} /\ walk \in ToVisit
  <1>1. CASE HdInterrupt
    <2>1. UNCHANGED <<p_sendto, next_sending, walk>> /\ \A p \in Procs : Sending(p)' = Sending(p)
      BY <1>1 DEF HdInterrupt, Sending, listVars, IInv, Inv1, TypeOK
    <2>2. SentTo' = SentTo
      BY <2>1 DEF SentTo
    <2> QED
      BY <2>1, <2>2 DEF ToVisit, Onward
  <1>2. CASE DeadlockStep
    <2>1. /\ pc = "deadlock" /\ Sending(walk) /\ walk' = p_sendto[walk] /\ walk \in Procs
          /\ UNCHANGED <<p_flags, p_sendto>>
      BY <1>2 DEF DeadlockStep, WalkEnds, Fail, procVars, IInv, Inv1, CallOK
    <2>2. SentTo' = SentTo
      BY <2>1 DEF SentTo, Sending
    <2>3. ToVisit = Onward(walk, SentTo) /\ ToVisit' = Onward(p_sendto[walk], SentTo)
      BY <2>1, <2>2 DEF ToVisit, Onward
    <2> QED
      BY <2>1, <2>3, DeadlockTurn
  <1>3. CASE SendTail \/ ReceiveSearch
    <2>1. /\ pc \in {"tail", "search"} /\ walk' = next_sending[walk]
          /\ UNCHANGED next_sending
          /\ \E d \in Procs : walk \in Linked(d)
      <3>1. CASE SendTail
        BY <1>3, <3>1 DEF SendTail, IInv, Inv1, Inv2, CallOK, SendPcs
      <3>2. CASE ReceiveSearch
        BY <1>3, <3>2 DEF ReceiveSearch, Fail, IInv, Inv1, Inv2, CallOK, SearchOK, listVars
      <3> QED
        BY <1>3, <3>1, <3>2
    <2>2. /\ ToVisit = Onward(walk, next_sending)
          /\ ToVisit' = Onward(next_sending[walk], next_sending)
      BY <2>1 DEF ToVisit, Loops, Onward
    <2> QED
      BY <2>1, <2>2, ListTurn
  <1>4. HdInterrupt \/ DeadlockStep \/ SendTail \/ ReceiveSearch
    BY DEF Loops, Next, User, Kernel, Preempt, Halted, SysSend, SysReceive, MayCall, HdCmdOut,
           TaskPanic, SendMatch, SendAddress, SendCopy, SendClear, SendWake, SendEnqueue, ReceiveCheck,
           ReceiveFromZero, ReceiveInt, ReceiveIntDone, ReceiveTake, ReceiveMark, Block, BlockExit,
           Fail
  <1> QED
    BY <1>1, <1>2, <1>3, <1>4

\* The loops of deadlock(), of the walk to the tail and of the search for a
\* named sender (process.c 100-119, 187, 258-266) end after at most NProc turns,
\* however long the queues and whatever interrupts come: the safety half of
\* CallsEnd.
THEOREM LoopsAdvance == Spec => TurnsShrink
  <1>1. IInv /\ RInv /\ [Next]_vars
          => [\/ pc \notin Loops \/ pc' # pc
              \/ ToVisit' = ToVisit /\ walk' = walk
              \/ ToVisit' \subseteq ToVisit \ {walk} /\ walk \in ToVisit]_vars
    BY TurnStep
  <1> QED
    BY <1>1, RendezvousInvariance, PTL DEF Spec, TurnsShrink
=============================================================================
