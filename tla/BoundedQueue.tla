---------------------------- MODULE BoundedQueue ----------------------------
(***************************************************************************)
(* What a ring buffer between an interrupt handler and its reader          *)
(* promises: what is put while there is room is got once, in order, and    *)
(* what is put when there is none is dropped.                              *)
(***************************************************************************)
EXTENDS Naturals, Sequences

CONSTANTS Size, Items
VARIABLE q

Init == q = <<>>

Put(x) == Len(q) < Size /\ q' = Append(q, x)
Get    == q # <<>> /\ q' = Tail(q)

\* A drop is a stuttering step.
Next == Get \/ \E x \in Items : Put(x)

Spec == Init /\ [][Next]_q
=============================================================================
