---------------------------- MODULE BoundedQueue ----------------------------
(***************************************************************************)
(* A queue of bounded length: what the shared buffer of                    *)
(* src/mutual_exclusion/lin_consumers_producers.c is to its users.         *)
(***************************************************************************)
EXTENDS Naturals, Sequences

CONSTANTS
    Items,      \* what producers put
    Capacity    \* the most items the queue holds

VARIABLES
    queue,      \* the items put and not yet taken, oldest first
    taken       \* the items taken so far, in order

Init == queue = <<>> /\ taken = <<>>

Put == /\ Len(queue) < Capacity
       /\ \E x \in Items : queue' = Append(queue, x)
       /\ UNCHANGED taken

Get == /\ queue # <<>>
       /\ queue' = Tail(queue)
       /\ taken' = Append(taken, Head(queue))

Spec == Init /\ [][Put \/ Get]_<<queue, taken>>
=============================================================================
