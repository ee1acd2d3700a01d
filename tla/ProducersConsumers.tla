------------------------- MODULE ProducersConsumers -------------------------
(***************************************************************************)
(* src/mutual_exclusion/lin_consumers_producers.c: processes that share a  *)
(* buffer and three System V semaphores.  main forks PROC_AMOUNT producers *)
(* and as many consumers in turns, waits for them and removes the shared   *)
(* memory; each producer puts PRODUCE_NUM items, each consumer takes       *)
(* CONSUME_NUM.                                                            *)
(*                                                                         *)
(* A semop on several semaphores is one atomic step, enabled when every    *)
(* semaphore it decrements is positive.  Between two semops every access   *)
(* to the shared memory is a step of its own; an increment of a position   *)
(* is a load and a store.  A position never wraps around: the slots        *)
(* suffice for all that is ever produced (3 * 6 items, 20 slots).          *)
(*                                                                         *)
(* A definition named Faulty_X is X with a plausible bug; no specification *)
(* uses it, it serves to show that the properties notice the bug.          *)
(***************************************************************************)
EXTENDS Integers, Sequences, FiniteSets

CONSTANTS PROC_AMOUNT, EMPTY_NUM, PRODUCE_NUM, CONSUME_NUM

ASSUME ProducersConsumersAssumption ==
    /\ PROC_AMOUNT \in Nat
    /\ EMPTY_NUM \in Nat \ {0}
    /\ PRODUCE_NUM \in Nat \ {0}
    /\ CONSUME_NUM \in Nat \ {0}
    /\ CONSUME_NUM <= PRODUCE_NUM

\* Child number p is the p-th one main forks: even ones produce.
Children  == 0 .. 2 * PROC_AMOUNT - 1
Producers == {p \in Children : p % 2 = 0}
Consumers == Children \ Producers

VARIABLES
    bin, e, f,      \* SEM_BIN, SEM_E and SEM_F
    rpos, wpos, data,   \* the shared buffer
    taken,          \* the items consumers printed, in order
    pc,             \* where each child stands; "unborn" before its fork
    reg,            \* what each child loaded last
    todo,           \* iterations each child has left
    main, forked    \* where main stands; the children it forked so far

sems == <<bin, e, f>>
buf  == <<rpos, wpos, data>>
vars == <<sems, buf, taken, pc, reg, todo, main, forked>>

Init ==
    /\ bin = 1 /\ e = EMPTY_NUM /\ f = 0
    /\ rpos = 0 /\ wpos = 0
    /\ data = [k \in 0 .. EMPTY_NUM - 1 |-> -1]
    /\ taken = <<>>
    /\ pc = [p \in Children |-> "unborn"]
    /\ reg = [p \in Children |-> 0]
    /\ todo = [p \in Children |-> IF p \in Producers THEN PRODUCE_NUM ELSE CONSUME_NUM]
    /\ main = "fork" /\ forked = 0

Goto(p, here, there) == pc[p] = here /\ pc' = [pc EXCEPT ![p] = there]

-----------------------------------------------------------------------------
\* producer(): semop(prod_start).
Faulty_ProdStart(p) ==          \* the buffer is not locked
    /\ Goto(p, "idle", "load")
    /\ e > 0 /\ bin > 0
    /\ e' = e - 1
    /\ UNCHANGED <<bin, f, buf, taken, reg, todo, main, forked>>
ProdStart(p) ==
    /\ Goto(p, "idle", "load")
    /\ e > 0 /\ bin > 0
    /\ e' = e - 1 /\ bin' = bin - 1
    /\ UNCHANGED <<f, buf, taken, reg, todo, main, forked>>

\* int wpos = shm->wpos
LoadSlot(p) ==
    /\ Goto(p, "load", "write")
    /\ reg' = [reg EXCEPT ![p] = wpos]
    /\ UNCHANGED <<sems, buf, taken, todo, main, forked>>

\* shm->data[wpos] = 'a' + wpos: the item is told by its position.
WriteSlot(p) ==
    /\ Goto(p, "write", "bump")
    /\ data' = [data EXCEPT ![reg[p]] = reg[p]]
    /\ UNCHANGED <<sems, rpos, wpos, taken, reg, todo, main, forked>>

\* shm->wpos++
LoadWpos(p) ==
    /\ p \in Producers
    /\ Goto(p, "bump", "store")
    /\ reg' = [reg EXCEPT ![p] = wpos]
    /\ UNCHANGED <<sems, buf, taken, todo, main, forked>>
StoreWpos(p) ==
    /\ p \in Producers
    /\ Goto(p, "store", "end")
    /\ wpos' = reg[p] + 1
    /\ UNCHANGED <<sems, rpos, data, taken, reg, todo, main, forked>>

\* The loop of the child: another iteration or exit(0).
Faulty_AfterIteration(p) == "idle"      \* one iteration too many
AfterIteration(p) == IF todo[p] = 1 THEN "exited" ELSE "idle"

\* semop(prod_end).
Faulty_ProdEnd(p) ==            \* signals the free slots, not the full ones
    /\ p \in Producers
    /\ Goto(p, "end", AfterIteration(p))
    /\ bin' = bin + 1 /\ e' = e + 1
    /\ todo' = [todo EXCEPT ![p] = @ - 1]
    /\ UNCHANGED <<f, buf, taken, reg, main, forked>>
ProdEnd(p) ==
    /\ p \in Producers
    /\ Goto(p, "end", AfterIteration(p))
    /\ bin' = bin + 1 /\ f' = f + 1
    /\ todo' = [todo EXCEPT ![p] = @ - 1]
    /\ UNCHANGED <<e, buf, taken, reg, main, forked>>

Producer(p) ==
    \/ ProdStart(p) \/ LoadSlot(p) \/ WriteSlot(p)
    \/ LoadWpos(p) \/ StoreWpos(p) \/ ProdEnd(p)

-----------------------------------------------------------------------------
\* consumer(): semop(read_start).
Faulty_ReadStart(p) ==          \* does not wait for an item
    /\ Goto(p, "idle", "read")
    /\ bin > 0
    /\ bin' = bin - 1
    /\ UNCHANGED <<e, f, buf, taken, reg, todo, main, forked>>
ReadStart(p) ==
    /\ Goto(p, "idle", "read")
    /\ f > 0 /\ bin > 0
    /\ f' = f - 1 /\ bin' = bin - 1
    /\ UNCHANGED <<e, buf, taken, reg, todo, main, forked>>

\* The item in slot k; whatever lies there when the slot is beyond data.
Slot(k) == IF k \in DOMAIN data THEN data[k] ELSE -1

\* printf of shm->data[shm->rpos]
ReadSlot(p) ==
    /\ Goto(p, "read", "bump")
    /\ taken' = Append(taken, Slot(rpos))
    /\ UNCHANGED <<sems, buf, reg, todo, main, forked>>

\* shm->rpos++
LoadRpos(p) ==
    /\ p \in Consumers
    /\ Goto(p, "bump", "store")
    /\ reg' = [reg EXCEPT ![p] = rpos]
    /\ UNCHANGED <<sems, buf, taken, todo, main, forked>>
StoreRpos(p) ==
    /\ p \in Consumers
    /\ Goto(p, "store", "end")
    /\ rpos' = reg[p] + 1
    /\ UNCHANGED <<sems, wpos, data, taken, reg, todo, main, forked>>

\* semop(read_end).
ReadEnd(p) ==
    /\ p \in Consumers
    /\ Goto(p, "end", AfterIteration(p))
    /\ bin' = bin + 1 /\ e' = e + 1
    /\ todo' = [todo EXCEPT ![p] = @ - 1]
    /\ UNCHANGED <<f, buf, taken, reg, main, forked>>

Consumer(p) ==
    \/ ReadStart(p) \/ ReadSlot(p) \/ LoadRpos(p) \/ StoreRpos(p) \/ ReadEnd(p)

-----------------------------------------------------------------------------
\* main() forks the next child; after the last it waits.
Fork ==
    /\ main = "fork" /\ forked < 2 * PROC_AMOUNT
    /\ pc' = [pc EXCEPT ![forked] = "idle"]
    /\ forked' = forked + 1
    /\ UNCHANGED <<sems, buf, taken, reg, todo, main>>

\* fork fails: main exits, the children it has go on.
ForkFails ==
    /\ main = "fork" /\ forked < 2 * PROC_AMOUNT
    /\ main' = "failed"
    /\ UNCHANGED <<sems, buf, taken, pc, reg, todo, forked>>

\* Every child was waited for: the shared memory is removed.
Faulty_Remove ==                \* does not wait
    /\ main = "fork" /\ forked = 2 * PROC_AMOUNT
    /\ main' = "removed"
    /\ UNCHANGED <<sems, buf, taken, pc, reg, todo, forked>>
Remove ==
    /\ main = "fork" /\ forked = 2 * PROC_AMOUNT
    /\ \A p \in Children : pc[p] = "exited"
    /\ main' = "removed"
    /\ UNCHANGED <<sems, buf, taken, pc, reg, todo, forked>>

Main == Fork \/ ForkFails \/ Remove

\* All processes have exited.
Terminated ==
    /\ main # "fork"
    /\ \A p \in Children : pc[p] \in {"unborn", "exited"}
    /\ UNCHANGED vars

Next == \/ \E p \in Producers : Producer(p)
        \/ \E p \in Consumers : Consumer(p)
        \/ Main
        \/ Terminated

Spec == Init /\ [][Next]_vars
\* The kernel runs every process that can run.
Fairness == /\ \A p \in Producers : WF_vars(Producer(p))
            /\ \A p \in Consumers : WF_vars(Consumer(p))
            /\ WF_vars(Main)
FairSpec == Spec /\ Fairness
-----------------------------------------------------------------------------
\* Values of the state.
TypeOK ==
    /\ bin \in Nat /\ e \in Nat /\ f \in Nat
    /\ rpos \in Nat /\ wpos \in Nat
    /\ data \in [0 .. EMPTY_NUM - 1 -> Int]
    /\ taken \in Seq(Int)
    /\ pc \in [Children ->
                 {"unborn", "idle", "load", "write", "read", "bump", "store", "end", "exited"}]
    /\ reg \in [Children -> Nat]
    /\ todo \in [Children -> Nat]
    /\ main \in {"fork", "failed", "removed"}
    /\ forked \in 0 .. 2 * PROC_AMOUNT

\* Between its two semops a child is inside.
Inside(p) == pc[p] \in {"load", "write", "read", "bump", "store", "end"}

\* Only one child at a time touches the positions and the slots (SEM_BIN).
MutualExclusion == \A p, q \in Children : Inside(p) /\ Inside(q) => p = q

\* A consumer reads only a slot a producer has filled and no consumer has read
\* (SEM_F against the two positions).
ReadsFilledSlot ==
    \A p \in Consumers : pc[p] = "read" => rpos < wpos /\ Len(taken) = rpos

\* The producers are never more than EMPTY_NUM items ahead (SEM_E).
NeverOverfull == wpos - rpos <= EMPTY_NUM

\* A position stays within data while something is stored or read there: the
\* positions do not wrap, so this needs all that is produced to fit.
SlotsInBounds ==
    \A p \in Children : /\ pc[p] = "write" => reg[p] < EMPTY_NUM
                        /\ pc[p] = "read" => rpos < EMPTY_NUM

\* Every child is gone when main removes the shared memory.
RemovedWhenUnused ==
    main = "removed" => \A p \in Children : ~Inside(p) /\ todo[p] = 0

\* Whichever forks succeed, every child that was started exits: no producer is
\* left waiting for a slot, no consumer for an item.
ChildrenExit == \A p \in Children : pc[p] = "idle" ~> pc[p] = "exited"

\* The buffer is a bounded queue: items are taken once each, in the order they
\* were put.
Q == INSTANCE BoundedQueue WITH
        Items <- 0 .. EMPTY_NUM - 1, Capacity <- EMPTY_NUM,
        queue <- [k \in 1 .. wpos - Len(taken) |-> Slot(Len(taken) + k - 1)]
IsBoundedQueue == Q!Spec
=============================================================================
