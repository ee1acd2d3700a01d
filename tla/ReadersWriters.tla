--------------------------- MODULE ReadersWriters ---------------------------
(***************************************************************************)
(* src/mutual_exclusion/lin_readers_writers.c: writers increment a shared  *)
(* integer and readers print it, under four System V semaphores, until     *)
(* SIGINT.                                                                 *)
(*                                                                         *)
(* A semop on several semaphores is applied as a whole or, when one of its *)
(* operations has to wait, not at all: a process that waits leaves no      *)
(* trace in WAIT_WRITERS or WAIT_READERS.  SIGINT goes to every process of *)
(* the group and reaches each at its own time; it sets sig_status there,   *)
(* makes a sleeping semop fail (EINTR), upon which the process exits, and  *)
(* restarts wait.  The integer is kept modulo ValueLimit, and the user     *)
(* sends at most SigintLimit signals.                                      *)
(*                                                                         *)
(* A definition named Faulty_X is X with a plausible bug; no specification *)
(* uses it, it serves to show that the properties notice the bug.          *)
(***************************************************************************)
EXTENDS Integers, FiniteSets

CONSTANTS WRITERS_AMOUNT, READERS_AMOUNT, ValueLimit, SigintLimit

ASSUME ReadersWritersAssumption ==
    /\ WRITERS_AMOUNT \in Nat /\ READERS_AMOUNT \in Nat
    /\ ValueLimit \in Nat \ {0, 1} /\ SigintLimit \in Nat

\* main forks the writers first; it is a process of the group as well.
Children == 0 .. WRITERS_AMOUNT + READERS_AMOUNT - 1
Writers  == 0 .. WRITERS_AMOUNT - 1
Readers  == Children \ Writers
Main     == WRITERS_AMOUNT + READERS_AMOUNT

VARIABLES
    active_readers, active_writers, wait_readers, wait_writers,   \* semaphores
    shm,            \* the shared integer
    written,        \* how many increments writers have stored, modulo ValueLimit
    pc, reg,        \* where each child stands; what a writer loaded, until it has stored
    sig_status,     \* of each process
    pending,        \* the processes SIGINT was sent to and has not reached
    sent,           \* how often it was sent
    main, forked    \* where main stands; the children it forked so far

sems  == <<active_readers, active_writers, wait_readers, wait_writers>>
group == <<sig_status, pending, sent, main, forked>>
vars  == <<sems, shm, written, pc, reg, group>>

Init ==
    /\ active_readers = 0 /\ active_writers = 0
    /\ wait_readers = 1 /\ wait_writers = 0
    /\ shm = 0 /\ written = 0
    /\ pc = [p \in Children |-> "unborn"]
    /\ reg = [p \in Children |-> 0]
    /\ sig_status = [p \in Children \union {Main} |-> FALSE]
    /\ pending = {} /\ sent = 0
    /\ main = "fork" /\ forked = 0

Goto(p, here, there) == pc[p] = here /\ pc' = [pc EXCEPT ![p] = there]

-----------------------------------------------------------------------------
\* while (!sig_status): another iteration or exit(0).
Loop(p) ==
    /\ Goto(p, "loop", IF sig_status[p] THEN "exited" ELSE "enter")
    /\ UNCHANGED <<sems, shm, written, reg, group>>

\* start_write and start_read: the increment of a WAIT semaphore and its
\* decrement belong to the same semop.
Faulty_MayWrite == active_writers = 0               \* readers are not looked at
Faulty_MayWriteTogether == active_readers = 0       \* writers are not looked at
MayWrite == active_readers = 0 /\ active_writers = 0
MayRead  == active_writers = 0 /\ wait_writers = 0
MayEnter(p) == IF p \in Writers THEN MayWrite ELSE MayRead

StartWrite(p) ==
    /\ p \in Writers /\ pc[p] \in {"enter", "asleep"} /\ MayWrite
    /\ active_writers' = active_writers + 1
    /\ pc' = [pc EXCEPT ![p] = "load"]
    /\ UNCHANGED <<active_readers, wait_readers, wait_writers, shm, written, reg, group>>

StartRead(p) ==
    /\ p \in Readers /\ pc[p] \in {"enter", "asleep"} /\ MayRead
    /\ active_readers' = active_readers + 1
    /\ pc' = [pc EXCEPT ![p] = "print"]
    /\ UNCHANGED <<active_writers, wait_readers, wait_writers, shm, written, reg, group>>

\* The semop has to wait.
Sleep(p) ==
    /\ Goto(p, "enter", "asleep")
    /\ ~MayEnter(p)
    /\ UNCHANGED <<sems, shm, written, reg, group>>

\* (*shm)++ is a load and a store.
Load(p) ==
    /\ Goto(p, "load", "store")
    /\ reg' = [reg EXCEPT ![p] = shm]
    /\ UNCHANGED <<sems, shm, written, group>>
Store(p) ==
    /\ Goto(p, "store", "stop")
    /\ shm' = (reg[p] + 1) % ValueLimit
    /\ written' = (written + 1) % ValueLimit
    /\ reg' = [reg EXCEPT ![p] = 0]
    /\ UNCHANGED <<sems, group>>

\* printf of *shm by a reader: nothing keeps what it read.
ReadValue(p) ==
    /\ Goto(p, "print", "stop")
    /\ UNCHANGED <<sems, shm, written, reg, group>>

\* stop_write and stop_read never wait; the nap that follows is left out.
StopWrite(p) ==
    /\ p \in Writers
    /\ Goto(p, "stop", "loop")
    /\ active_writers > 0
    /\ active_writers' = active_writers - 1
    /\ UNCHANGED <<active_readers, wait_readers, wait_writers, shm, written, reg, group>>
StopRead(p) ==
    /\ p \in Readers
    /\ Goto(p, "stop", "loop")
    /\ active_readers > 0
    /\ active_readers' = active_readers - 1
    /\ UNCHANGED <<active_writers, wait_readers, wait_writers, shm, written, reg, group>>

Child(p) ==
    \/ Loop(p) \/ StartWrite(p) \/ StartRead(p) \/ Sleep(p)
    \/ Load(p) \/ Store(p) \/ ReadValue(p) \/ StopWrite(p) \/ StopRead(p)

-----------------------------------------------------------------------------
\* main forks the next child, which inherits sig_status; the kernel has a signal
\* that is pending handled before it forks.
Fork ==
    /\ main = "fork" /\ forked \in Children /\ Main \notin pending
    /\ pc' = [pc EXCEPT ![forked] = "loop"]
    /\ sig_status' = [sig_status EXCEPT ![forked] = sig_status[Main]]
    /\ forked' = forked + 1
    /\ UNCHANGED <<sems, shm, written, reg, pending, sent, main>>

\* fork fails: main exits and leaves its children to themselves.
ForkFails ==
    /\ main = "fork" /\ forked \in Children
    /\ main' = "failed"
    /\ pending' = pending \ {Main}
    /\ UNCHANGED <<sems, shm, written, pc, reg, sig_status, sent, forked>>

\* Every child was waited for: the shared memory is removed.
Remove ==
    /\ main = "fork" /\ forked = Main
    /\ \A p \in Children : pc[p] = "exited"
    /\ main' = "removed"
    /\ pending' = pending \ {Main}
    /\ UNCHANGED <<sems, shm, written, pc, reg, sig_status, sent, forked>>

\* SIGINT is sent to the processes there are.
Alive == {p \in Children : pc[p] \notin {"unborn", "exited"}}
         \union (IF main = "fork" THEN {Main} ELSE {})
Interrupt ==
    /\ sent < SigintLimit /\ sent' = sent + 1
    /\ pending' = pending \union Alive
    /\ UNCHANGED <<sems, shm, written, pc, reg, sig_status, main, forked>>

\* It reaches process p: set_status runs, and a semop that sleeps fails.
Faulty_Deliver(p) ==            \* the semop is restarted, sig_status is not set
    /\ p \in pending
    /\ pending' = pending \ {p}
    /\ UNCHANGED <<sems, shm, written, pc, reg, sig_status, sent, main, forked>>
Faulty_DeliverExits(p) ==       \* set_status exits at once, wherever p stands
    /\ p \in pending
    /\ pending' = pending \ {p}
    /\ sig_status' = [sig_status EXCEPT ![p] = TRUE]
    /\ pc' = IF p \in Children THEN [pc EXCEPT ![p] = "exited"] ELSE pc
    /\ UNCHANGED <<sems, shm, written, reg, sent, main, forked>>
Deliver(p) ==
    /\ p \in pending
    /\ pending' = pending \ {p}
    /\ sig_status' = [sig_status EXCEPT ![p] = TRUE]
    /\ pc' = IF p \in Children /\ pc[p] = "asleep" THEN [pc EXCEPT ![p] = "exited"] ELSE pc
    /\ UNCHANGED <<sems, shm, written, reg, sent, main, forked>>

\* All processes have exited.
Terminated ==
    /\ main # "fork"
    /\ \A p \in Children : pc[p] \in {"unborn", "exited"}
    /\ UNCHANGED vars

Next == \/ \E p \in Children : Child(p)
        \/ Fork \/ ForkFails \/ Remove
        \/ Interrupt \/ Terminated
        \/ \E p \in Children \union {Main} : Deliver(p)

Spec == Init /\ [][Next]_vars
\* The kernel runs every process that can run and delivers what it has sent.
Fairness == /\ \A p \in Children : WF_vars(Child(p))
            /\ \A p \in Children \union {Main} : WF_vars(Deliver(p))
            /\ WF_vars(Fork \/ Remove)
FairSpec == Spec /\ Fairness
-----------------------------------------------------------------------------
\* Values of the state.
TypeOK ==
    /\ active_readers \in Nat /\ active_writers \in Nat
    /\ wait_readers \in Nat /\ wait_writers \in Nat
    /\ shm \in 0 .. ValueLimit - 1 /\ written \in 0 .. ValueLimit - 1
    /\ pc \in [Children -> {"unborn", "loop", "enter", "asleep", "load", "store", "print",
                            "stop", "exited"}]
    /\ reg \in [Children -> 0 .. ValueLimit - 1]
    /\ sig_status \in [Children \union {Main} -> BOOLEAN]
    /\ pending \subseteq Children \union {Main}
    /\ sent \in 0 .. SigintLimit
    /\ main \in {"fork", "failed", "removed"}
    /\ forked \in Children \union {Main}

\* Between its two semops a child is inside.
Inside(p) == pc[p] \in {"load", "store", "print", "stop"}

\* A writer is inside alone, even when SIGINT kills processes that wait
\* (start_write and start_read).
WriterAlone ==
    \A w \in Writers, p \in Children : Inside(w) /\ Inside(p) => p = w

\* No increment is lost.
NoLostUpdate == shm = written

\* The two ACTIVE semaphores count the children that are inside (start_write,
\* stop_write, start_read, stop_read).
CountersExact ==
    /\ active_writers = Cardinality({p \in Writers : Inside(p)})
    /\ active_readers = Cardinality({p \in Readers : Inside(p)})

\* A child whose semop has to wait waits for another that is inside and will leave, a
\* reader for a writer: no process that SIGINT has ended, in its sleep or between two
\* iterations, has left a semaphore behind that keeps the others out (exit(-1) after
\* a failed semop, and the WAIT semaphores that are raised and lowered in it).
WaitsForSomeoneInside ==
    \A p \in Children :
        pc[p] \in {"enter", "asleep"} /\ ~MayEnter(p) =>
            \E q \in Children : Inside(q) /\ (p \in Readers => q \in Writers)

\* SIGINT ends the program: every child exits, also one that passes the check of
\* sig_status just before the signal and sleeps in its semop after it, and
\* main gets past its waits.
SigintEnds ==
    Main \in pending ~> main # "fork" /\ \A p \in Children : pc[p] \in {"unborn", "exited"}
=============================================================================
