------------------------------ MODULE ForkExec ------------------------------
(***************************************************************************)
(* src/fork_exec: five programs that fork two children.  1_fork.c leaves   *)
(* them alone, the others wait for both and print how they ended; the      *)
(* children of 3_exec.c become weight_index.c and triangle_type.c, which   *)
(* wait for what the user types; those of 4_pipe.c and 5_signal.c send     *)
(* their parent a message through a pipe, the latter only when SIGINT has  *)
(* reached them while they slept.                                          *)
(*                                                                         *)
(* SIGINT goes to every process of the group and reaches each at its own   *)
(* time; it ends a process that has no handler, it ends a sleep, and wait  *)
(* and read go on after it.  The user sends at most INTERRUPTS.  A child   *)
(* may be killed at any moment.  Time is left out: a sleep ends some time. *)
(* The messages together fit into the parent's buffer; a write no one is   *)
(* left to read ends the child, which ends there anyway.                   *)
(*                                                                         *)
(* A definition named Faulty_X is X with a plausible bug; no specification *)
(* uses it, it serves to show that the properties notice the bug.          *)
(***************************************************************************)
EXTENDS Naturals, Sequences

CONSTANTS PROC_COUNT, INTERRUPTS

ASSUME ForkAssumption == PROC_COUNT \in Nat \ {0} /\ INTERRUPTS \in Nat

Kids   == 1 .. PROC_COUNT
Parent == 0
Piped  == {"4_pipe", "5_signal"}

VARIABLES
    source,        \* which of the programs
    parent, kid,   \* where each process stands
    kids,          \* how many are forked
    waits,         \* how often wait has returned: i of the second loop
    writeEnd,      \* whether the parent has pipefd[1] open
    written,       \* the children whose messages went through the pipe
    received,      \* what the parent read of it
    status,        \* of each child: whether its sig_status is not 0
    interrupted,   \* the processes SIGINT was sent to and has not reached
    interrupts     \* how often it was sent

pipeVars   == <<writeEnd, written, received>>
signalVars == <<status, interrupted, interrupts>>
forkVars   == <<source, parent, kid, kids, waits, pipeVars, signalVars>>

ForkInit ==
    /\ source \in Piped \union {"1_fork", "2_wait", "3_exec"}
    /\ parent = "start" /\ kid = [i \in Kids |-> "unborn"]
    /\ kids = 0 /\ waits = 0
    /\ writeEnd = FALSE /\ written = <<>> /\ received = <<>>
    /\ status = [i \in Kids |-> FALSE] /\ interrupted = {} /\ interrupts = 0

-----------------------------------------------------------------------------
\* The parent: pipe, which may fail, and in 5_signal.c the handler do_nothing.
Prepare ==
    /\ \/ /\ parent = "start" /\ writeEnd' = (source \in Piped)
          /\ parent' = IF source = "5_signal" THEN "handler" ELSE "fork"
       \/ parent = "start" /\ source \in Piped /\ parent' = "failed" /\ UNCHANGED writeEnd
       \/ parent = "handler" /\ parent' = "fork" /\ UNCHANGED writeEnd
    /\ UNCHANGED <<source, kid, kids, waits, written, received, signalVars>>

\* When fork fails the parent returns and leaves the children it has.
Fork ==
    /\ parent = "fork"
    /\ \/ /\ kids' = kids + 1 /\ kid' = [kid EXCEPT ![kids + 1] = "born"]
          /\ parent' = IF kids + 1 < PROC_COUNT THEN "fork"
                       ELSE IF source = "1_fork" THEN "ended" ELSE "wait"
       \/ parent' = "failed" /\ UNCHANGED <<kid, kids>>
    /\ UNCHANGED <<source, waits, pipeVars, signalVars>>

\* wait returns a child that has ended, whichever it is; the message names
\* children[waits] and is printed with stat_value, which nothing sets.
Wait ==
    /\ parent = "wait"
    /\ \E i \in Kids : kid[i] = "ended" /\ kid' = [kid EXCEPT ![i] = "waited for"]
    /\ waits' = waits + 1
    /\ parent' = IF waits + 1 < PROC_COUNT THEN "wait"
                 ELSE IF source \in Piped THEN "close" ELSE "ended"
    /\ UNCHANGED <<source, kids, pipeVars, signalVars>>

Alive(i) == kid[i] \notin {"unborn", "ended", "waited for"}

\* close(pipefd[1]), then one read, which waits while the pipe is empty and someone
\* could write to it.
Faulty_Close ==                                     \* the parent keeps its end open
    /\ parent = "close" /\ parent' = "read"
    /\ UNCHANGED <<source, kid, kids, waits, pipeVars, signalVars>>

Close ==
    /\ parent = "close" /\ parent' = "read" /\ writeEnd' = FALSE
    /\ UNCHANGED <<source, kid, kids, waits, written, received, signalVars>>

Read ==
    /\ parent = "read" /\ parent' = "ended"
    /\ written # <<>> \/ (~writeEnd /\ \A i \in Kids : ~Alive(i))
    /\ received' = written
    /\ UNCHANGED <<source, kid, kids, waits, writeEnd, written, signalVars>>

ParentStep == Prepare \/ Fork \/ Wait \/ Close \/ Read

-----------------------------------------------------------------------------
\* A child from fork to its end: its handler inc_status, its sleep, its message.
Becomes(i, here, there) == kid[i] = here /\ kid' = [kid EXCEPT ![i] = there]

\* Where it goes from its sleep.  execlp, which may fail, makes it a program that waits
\* in scanf.
AfterSleep(i) ==
    IF source = "3_exec" THEN {"reading", "ended"}
    ELSE IF source = "5_signal" /\ status[i] THEN {"send"} ELSE {"ended"}

KidStep(i) ==
    /\ \/ Becomes(i, "born", CASE source = "4_pipe"   -> "send"
                               [] source = "5_signal" -> "counting"
                               [] OTHER               -> "asleep") /\ UNCHANGED written
       \/ Becomes(i, "counting", "asleep") /\ UNCHANGED written
       \/ Becomes(i, "asleep", "awake") /\ UNCHANGED written
       \/ \E there \in AfterSleep(i) : Becomes(i, "awake", there) /\ UNCHANGED written
       \/ Becomes(i, "send", "ended") /\ written' = Append(written, i)
    /\ UNCHANGED <<source, parent, kids, waits, writeEnd, received, signalVars>>

\* The user types what scanf of weight_index.c or triangle_type.c waits for, or ends the
\* input; the program computes, prints and ends.
UserAnswers(i) ==
    /\ Becomes(i, "reading", "ended")
    /\ UNCHANGED <<source, parent, kids, waits, pipeVars, signalVars>>

KidKilled(i) ==
    /\ Alive(i) /\ kid' = [kid EXCEPT ![i] = "ended"]
    /\ UNCHANGED <<source, parent, kids, waits, pipeVars, signalVars>>

-----------------------------------------------------------------------------
Finished == {"ended", "failed", "killed"}

\* The group has the terminal until the parent has ended.
Interrupt ==
    /\ parent \notin {"start"} \union Finished /\ interrupts < INTERRUPTS
    /\ interrupts' = interrupts + 1
    /\ interrupted' = {i \in Kids : Alive(i)} \union {Parent}
    /\ UNCHANGED <<source, parent, kid, kids, waits, pipeVars, status>>

\* A child has the handler of its parent until it has set its own.
InterruptArrives(p) ==
    /\ p \in interrupted /\ interrupted' = interrupted \ {p}
    /\ IF p = Parent
       THEN /\ parent' = IF parent \in Finished \/ (source = "5_signal" /\ parent # "handler")
                         THEN parent ELSE "killed"
            /\ UNCHANGED <<kid, status>>
       ELSE /\ kid' = [kid EXCEPT ![p] = IF Alive(p) /\ source # "5_signal" THEN "ended"
                                         ELSE IF @ = "asleep" THEN "awake" ELSE @]
            /\ status' = [status EXCEPT ![p] =
                             @ \/ (source = "5_signal" /\ kid[p] # "born")]
            /\ UNCHANGED parent
    /\ UNCHANGED <<source, kids, waits, pipeVars, interrupts>>

ForkNext ==
    \/ ParentStep \/ Interrupt
    \/ \E i \in Kids : KidStep(i) \/ UserAnswers(i) \/ KidKilled(i)
    \/ \E p \in Kids \union {Parent} : InterruptArrives(p)

ForkSpec == ForkInit /\ [][ForkNext]_forkVars

\* The scheduler runs every process that can run; nobody has to send a signal, and no
\* user has to type.
ForkFairSpec ==
    /\ ForkSpec
    /\ WF_forkVars(ParentStep) /\ \A i \in Kids : WF_forkVars(KidStep(i))

-----------------------------------------------------------------------------
\* A parent that has begun ends, unless SIGINT ends it, or it is the one of 3_exec.c and
\* waits for a child that waits for its user; when it ends it has read all that the
\* children have written, whichever of them are killed, reached by SIGINT in their
\* sleep or too late for it: read does not wait for a message no one will send.
ParentHearsAll ==
    <>[](\/ parent \in {"start", "failed", "killed"}
         \/ parent = "ended" /\ (source \in Piped => received = written)
         \/ parent = "wait" /\ \E i \in Kids : kid[i] = "reading")

\* What a message of the loop says, "Потомок с PID = %d завершился": the child whose
\* PID is printed has ended.
NamesEndedChild == \A i \in Kids : i <= waits => kid[i] \in {"ended", "waited for"}

\* The type of the state.
ForkTypeOK ==
    /\ parent \in {"start", "handler", "fork", "wait", "close", "read"} \union Finished
    /\ kid \in [Kids -> {"unborn", "born", "counting", "asleep", "awake", "reading", "send",
                         "ended", "waited for"}]
    /\ kids \in 0 .. PROC_COUNT /\ waits \in 0 .. kids
    /\ writeEnd \in BOOLEAN /\ {written, received} \subseteq Seq(Kids)
    /\ status \in [Kids -> BOOLEAN] /\ interrupted \subseteq Kids \union {Parent}
    /\ interrupts \in 0 .. INTERRUPTS
=============================================================================
