---------------------------- MODULE DaemonLock ----------------------------
(***************************************************************************)
(* src/1_daemon/src/main_thr.c: a daemon that runs once.  It takes a lock  *)
(* on a file, writes its number there and from then on leaves its signals  *)
(* to a thread of its own.                                                 *)
(*                                                                         *)
(* The processes of Procs may each be started, end and be started again.   *)
(* Of the system the model takes: a lock belongs to the file its process   *)
(* opened and goes with the process; flock may fail for another cause than *)
(* a lock held elsewhere, ftruncate and write may fail, and the program    *)
(* tests neither; every other call that fails ends the process.  SIGKILL   *)
(* may come at any moment, SIGHUP, SIGTERM and a third one ("other") too.  *)
(*                                                                         *)
(* A definition named Faulty_X is X with a plausible bug; no specification *)
(* uses it, it serves to show that the properties notice the bug.          *)
(***************************************************************************)
EXTENDS Integers

CONSTANTS Procs, Nobody

ASSUME DaemonAssumption == Nobody \notin Procs

VARIABLES
    daemonPc,       \* where main stands; "none" when there is no process
    signals,        \* those blocked and pending
    locks,          \* who holds the lock
    pidFile,        \* the number in the file, Nobody when it is empty
    unlocked,       \* ghost: the processes that went on without the lock
    unwritten       \* ghost: whether one of these three calls failed unnoticed

ghostly    == <<unlocked, unwritten>>
daemonVars == <<daemonPc, signals, locks, pidFile, ghostly>>

Signals == {"HUP", "TERM", "other"}

\* main and daemonize in their order, but for flock and the writing.
NextPlace == [start     |-> "session",      \* umask, getrlimit, fork: the parent exits
              session   |-> "group",        \* setsid
              group     |-> "ignoring",     \* sigaction(SIGHUP, SIG_IGN)
              ignoring  |-> "root",         \* chdir
              root      |-> "daemon",       \* close, open, dup, openlog
              daemon    |-> "opened",       \* open(LOCKFNAME)
              written   |-> "default",      \* sigaction(SIGHUP, SIG_DFL)
              default   |-> "masked",       \* pthread_sigmask
              masked    |-> "threads"]      \* pthread_create

DaemonPlaces == DOMAIN NextPlace \union {"none", "opened", "locked", "truncated", "threads"}

\* The places of a process that has passed already_running's flock.
Past == {"locked", "truncated", "written", "default", "masked", "threads"}

DaemonInit ==
    /\ daemonPc = [p \in Procs |-> "none"]
    /\ signals = [p \in Procs |-> {}]
    /\ locks = {} /\ pidFile = Nobody
    /\ unlocked = {} /\ unwritten = FALSE

GoOn(p, here, there) == daemonPc[p] = here /\ daemonPc' = [daemonPc EXCEPT ![p] = there]

\* The end of a process closes its files.
Ends(p) ==
    /\ daemonPc' = [daemonPc EXCEPT ![p] = "none"]
    /\ signals' = [signals EXCEPT ![p] = {}]
    /\ locks' = locks \ {p}
    /\ unlocked' = unlocked \ {p}
    /\ UNCHANGED <<pidFile, unwritten>>

-----------------------------------------------------------------------------
Start(p) ==
    /\ GoOn(p, "none", "start")
    /\ UNCHANGED <<signals, locks, pidFile, ghostly>>

\* A call of daemonize or main that works, or fails and ends the process.
Call(p) ==
    /\ daemonPc[p] \in DOMAIN NextPlace
    /\ GoOn(p, daemonPc[p], NextPlace[daemonPc[p]])
    /\ UNCHANGED <<signals, locks, pidFile, ghostly>>

CallFails(p) == daemonPc[p] \in DOMAIN NextPlace /\ Ends(p)

\* already_running: flock(fd, LOCK_EX | LOCK_NB); a lock held elsewhere ends the
\* process, another failure does not.
Faulty_Flock(p) ==                                  \* the result is not looked at
    /\ daemonPc[p] = "opened"
    /\ GoOn(p, "opened", "locked")
    /\ locks' = IF locks = {} THEN {p} ELSE locks
    /\ UNCHANGED <<signals, pidFile, ghostly>>

Flock(p) ==
    /\ daemonPc[p] = "opened"
    /\ \/ /\ locks = {} /\ locks' = {p}
          /\ GoOn(p, "opened", "locked")
          /\ UNCHANGED <<signals, pidFile, ghostly>>
       \/ locks # {} /\ Ends(p)
       \/ /\ GoOn(p, "opened", "locked")
          /\ unlocked' = unlocked \union {p} /\ unwritten' = TRUE
          /\ UNCHANGED <<signals, locks, pidFile>>

\* ftruncate, then the number.
Overwrite(n) ==
    \/ pidFile' = n /\ UNCHANGED unwritten
    \/ unwritten' = TRUE /\ UNCHANGED pidFile

WritePid(p) ==
    /\ \/ GoOn(p, "locked", "truncated") /\ Overwrite(Nobody)
       \/ GoOn(p, "truncated", "written") /\ Overwrite(p)
    /\ UNCHANGED <<signals, locks, unlocked>>

-----------------------------------------------------------------------------
\* A signal ends the process unless it is ignored or blocked.
Ignored(p, s) == s = "HUP" /\ daemonPc[p] \in {"ignoring", "root", "daemon", "opened",
                                              "locked", "truncated", "written"}
Blocked(p) == daemonPc[p] \in {"masked", "threads"}

Send(p, s) ==
    /\ daemonPc[p] # "none" /\ ~Ignored(p, s)
    /\ IF Blocked(p)
       THEN /\ signals' = [signals EXCEPT ![p] = @ \union {s}]
            /\ UNCHANGED <<daemonPc, locks, pidFile, ghostly>>
       ELSE Ends(p)

Kill(p) == daemonPc[p] # "none" /\ Ends(p)

\* thr_fn: sigwait takes one of the signals; SIGTERM ends the process, SIGHUP and the
\* others are noted.  Should sigwait fail, that is an end as by SIGKILL.
Sigwait(p) ==
    /\ daemonPc[p] = "threads"
    /\ \E s \in signals[p] :
          IF s = "TERM" THEN Ends(p)
                        ELSE /\ signals' = [signals EXCEPT ![p] = @ \ {s}]
                             /\ UNCHANGED <<daemonPc, locks, pidFile, ghostly>>

DaemonStep(p) == Call(p) \/ CallFails(p) \/ Flock(p) \/ WritePid(p) \/ Sigwait(p)

DaemonNext ==
    \E p \in Procs : \/ Start(p) \/ DaemonStep(p) \/ Kill(p)
                     \/ \E s \in Signals : Send(p, s)

DaemonSpec == DaemonInit /\ [][DaemonNext]_daemonVars

-----------------------------------------------------------------------------
\* The daemon runs once: whatever is started, killed and started again, two processes
\* are past the lock only when flock failed for one of them for a cause that is not
\* looked at, and as long as none of the three calls has failed unnoticed the file
\* names the daemon from the moment it has written.
OneDaemon ==
    \A p \in Procs : daemonPc[p] \in Past =>
        /\ \A q \in Procs \ {p} : daemonPc[q] \in Past => {p, q} \intersect unlocked # {}
        /\ daemonPc[p] \notin {"locked", "truncated"} => pidFile = p \/ unwritten

\* The type of the state.
DaemonTypeOK ==
    /\ daemonPc \in [Procs -> DaemonPlaces] /\ signals \in [Procs -> SUBSET Signals]
    /\ locks \subseteq Procs /\ pidFile \in Procs \union {Nobody}
    /\ unlocked \subseteq Procs /\ unwritten \in BOOLEAN
=============================================================================
