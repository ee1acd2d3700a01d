------------------------- MODULE WinReadersWriters -------------------------
(***************************************************************************)
(* src/mutual_exclusion/win_reades_writers.c: threads that increment and   *)
(* threads that print an integer, with a mutex among the readers, the      *)
(* event canRead, which a wait resets, and the event canWrite, which       *)
(* nothing resets.                                                         *)
(*                                                                         *)
(* Every access to a shared variable and every call of the system is a     *)
(* step of its own; the Interlocked functions are atomic.  What a reader   *)
(* prints is left out.                                                     *)
(*                                                                         *)
(* A definition named Faulty_X is X with a plausible bug; no specification *)
(* uses it, it serves to show that the properties notice the bug.          *)
(***************************************************************************)
EXTENDS Integers

CONSTANTS W_CNT, R_CNT, ITERS

ASSUME WinAssumption == W_CNT \in Nat /\ R_CNT \in Nat /\ ITERS \in Nat \ {0}

\* main creates the writers first.
WinThreads == 0 .. W_CNT + R_CNT - 1
WinWriters == 0 .. W_CNT - 1
WinReaders == WinThreads \ WinWriters

VARIABLES
    winMutex,                           \* the threads that hold it
    canRead, canWrite,                  \* the events: signalled or not
    workingWriter, waitingWriters, waitingReaders, activeReaders, value,
    winPc, winReg,                      \* where a thread stands; what a writer loaded
    round,                              \* i of a writer
    signal,                             \* what became of the last SetEvent(canRead) of a writer
    winMain, created                    \* where main stands; the threads it created

winEvents == <<winMutex, canRead, canWrite, signal>>
winData   == <<workingWriter, waitingWriters, waitingReaders, activeReaders, value>>
winProc   == <<winMain, created>>
winVars   == <<winEvents, winData, winPc, winReg, round, winProc>>

WinInit ==
    /\ winMutex = {} /\ canRead = TRUE /\ canWrite = TRUE /\ signal = "none"
    /\ workingWriter = FALSE /\ waitingWriters = 0 /\ waitingReaders = 0
    /\ activeReaders = 0 /\ value = 0
    /\ winPc = [t \in WinThreads |-> "unborn"]
    /\ winReg = [t \in WinThreads |-> 0] /\ round = [t \in WinThreads |-> 0]
    /\ winMain = "objects" /\ created = 0

\* exit of main ends every thread.
WinGoto(t, here, there) ==
    winMain # "exited" /\ winPc[t] = here /\ winPc' = [winPc EXCEPT ![t] = there]

-----------------------------------------------------------------------------
\* startWrite: count in, test, wait, count out, set workingWriter.
WinWriteEnter(t) ==
    /\ WinGoto(t, "enter write", "test writer")
    /\ waitingWriters' = waitingWriters + 1
    /\ UNCHANGED <<winEvents, workingWriter, waitingReaders, activeReaders, value,
                   winReg, round, winProc>>

WinTestWriter(t) ==
    /\ WinGoto(t, "test writer", IF workingWriter THEN "wait write" ELSE "test readers")
    /\ UNCHANGED <<winEvents, winData, winReg, round, winProc>>

WinTestReaders(t) ==
    /\ WinGoto(t, "test readers", IF activeReaders > 0 THEN "wait write" ELSE "granted")
    /\ UNCHANGED <<winEvents, winData, winReg, round, winProc>>

\* canWrite is reset by hand: it stays signalled.
WinWaitWrite(t) ==
    /\ canWrite /\ WinGoto(t, "wait write", "granted")
    /\ UNCHANGED <<winEvents, winData, winReg, round, winProc>>

WinWriteGranted(t) ==
    /\ WinGoto(t, "granted", "claim")
    /\ waitingWriters' = waitingWriters - 1
    /\ UNCHANGED <<winEvents, workingWriter, waitingReaders, activeReaders, value,
                   winReg, round, winProc>>

WinClaim(t) ==
    /\ WinGoto(t, "claim", "load")
    /\ workingWriter' = TRUE
    /\ UNCHANGED <<winEvents, waitingWriters, waitingReaders, activeReaders, value,
                   winReg, round, winProc>>

-----------------------------------------------------------------------------
\* value++ is a load and a store.
WinLoad(t) ==
    /\ WinGoto(t, "load", "store")
    /\ winReg' = [winReg EXCEPT ![t] = value]
    /\ UNCHANGED <<winEvents, winData, round, winProc>>

WinStore(t) ==
    /\ WinGoto(t, "store", "stop write")
    /\ value' = winReg[t] + 1
    /\ winReg' = [winReg EXCEPT ![t] = 0]
    /\ UNCHANGED <<winEvents, workingWriter, waitingWriters, waitingReaders,
                   activeReaders, round, winProc>>

\* stopWrite: the event is chosen by what waitingReaders was, and set later.
WinStopWrite(t) ==
    /\ WinGoto(t, "stop write", "choose")
    /\ workingWriter' = FALSE
    /\ UNCHANGED <<winEvents, waitingWriters, waitingReaders, activeReaders, value,
                   winReg, round, winProc>>

Faulty_WinChoose(t) ==
    /\ WinGoto(t, "choose", IF waitingReaders > 1 THEN "signal read" ELSE "signal write")
    /\ UNCHANGED <<winEvents, winData, winReg, round, winProc>>

WinChoose(t) ==
    /\ WinGoto(t, "choose", IF waitingReaders > 0 THEN "signal read" ELSE "signal write")
    /\ UNCHANGED <<winEvents, winData, winReg, round, winProc>>

\* The last statement of a round of writer.
WinSignal(t) ==
    /\ WinGoto(t, winPc[t], IF round[t] + 1 < ITERS THEN "enter write" ELSE "returned")
    /\ \/ /\ winPc[t] = "signal read"
          /\ canRead' = TRUE /\ signal' = "given" /\ UNCHANGED canWrite
       \/ /\ winPc[t] = "signal write"
          /\ canWrite' = TRUE /\ UNCHANGED <<canRead, signal>>
    /\ round' = [round EXCEPT ![t] = @ + 1]
    /\ UNCHANGED <<winMutex, winData, winReg, winProc>>

WinWriteStep(t) ==
    \/ WinWriteEnter(t) \/ WinTestWriter(t) \/ WinTestReaders(t) \/ WinWaitWrite(t)
    \/ WinWriteGranted(t) \/ WinClaim(t) \/ WinLoad(t) \/ WinStore(t)
    \/ WinStopWrite(t) \/ WinChoose(t) \/ WinSignal(t)
-----------------------------------------------------------------------------
\* while (value < W_CNT * ITERS) of reader.
WinLoop(t) ==
    /\ WinGoto(t, "loop", IF value < W_CNT * ITERS THEN "lock" ELSE "returned")
    /\ UNCHANGED <<winEvents, winData, winReg, round, winProc>>

\* startRead: one reader at a time counts in, tests, waits holding the mutex,
\* counts out, becomes active and passes canRead on.
WinLock(t) ==
    /\ winMutex = {} /\ WinGoto(t, "lock", "enter read")
    /\ winMutex' = {t}
    /\ UNCHANGED <<canRead, canWrite, signal, winData, winReg, round, winProc>>

WinReadEnter(t) ==
    /\ WinGoto(t, "enter read", "test working")
    /\ waitingReaders' = waitingReaders + 1
    /\ UNCHANGED <<winEvents, workingWriter, waitingWriters, activeReaders, value,
                   winReg, round, winProc>>

WinTestWorking(t) ==
    /\ WinGoto(t, "test working", IF workingWriter THEN "wait read" ELSE "test waiting")
    /\ UNCHANGED <<winEvents, winData, winReg, round, winProc>>

WinTestWaiting(t) ==
    /\ WinGoto(t, "test waiting", IF waitingWriters > 0 THEN "wait read" ELSE "admitted")
    /\ UNCHANGED <<winEvents, winData, winReg, round, winProc>>

WinWaitRead(t) ==
    /\ canRead /\ WinGoto(t, "wait read", "admitted")
    /\ canRead' = FALSE /\ signal' = "none"
    /\ UNCHANGED <<winMutex, canWrite, winData, winReg, round, winProc>>

WinAdmitted(t) ==
    /\ WinGoto(t, "admitted", "activate")
    /\ waitingReaders' = waitingReaders - 1
    /\ UNCHANGED <<winEvents, workingWriter, waitingWriters, activeReaders, value,
                   winReg, round, winProc>>

WinActivate(t) ==
    /\ WinGoto(t, "activate", "chain")
    /\ activeReaders' = activeReaders + 1
    /\ UNCHANGED <<winEvents, workingWriter, waitingWriters, waitingReaders, value,
                   winReg, round, winProc>>

WinChain(t) ==
    /\ WinGoto(t, "chain", "unlock")
    /\ canRead' = TRUE
    /\ UNCHANGED <<winMutex, canWrite, signal, winData, winReg, round, winProc>>

WinUnlock(t) ==
    /\ WinGoto(t, "unlock", "leave")
    /\ winMutex' = {}
    /\ UNCHANGED <<canRead, canWrite, signal, winData, winReg, round, winProc>>

\* stopRead: the count is read again after the decrement, and canRead is reset
\* whatever has been signalled in between.
WinLeave(t) ==
    /\ WinGoto(t, "leave", "test last")
    /\ activeReaders' = activeReaders - 1
    /\ UNCHANGED <<winEvents, workingWriter, waitingWriters, waitingReaders, value,
                   winReg, round, winProc>>

WinTestLast(t) ==
    /\ WinGoto(t, "test last", IF activeReaders = 0 THEN "let write" ELSE "loop")
    /\ UNCHANGED <<winEvents, winData, winReg, round, winProc>>

WinLetWrite(t) ==
    /\ WinGoto(t, "let write", "reset")
    /\ canWrite' = TRUE
    /\ UNCHANGED <<winMutex, canRead, signal, winData, winReg, round, winProc>>

WinReset(t) ==
    /\ WinGoto(t, "reset", "loop")
    /\ canRead' = FALSE /\ signal' = IF signal = "given" THEN "erased" ELSE signal
    /\ UNCHANGED <<winMutex, canWrite, winData, winReg, round, winProc>>

WinReadStep(t) ==
    \/ WinLoop(t) \/ WinLock(t) \/ WinReadEnter(t) \/ WinTestWorking(t)
    \/ WinTestWaiting(t) \/ WinWaitRead(t) \/ WinAdmitted(t) \/ WinActivate(t)
    \/ WinChain(t) \/ WinUnlock(t) \/ WinLeave(t) \/ WinTestLast(t)
    \/ WinLetWrite(t) \/ WinReset(t)

-----------------------------------------------------------------------------
\* main: the mutex and the events, the threads one by one, the two waits and the
\* handles.  Whatever cannot be made ends the program.
WinMake ==
    /\ winMain = "objects" /\ winMain' \in {"threads", "exited"}
    /\ UNCHANGED <<winEvents, winData, winPc, winReg, round, created>>

WinCreate ==
    /\ winMain = "threads" /\ created < W_CNT + R_CNT
    /\ \/ /\ created' = created + 1 /\ UNCHANGED winMain
          /\ winPc' = [winPc EXCEPT ![created] =
                          IF created \in WinWriters THEN "enter write" ELSE "loop"]
       \/ winMain' = "exited" /\ UNCHANGED <<created, winPc>>
    /\ UNCHANGED <<winEvents, winData, winReg, round>>

\* WaitForMultipleObjects of the writers, then of the readers, then CloseHandle.
WinJoin ==
    /\ \/ /\ winMain = "threads" /\ created = W_CNT + R_CNT
          /\ \A t \in WinWriters : winPc[t] = "returned"
          /\ winMain' = "join readers"
       \/ /\ winMain = "join readers" /\ \A t \in WinReaders : winPc[t] = "returned"
          /\ winMain' = "closed"
    /\ UNCHANGED <<winEvents, winData, winPc, winReg, round, created>>

WinMainStep == WinMake \/ WinCreate \/ WinJoin

WinNext == WinMainStep \/ \E t \in WinThreads : WinWriteStep(t) \/ WinReadStep(t)

WinSpec == WinInit /\ [][WinNext]_winVars

\* The scheduler runs every thread that can run, main among them.
WinFairSpec ==
    /\ WinSpec /\ WF_winVars(WinMainStep)
    /\ \A t \in WinThreads : WF_winVars(WinWriteStep(t) \/ WinReadStep(t))

-----------------------------------------------------------------------------
\* The threads at one of the places.
WinAt(places) == {t \in WinThreads : winPc[t] \in places}

\* Whatever the readers do every writer gets through its rounds: canWrite is set from
\* the start and reset by nothing, so that a wait in startWrite is short.  Two things
\* only keep the program from its end then: an increment was lost, so that value stays
\* below what the readers wait for, or a reader waits for canRead, holding the mutex,
\* and the event that a writer had set for it was reset by a reader that left.
WinIncrementLost == value < W_CNT * ITERS
WinSignalErased == signal = "erased" /\ ~canRead /\ WinAt({"wait read"}) # {}
WinEndsUnless ==
    <>[](\/ winMain \in {"objects", "exited", "closed"}
         \/ /\ \A t \in WinWriters : winPc[t] = "returned"
            /\ WinIncrementLost \/ WinSignalErased)

\* The type of the state.
WinTypeOK ==
    /\ winMutex \subseteq WinReaders /\ {canRead, canWrite, workingWriter} \subseteq BOOLEAN
    /\ signal \in {"none", "given", "erased"}
    /\ {waitingWriters, waitingReaders, activeReaders} \subseteq 0 .. W_CNT + R_CNT
    /\ value \in 0 .. W_CNT * ITERS
    /\ winReg \in [WinThreads -> 0 .. W_CNT * ITERS] /\ round \in [WinThreads -> 0 .. ITERS]
    /\ winMain \in {"objects", "threads", "join readers", "closed", "exited"}
    /\ created \in 0 .. W_CNT + R_CNT
    /\ DOMAIN winPc = WinThreads
=============================================================================
