---------------------------- MODULE BottomHalves ----------------------------
(***************************************************************************)
(* src/9_soft_irq_and_workqueue: two kernel modules that print the keys    *)
(* pressed.  Each requests the keyboard's interrupt and leaves the         *)
(* printing to a bottom half: src/tasklet to a tasklet, which carries the  *)
(* scan code as its data, src/wq to the item work1 of a work queue, which  *)
(* reads it from a global variable.  The modules share nothing.            *)
(*                                                                         *)
(* Of the kernel the model takes: a line's handlers do not interrupt       *)
(* themselves, free_irq waits for them; a tasklet or a work item that is   *)
(* scheduled already is not scheduled twice, its mark is cleared before    *)
(* its function starts, and the function does not run on two processors    *)
(* at a time, but the handler may run beside it; tasklet_kill and          *)
(* destroy_workqueue wait until nothing is scheduled or running.           *)
(*                                                                         *)
(* ascii_map names the Named keys; reading past it, running code that was  *)
(* unloaded and queueing what is not there are undefined: the behaviour    *)
(* ends with broken.                                                       *)
(*                                                                         *)
(* A definition named Faulty_X is X with a plausible bug; no specification *)
(* uses it, it serves to show that the properties notice the bug.          *)
(***************************************************************************)
EXTENDS Naturals

CONSTANTS Keys, Named, NoKey

ASSUME KeysAssumption == Named \subseteq Keys /\ NoKey \notin Keys

\* What the keyboard sends; the status bit tells a release.
Codes  == [key : Keys, pressed : BOOLEAN]
NoCode == [key |-> NoKey, pressed |-> FALSE]

VARIABLES
    module_t, irq_t,      \* the module with the tasklet; where its handler stands
    data, scheduled, running,                       \* of the tasklet
    module_w, irq_w,      \* the module with the work queue; where its handler stands
    scancode, queue,      \* its variables: the code; whether queue is not NULL
    queued, work1,        \* the items that wait; where work1_handler stands
    port,                 \* what inb(KBD_PORT) returns
    last, printed,        \* the last code whose bottom half was asked for; the last key printed
    broken

taskletVars == <<module_t, irq_t, data, scheduled, running>>
workVars    == <<module_w, irq_w, scancode, queue, queued, work1>>
ghosts      == <<port, last, printed>>
bottomVars  == <<taskletVars, workVars, ghosts, broken>>

BottomInit ==
    /\ module_t = "out" /\ irq_t = "idle"
    /\ data = NoKey /\ scheduled = FALSE /\ running = FALSE
    /\ module_w = "out" /\ irq_w = "idle"
    /\ scancode = NoCode /\ queue = FALSE /\ queued = {} /\ work1 = "idle"
    /\ port = NoCode /\ last = NoCode /\ printed = NoKey
    /\ broken = FALSE

Break == broken' = TRUE /\ UNCHANGED <<taskletVars, workVars, ghosts>>

-----------------------------------------------------------------------------
\* src/tasklet.  md_init; when request_irq fails nothing is left.
TaskletInit ==
    /\ module_t = "out" /\ ~scheduled /\ ~running
    /\ module_t' = "live"
    /\ data' = NoKey /\ last' = NoCode /\ printed' = NoKey
    /\ UNCHANGED <<irq_t, scheduled, running, workVars, port, broken>>

TaskletInterrupt(code) ==
    /\ module_t # "out" /\ irq_t = "idle"
    /\ port' = code
    /\ irq_t' = IF code.pressed THEN "store" ELSE "idle"
    /\ UNCHANGED <<module_t, data, scheduled, running, workVars, last, printed, broken>>

\* interrupt_handler: the code becomes the tasklet's data, then it is scheduled.
Faulty_TaskletHandler ==                            \* scheduled, then the data
    /\ \/ /\ irq_t = "store" /\ irq_t' = "schedule"
          /\ scheduled' = TRUE /\ UNCHANGED <<data, last>>
       \/ /\ irq_t = "schedule" /\ irq_t' = "idle"
          /\ data' = port.key /\ last' = port /\ UNCHANGED scheduled
    /\ UNCHANGED <<module_t, running, workVars, port, printed, broken>>

TaskletHandler ==
    /\ \/ /\ irq_t = "store" /\ irq_t' = "schedule"
          /\ data' = port.key /\ UNCHANGED <<scheduled, last>>
       \/ /\ irq_t = "schedule" /\ irq_t' = "idle"
          /\ scheduled' = TRUE /\ last' = port /\ UNCHANGED data
    /\ UNCHANGED <<module_t, running, workVars, port, printed, broken>>

\* The softirq clears the mark and calls tasklet_handler with the data of then.
TaskletStart ==
    /\ scheduled /\ ~running /\ module_t # "out"
    /\ scheduled' = FALSE /\ running' = TRUE
    /\ UNCHANGED <<module_t, irq_t, data, workVars, ghosts, broken>>

TaskletRun ==
    /\ running /\ module_t # "out" /\ data \in Named
    /\ running' = FALSE /\ printed' = data
    /\ UNCHANGED <<module_t, irq_t, data, scheduled, workVars, port, last, broken>>

\* md_exit: tasklet_kill, then free_irq; the handler may schedule in between.
TaskletExit ==
    /\ \/ module_t = "live" /\ ~scheduled /\ ~running /\ module_t' = "killed"
       \/ module_t = "killed" /\ irq_t = "idle" /\ module_t' = "out"
    /\ UNCHANGED <<irq_t, data, scheduled, running, workVars, ghosts, broken>>

TaskletStale ==
    /\ \/ module_t = "out" /\ (scheduled \/ running)
       \/ running /\ data \notin Named
    /\ Break

TaskletNext ==
    /\ ~broken
    /\ \/ TaskletInit \/ TaskletHandler \/ TaskletStart \/ TaskletRun
       \/ TaskletExit \/ TaskletStale
       \/ \E code \in Codes : TaskletInterrupt(code)

-----------------------------------------------------------------------------
\* src/wq.  md_init: the interrupt first (without it the module is not loaded, and
\* nothing calls it), then the queue, which may be missing, and the two items, for
\* which there may be no memory.
WorkInit ==
    /\ \/ /\ module_w = "out" /\ module_w' = "irq"
          /\ last' = NoCode /\ printed' = NoKey /\ scancode' = NoCode /\ queue' = FALSE
       \/ /\ module_w = "irq" /\ module_w' = "queue" /\ queue' \in BOOLEAN
          /\ UNCHANGED <<last, printed, scancode>>
       \/ /\ \/ module_w = "queue" /\ module_w' = "work1"
             \/ module_w = "work1" /\ module_w' = "live"
          /\ UNCHANGED <<last, printed, scancode, queue>>
    /\ UNCHANGED <<taskletVars, irq_w, queued, work1, port, broken>>

WorkNoMemory == module_w \in {"queue", "work1"} /\ Break

WorkInterrupt(code) ==
    /\ module_w # "out" /\ irq_w = "idle"
    /\ port' = code /\ irq_w' = "store"
    /\ UNCHANGED <<taskletVars, module_w, scancode, queue, queued, work1,
                   last, printed, broken>>

\* irq_handler: the code is stored, and with a queue work1 and work2 are queued.
\* queue is not reset when the queue is destroyed.
WorkStore ==
    /\ irq_w = "store" /\ irq_w' = IF queue THEN "queue1" ELSE "idle"
    /\ scancode' = port
    /\ UNCHANGED <<taskletVars, module_w, queue, queued, work1, ghosts, broken>>

WorkQueue ==
    /\ \/ /\ irq_w = "queue1" /\ module_w \in {"work1", "live"}
          /\ irq_w' = "queue2" /\ queued' = queued \union {1} /\ last' = port
       \/ /\ irq_w = "queue2" /\ module_w = "live"
          /\ irq_w' = "idle" /\ queued' = queued \union {2} /\ UNCHANGED last
    /\ UNCHANGED <<taskletVars, module_w, scancode, queue, work1, port, printed, broken>>

WorkMissing ==
    /\ \/ irq_w = "queue1" /\ module_w \in {"queue", "destroyed"}
       \/ irq_w = "queue2" /\ module_w \in {"work1", "destroyed"}
       \/ work1 = "print" /\ scancode.key \notin Named
    /\ Break

\* work1_handler reads scancode for the test and for the key; work2_handler names
\* the processor and sleeps.
WorkStart ==
    /\ \/ 1 \in queued /\ work1 = "idle" /\ queued' = queued \ {1} /\ work1' = "test"
       \/ 2 \in queued /\ queued' = queued \ {2} /\ UNCHANGED work1
    /\ UNCHANGED <<taskletVars, module_w, irq_w, scancode, queue, ghosts, broken>>

WorkTest ==
    /\ work1 = "test" /\ work1' = IF scancode.pressed THEN "print" ELSE "idle"
    /\ UNCHANGED <<taskletVars, module_w, irq_w, scancode, queue, queued, ghosts, broken>>

WorkPrint ==
    /\ work1 = "print" /\ work1' = "idle"
    /\ scancode.key \in Named /\ printed' = scancode.key
    /\ UNCHANGED <<taskletVars, module_w, irq_w, scancode, queue, queued, port, last, broken>>

\* md_exit: the queue, which has to exist, is drained and destroyed, then free_irq.
WorkExit ==
    /\ \/ /\ module_w = "live" /\ queue /\ queued = {} /\ work1 = "idle"
          /\ module_w' = "destroyed"
       \/ module_w = "destroyed" /\ irq_w = "idle" /\ module_w' = "out"
    /\ UNCHANGED <<taskletVars, irq_w, scancode, queue, queued, work1, ghosts, broken>>

WorkNoQueue == module_w = "live" /\ ~queue /\ Break

WorkNext ==
    /\ ~broken
    /\ \/ WorkInit \/ WorkNoMemory \/ WorkStore \/ WorkQueue \/ WorkMissing
       \/ WorkStart \/ WorkTest \/ WorkPrint \/ WorkExit \/ WorkNoQueue
       \/ \E code \in Codes : WorkInterrupt(code)

\* A behaviour is one module's: port, last and printed are about the one that is there.
TaskletSpec == BottomInit /\ [][TaskletNext]_bottomVars
WorkSpec    == BottomInit /\ [][WorkNext]_bottomVars

-----------------------------------------------------------------------------
\* When a module is at rest the key pressed last is the one printed last: a press
\* may be swallowed by a later code, but never the last one, though the tasklet's
\* data and scancode are written while the bottom half runs elsewhere and it is not
\* scheduled a second time.
TaskletRests == module_t = "live" /\ irq_t = "idle" /\ ~scheduled /\ ~running
WorkRests    == module_w = "live" /\ irq_w = "idle" /\ 1 \notin queued /\ work1 = "idle"

PressedIsPrinted ==
    (TaskletRests \/ WorkRests) /\ last.pressed => printed = last.key

\* The type of the state.
BottomTypeOK ==
    /\ module_t \in {"out", "live", "killed"} /\ irq_t \in {"idle", "store", "schedule"}
    /\ data \in Keys \union {NoKey} /\ scheduled \in BOOLEAN /\ running \in BOOLEAN
    /\ module_w \in {"out", "irq", "queue", "work1", "live", "destroyed"}
    /\ irq_w \in {"idle", "store", "queue1", "queue2"}
    /\ {scancode, port, last} \subseteq Codes \union {NoCode} /\ queue \in BOOLEAN
    /\ queued \subseteq {1, 2} /\ work1 \in {"idle", "test", "print"}
    /\ printed \in Keys \union {NoKey} /\ broken \in BOOLEAN
=============================================================================
