----------------------------- MODULE MCPrograms -----------------------------
(***************************************************************************)
(* The small programs of the repository side by side.  They share nothing, *)
(* so that their product would show no more than each of them: a behaviour *)
(* here is one of the programs, chosen at the start, while the variables   *)
(* of the others keep their first values.                                  *)
(***************************************************************************)
EXTENDS WinReadersWriters, TabletReports, SelectServer, BottomHalves, DaemonLock,
        SharedStreams, ForkExec, ProtectedMode

VARIABLE chosen

programs == {"win", "reports", "server", "tasklet", "wq", "daemon", "streams", "fork",
             "screen"}

vars == <<chosen, winVars, reportsVars, serverVars, bottomVars, daemonVars,
          streamVars, forkVars, screenVars>>

\* Where a finger may be, on each axis, and how much the two threads write.
MCPlaces  == {<<0, 0>>, <<3, 5>>}
MCLengths == <<2, 3>>

Init ==
    /\ chosen \in programs
    /\ WinInit /\ ReportsInit /\ ServerInit /\ BottomInit /\ DaemonInit
    /\ StreamsInit /\ (chosen # "streams" => program = "1")
    /\ ForkInit /\ (chosen # "fork" => source = "1_fork")
    /\ ScreenInit

\* What keeps its value while one of the programs takes a step.
BesidesWin     == UNCHANGED <<chosen, reportsVars, serverVars, bottomVars, daemonVars,
                              streamVars, forkVars, screenVars>>
BesidesReports == UNCHANGED <<chosen, winVars, serverVars, bottomVars, daemonVars,
                              streamVars, forkVars, screenVars>>
BesidesServer  == UNCHANGED <<chosen, winVars, reportsVars, bottomVars, daemonVars,
                              streamVars, forkVars, screenVars>>
BesidesBottom  == UNCHANGED <<chosen, winVars, reportsVars, serverVars, daemonVars,
                              streamVars, forkVars, screenVars>>
BesidesDaemon  == UNCHANGED <<chosen, winVars, reportsVars, serverVars, bottomVars,
                              streamVars, forkVars, screenVars>>
BesidesStreams == UNCHANGED <<chosen, winVars, reportsVars, serverVars, bottomVars,
                              daemonVars, forkVars, screenVars>>
BesidesFork    == UNCHANGED <<chosen, winVars, reportsVars, serverVars, bottomVars,
                              daemonVars, streamVars, screenVars>>
BesidesScreen  == UNCHANGED <<chosen, winVars, reportsVars, serverVars, bottomVars,
                              daemonVars, streamVars, forkVars>>

Next ==
    \/ chosen = "win"     /\ WinNext     /\ BesidesWin
    \/ chosen = "reports" /\ ReportsNext /\ BesidesReports
    \/ chosen = "server"  /\ ServerNext  /\ BesidesServer
    \/ chosen = "tasklet" /\ TaskletNext /\ BesidesBottom
    \/ chosen = "wq"      /\ WorkNext    /\ BesidesBottom
    \/ chosen = "daemon"  /\ DaemonNext  /\ BesidesDaemon
    \/ chosen = "streams" /\ StreamsNext /\ BesidesStreams
    \/ chosen = "fork"    /\ ForkNext    /\ BesidesFork
    \/ chosen = "screen"  /\ ScreenNext  /\ BesidesScreen

Spec == Init /\ [][Next]_vars

\* The fairness of WinFairSpec, ServerFairSpec and ForkFairSpec, for the chosen one.
FairSpec ==
    /\ Spec
    /\ WF_winVars(chosen = "win" /\ WinMainStep)
    /\ \A t \in WinThreads : WF_winVars(chosen = "win" /\ (WinWriteStep(t) \/ WinReadStep(t)))
    /\ WF_serverVars(chosen = "server" /\ ServerStep)
    /\ \A k \in Clients : WF_serverVars(chosen = "server" /\ ClientStep(k))
    /\ WF_forkVars(chosen = "fork" /\ ParentStep)
    /\ \A i \in Kids : WF_forkVars(chosen = "fork" /\ KidStep(i))

\* The types of the programs' variables.
TypesOK ==
    /\ WinTypeOK /\ ReportsTypeOK /\ ServerTypeOK /\ BottomTypeOK /\ DaemonTypeOK
    /\ StreamsTypeOK /\ ForkTypeOK /\ ScreenTypeOK
=============================================================================
