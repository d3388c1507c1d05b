----------------------------- MODULE MCMainLoop ------------------------------
(***************************************************************************)
(* A small instance of the main loop's timers and of the Thread            *)
(* diagnostics for TLC.  They share no state; a behaviour is one of the    *)
(* two, with the other at rest.                                            *)
(***************************************************************************)
EXTENDS LoopTimers, ThreadDiagnostics

VARIABLE part   \* what this behaviour is one of

MainLoopInit ==
    /\ TimersInit
    /\ ThreadInit
    /\ part \in {"timers", "thread"}
    /\ part = "thread" => clock = 0

MainLoopNext ==
    /\ UNCHANGED part
    /\ \/ part = "timers" /\ TimersNext /\ UNCHANGED threadVars
       \/ part = "thread" /\ ThreadNext /\ UNCHANGED timerVars

MainLoopSpec ==
    MainLoopInit /\ [][MainLoopNext]_<<part, timerVars, threadVars>> /\ ThreadFairness
=============================================================================
