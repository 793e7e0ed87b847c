----------------------------- MODULE MCScheduler -----------------------------
(* What TLC checks of a scheduler thread's cycle, in two scenes chosen at  *)
(* the start:                                                              *)
(*   tasks:  Scheduler, tasks created, run, stolen, slept and finished;    *)
(*   timers: CoTimerMgr, timers set, cancelled and served by idle threads. *)
EXTENDS Scheduler, IdleThreads, TLC

VARIABLE scene

ASSUME TimerOptions == M!ConstOk

MCInit == Init /\ M!Init /\ scene \in {"tasks", "timers"}

MCNext == /\ \/ scene = "tasks" /\ Next /\ UNCHANGED timerVars
             \/ scene = "timers" /\ M!Next /\ UNCHANGED vars
          /\ UNCHANGED scene

MCSpec == MCInit /\ [][MCNext]_<<vars, timerVars, scene>>

\* Tasks are interchangeable, and so are timers and the idle threads.  Only one of the
\* two scenes is played, so the timers may have the names of the tasks.
Symmetry == Permutations(Task) \cup Permutations(Idler)
=============================================================================
