------------------------------ MODULE IdleThreads -----------------------------
(* The timers of a scheduler, served by its threads while they have no     *)
(* task to run: a CoTimerMgr with variables of its own, to stand beside a  *)
(* Scheduler.                                                              *)

CONSTANTS Timer, Idler, Delays, MaxSleep, Batch, EveryCycle, MaxTime, MaxBusy

VARIABLES now, deadlines, next_trigger, token_state_, active_, fn_lock_, life,
          tpc, expired, count, until, busy

timerVars == <<now, deadlines, next_trigger, token_state_, active_, fn_lock_,
               life, tpc, expired, count, until, busy>>

M == INSTANCE CoTimerMgr WITH Thread <- Idler, pc <- tpc, timers <- expired

\* No deadline is overslept by more than max_sleep_ms: see CoTimerMgr.
Punctual == M!Punctual

\* A timer whose cancellation succeeded is never called: see CoTimerMgr.
CancelTruthful == M!CancelTruthful
=============================================================================
