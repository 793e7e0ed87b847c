------------------------------ MODULE CoTimerMgr ------------------------------
(***************************************************************************)
(* co::CoTimerMgr and co::CoTimer (libgo/timer.cpp) with the part of       *)
(* Scheduler::Run that serves them: the loop of DoTimer (SleepWait has the *)
(* same) and the wait that ends a cycle.  The manager keeps deadlines on   *)
(* two clocks and a cached next trigger time for each, which decides how   *)
(* long an idle thread may sleep.                                          *)
(*                                                                         *)
(* Time is discrete (one unit is the millisecond of the cached times); it  *)
(* passes only while every scheduler thread sleeps, so a delay in the      *)
(* model is one the code asks for.  The two clocks run alike.  Sections    *)
(* under lock_ are single steps; that GetExpired's try_lock may meet       *)
(* another thread inside one is the action Busy.                           *)
(***************************************************************************)
EXTENDS Integers, Sequences, Queues

CONSTANTS Timer, Thread,
          Delays,        \* what timers are set to, from now
          MaxSleep,      \* CoroutineOptions::max_sleep_ms
          Batch,         \* n of GetExpired
          EveryCycle,    \* CoroutineOptions::timer_handle_every_cycle, 0: no limit
          MaxTime,       \* bound on the clock
          MaxBusy        \* bound on failed try_locks

\* What the options are: at least one thread serves the timers, a batch is
\* not empty and no time is negative.
ConstOk == /\ Thread # {} /\ Delays \subseteq Nat /\ Batch \in Nat \ {0}
           /\ {MaxSleep, EveryCycle, MaxTime, MaxBusy} \subseteq Nat

Clock == {"system", "steady"}
Infinity == MaxTime + MaxSleep + 1000   \* numeric_limits<long long>::max()

VARIABLES now,
          deadlines,     \* per clock, the [at, timer] entries, earliest first
          next_trigger,  \* per clock, the cached next trigger time
          token_state_,  \* which map holds a timer
          active_,       \* CoTimer::active_
          fn_lock_,      \* CoTimer::fn_lock_ is held
          life,          \* what became of a timer: "unset", "set", "cancelled"
                         \* (a cancel returned true) or "called"
          pc,            \* a scheduler thread: "expire", "call", "in", "asleep"
          timers,        \* the list DoTimer has to call
          count,         \* DoTimer's c
          until,         \* when the wait at the end of a cycle must end
          busy           \* failed try_locks so far

mgrVars == <<deadlines, next_trigger, token_state_>>
timerVars == <<active_, fn_lock_, life>>
threadVars == <<pc, timers, count, until>>
vars == <<now, mgrVars, timerVars, threadVars, busy>>

Init == /\ now = 0
        /\ deadlines = [k \in Clock |-> <<>>]
        /\ next_trigger = [k \in Clock |-> Infinity]
        /\ token_state_ = [x \in Timer |-> "none"]
        /\ active_ = [x \in Timer |-> FALSE]
        /\ fn_lock_ = [x \in Timer |-> FALSE]
        /\ life = [x \in Timer |-> "unset"]
        /\ pc = [h \in Thread |-> "expire"]
        /\ timers = [h \in Thread |-> <<>>]
        /\ count = [h \in Thread |-> 0]
        /\ until = [h \in Thread |-> 0]
        /\ busy = 0

Least(a, b) == IF a < b THEN a ELSE b
NoDeadline == \A k \in Clock : deadlines[k] = <<>>
-----------------------------------------------------------------------------
(* The users of the manager.                                               *)

\* How many entries of the ordered q are not later than t.
UpperBound(q, t) == CHOOSE p \in 0..Len(q) :
                       /\ \A i \in 1..p : q[i].at <= t
                       /\ \A i \in (p + 1)..Len(q) : q[i].at > t

\* multimap::insert: after the entries that are not later.
Insert(q, e) == LET p == UpperBound(q, e.at)
                IN  SubSeq(q, 1, p) \o <<e>> \o SubSeq(q, p + 1, Len(q))

\* ExpireAt: the cached time is set only by the first deadline of all.
ExpireAt(x, k, delay) ==
    LET e == [at |-> now + delay, timer |-> x]
    IN  /\ life[x] = "unset"
        /\ life' = [life EXCEPT ![x] = "set"]
        /\ active_' = [active_ EXCEPT ![x] = TRUE]
        /\ token_state_' = [token_state_ EXCEPT ![x] = k]
        /\ deadlines' = [deadlines EXCEPT ![k] = Insert(@, e)]
        /\ next_trigger' = IF NoDeadline
                           THEN [next_trigger EXCEPT ![k] = e.at]
                           ELSE next_trigger
        /\ UNCHANGED <<now, fn_lock_, threadVars, busy>>

\* CoTimer::Cancel and BlockCancel, once the lock is had: whether the timer
\* was still active is the answer.  (Cancel gives up when the lock is taken;
\* BlockCancel waits.  Both leave everything as it is then.)
Cancel(x) ==
    /\ life[x] # "unset" /\ ~fn_lock_[x] /\ active_[x]
    /\ active_' = [active_ EXCEPT ![x] = FALSE]
    /\ life' = [life EXCEPT ![x] = "cancelled"]
    /\ UNCHANGED <<now, mgrVars, fn_lock_, threadVars, busy>>

\* __Cancel, later, under the manager's lock: the timer leaves the map its
\* token is in, unless a thread has moved it to a list meanwhile.
Erase(x) ==
    /\ life[x] = "cancelled" /\ token_state_[x] \in Clock
    /\ token_state_' = [token_state_ EXCEPT ![x] = "none"]
    /\ LET q == deadlines[token_state_[x]]
       IN  \E i \in 1..Len(q) :
              /\ q[i].timer = x
              /\ deadlines' = [deadlines EXCEPT ![token_state_[x]] = Without(q, i)]
    /\ UNCHANGED <<now, next_trigger, timerVars, threadVars, busy>>
-----------------------------------------------------------------------------
(* A scheduler thread: DoTimer and the wait.                               *)

\* The entries of q that are due, at most n, are a prefix of it.
Due(q, n) == SubSeq(q, 1, Least(n, UpperBound(q, now)))

\* What is left decides the cached time.
NextOf(q) == IF q = <<>> THEN Infinity ELSE Head(q).at

\* GetNextTriggerTime: milliseconds from now, never negative.
Delta(t) == IF t < now THEN 0 ELSE t - now
NextTriggerTime(next) == Least(Delta(next["system"]), Delta(next["steady"]))

\* Mutant: the wait is not limited by max_sleep_ms.
Sleep_Unlimited(h, next_ms) ==
    /\ pc' = [pc EXCEPT ![h] = "asleep"]
    /\ until' = [until EXCEPT ![h] = IF count[h] > 0 THEN now ELSE now + next_ms]
    /\ count' = [count EXCEPT ![h] = 0]

\* Scheduler::Run's wait once DoTimer has nothing left to call: none at all
\* after a cycle that did something.
Sleep(h, next_ms) ==
    /\ pc' = [pc EXCEPT ![h] = "asleep"]
    /\ until' = [until EXCEPT ![h] =
                   IF count[h] > 0 THEN now ELSE now + Least(next_ms, MaxSleep)]
    /\ count' = [count EXCEPT ![h] = 0]

\* GetExpired without a deadline.
GetNone(h) ==
    /\ pc[h] = "expire"
    /\ NoDeadline
    /\ Sleep(h, Infinity)
    /\ UNCHANGED <<now, mgrVars, timerVars, timers, busy>>

\* GetExpired meets another holder of lock_: the cached time is used as it is.
Busy(h) ==
    /\ pc[h] = "expire"
    /\ ~NoDeadline /\ busy < MaxBusy
    /\ busy' = busy + 1
    /\ Sleep(h, NextTriggerTime(next_trigger))
    /\ UNCHANGED <<now, mgrVars, timerVars, timers>>

\* GetExpired under the lock: first one clock, then the other with what is
\* left of n.
GetExpired(h) ==
    LET sys  == Due(deadlines["system"], Batch)
        sdy  == Due(deadlines["steady"], Batch - Len(sys))
        left == [k \in Clock |->
                   LET n == Len(IF k = "system" THEN sys ELSE sdy)
                   IN  SubSeq(deadlines[k], n + 1, Len(deadlines[k]))]
        got  == [i \in 1..(Len(sys) + Len(sdy)) |-> (sys \o sdy)[i].timer]
        next == [k \in Clock |-> NextOf(left[k])]
    IN  /\ pc[h] = "expire"
        /\ ~NoDeadline
        /\ deadlines' = left
        /\ next_trigger' = next
        /\ token_state_' = [x \in Timer |->
                              IF \E i \in DOMAIN got : got[i] = x
                              THEN "none" ELSE token_state_[x]]
        /\ timers' = [timers EXCEPT ![h] = got]
        /\ \/ got = <<>> /\ Sleep(h, NextTriggerTime(next))
           \/ /\ got # <<>>
              /\ pc' = [pc EXCEPT ![h] = "call"]
              /\ count' = [count EXCEPT ![h] = @ + Len(got)]
              /\ UNCHANGED until
        /\ UNCHANGED <<now, timerVars, busy>>

\* CoTimer::operator(): the callback of an active timer runs with fn_lock_
\* held.
CallTimer(h) ==
    LET x == Head(timers[h])
    IN  /\ pc[h] = "call" /\ timers[h] # <<>>
        /\ active_[x] /\ ~fn_lock_[x]
        /\ active_' = [active_ EXCEPT ![x] = FALSE]
        /\ fn_lock_' = [fn_lock_ EXCEPT ![x] = TRUE]
        /\ life' = [life EXCEPT ![x] = "called"]
        /\ pc' = [pc EXCEPT ![h] = "in"]
        /\ UNCHANGED <<now, mgrVars, timers, count, until, busy>>

\* Mutant: active_ is not looked at.
SkipTimer_Runs(h) ==
    LET x == Head(timers[h])
    IN  /\ pc[h] = "call" /\ timers[h] # <<>>
        /\ ~active_[x]
        /\ life' = [life EXCEPT ![x] = "called"]
        /\ timers' = [timers EXCEPT ![h] = Tail(@)]
        /\ UNCHANGED <<now, mgrVars, active_, fn_lock_, pc, count, until, busy>>

\* A timer cancelled after it was moved to the list is skipped.
SkipTimer(h) ==
    LET x == Head(timers[h])
    IN  /\ pc[h] = "call" /\ timers[h] # <<>>
        /\ ~active_[x]
        /\ timers' = [timers EXCEPT ![h] = Tail(@)]
        /\ UNCHANGED <<now, mgrVars, timerVars, pc, count, until, busy>>

Returned(h) ==
    LET x == Head(timers[h])
    IN  /\ pc[h] = "in"
        /\ fn_lock_' = [fn_lock_ EXCEPT ![x] = FALSE]
        /\ timers' = [timers EXCEPT ![h] = Tail(@)]
        /\ pc' = [pc EXCEPT ![h] = "call"]
        /\ UNCHANGED <<now, mgrVars, active_, life, count, until, busy>>

\* The list is empty: DoTimer looks again, unless it has handled as many as
\* a cycle may.
NextRound(h) ==
    /\ pc[h] = "call" /\ timers[h] = <<>>
    /\ \/ EveryCycle # 0 /\ count[h] >= EveryCycle /\ Sleep(h, 0)
       \/ /\ EveryCycle = 0 \/ count[h] < EveryCycle
          /\ pc' = [pc EXCEPT ![h] = "expire"]
          /\ UNCHANGED <<count, until>>
    /\ UNCHANGED <<now, mgrVars, timerVars, timers, busy>>

\* The wait ends: when its time is over, or before because of an event.
Wake(h) ==
    /\ pc[h] = "asleep"
    /\ pc' = [pc EXCEPT ![h] = "expire"]
    /\ until' = [until EXCEPT ![h] = 0]
    /\ UNCHANGED <<now, mgrVars, timerVars, timers, count, busy>>

Tick == /\ now < MaxTime
        /\ \A h \in Thread : pc[h] = "asleep" /\ now < until[h]
        /\ now' = now + 1
        /\ UNCHANGED <<mgrVars, timerVars, threadVars, busy>>

Next == \/ \E x \in Timer : \/ Cancel(x) \/ Erase(x)
                            \/ \E k \in Clock, d \in Delays : ExpireAt(x, k, d)
        \/ \E h \in Thread : \/ GetNone(h) \/ Busy(h) \/ GetExpired(h)
                             \/ CallTimer(h) \/ SkipTimer(h) \/ Returned(h)
                             \/ NextRound(h) \/ Wake(h)
        \/ Tick

Spec == Init /\ [][Next]_vars
-----------------------------------------------------------------------------
\* No deadline is overslept by more than max_sleep_ms, however stale the
\* cached next trigger time is, plus as much for every time a thread found
\* the manager locked.  (ExpireAt does not wake a sleeping thread and caches
\* its time only when it is the first deadline.)
Punctual == \A k \in Clock : \A i \in DOMAIN deadlines[k] :
               now <= deadlines[k][i].at + (1 + busy) * MaxSleep

\* A timer whose cancellation succeeded is never called, not even when it
\* was already in the list of a thread about to call it.
CancelTruthful ==
    [][\A x \in Timer : life[x] = "cancelled" => life'[x] = "cancelled"]_vars

=============================================================================
