----------------------------- MODULE BlockObject -----------------------------
(***************************************************************************)
(* co::BlockObject (libgo/block_object.cpp), the primitive under every     *)
(* blocking operation of libgo, with the parts of Task, Processer, CoTimer *)
(* and RefObject it works on.  One object is shared by                     *)
(*   - Task:   coroutines that block on it (CoBlockWait, CoBlockWaitTimed),*)
(*   - Waker:  activities calling Wakeup(),                                *)
(*   - Thread: plain threads, which poll it instead of blocking,           *)
(*   - the scheduler threads, which add a yielded task to the wait queue   *)
(*     (Processer::Run), run expired timers (Scheduler::DoTimer) and       *)
(*     resume runnable tasks.                                              *)
(*                                                                         *)
(* The sections under lock_ do not block inside, so each is one step;      *)
(* everything between two of them is a step of its own.  fn_lock_ of a     *)
(* timer is held over several steps and is explicit (FnLocked).            *)
(*                                                                         *)
(* timer[t][s] is the timer of task t's s-th wait:                         *)
(*   none -> armed -> expired -> check -> cancel -> erased -> marked ->    *)
(*   tail -> over, with "cancelled" reached from armed or expired.         *)
(* armed: in CoTimerMgr; expired: moved to DoTimer's list, not yet called; *)
(* check .. tail: inside the callback, fn_lock_ held.                      *)
(***************************************************************************)
EXTENDS Integers, FiniteSets, Queues

CONSTANTS Task, Waker, Thread,
          InitWakeup,     \* init_wakeup of the constructor
          MaxWakeup,      \* max_wakeup of the constructor
          TimeoutValues,  \* what CoBlockWaitTimed is called with; 0 is zero()
          MaxSeq,         \* bound: blocking waits one task starts
          NoTask

ASSUME ConstAssumption == /\ InitWakeup \in Nat
                          /\ MaxWakeup \in Nat
                          /\ MaxSeq \in Nat
                          /\ TimeoutValues \subseteq Nat
                          /\ NoTask \notin Task

VARIABLES wakeup_,            \* stored signals
          wait_queue_,        \* blocked tasks, oldest first
          pc,                 \* where a task is
          op,                 \* the wait a task called and its timeo
          block_,             \* Task::block_ points to this object
          block_sequence_,    \* Task::block_sequence_
          block_timeout_,     \* Task::block_timeout_
          block_timer_,       \* Task::block_timer_: which timer, 0 for null
          is_block_timeout_,  \* Task::is_block_timeout_
          reference_,         \* RefObject::reference_
          timer,              \* state of each timer
          wpc, wtk,           \* a waker's position in Wakeup and its tk
          thr, tret           \* a plain thread's position, its last result

taskVars == <<pc, op, block_, block_sequence_, block_timeout_, block_timer_,
              is_block_timeout_, reference_, timer>>
wakerVars == <<wpc, wtk>>
threadVars == <<thr, tret>>
vars == <<wakeup_, wait_queue_, taskVars, wakerVars, threadVars>>

Seqs == 1..MaxSeq

TaskPc == {"run", "checked", "sys_block", "waiting", "runnable",
           "ret_true", "ret_false", "done"}
TimerState == {"none", "armed", "expired", "cancelled", "check", "cancel",
               "erased", "marked", "tail", "over"}

\* CoTimer::active_ is still set.
Active(t, s) == timer[t][s] \in {"armed", "expired"}
\* CoTimer::fn_lock_ is held by a thread inside the callback.
FnLocked(t, s) == timer[t][s] \in {"check", "cancel", "erased", "marked", "tail"}

InQueue(t) == Member(wait_queue_, t)

Init == /\ wakeup_ = InitWakeup
        /\ wait_queue_ = <<>>
        /\ pc = [t \in Task |-> "run"]
        /\ op = [t \in Task |-> [kind |-> "wait", timeo |-> 0]]
        /\ block_ = [t \in Task |-> FALSE]
        /\ block_sequence_ = [t \in Task |-> 0]
        /\ block_timeout_ = [t \in Task |-> 0]
        /\ block_timer_ = [t \in Task |-> 0]
        /\ is_block_timeout_ = [t \in Task |-> FALSE]
        /\ reference_ = [t \in Task |-> 1]
        /\ timer = [t \in Task |-> [s \in Seqs |-> "none"]]
        /\ wpc = [w \in Waker |-> "idle"]
        /\ wtk = [w \in Waker |-> NoTask]
        /\ thr = [p \in Thread |-> "idle"]
        /\ tret = [p \in Thread |-> TRUE]
-----------------------------------------------------------------------------
(* The blocking side: CoBlockWait and CoBlockWaitTimed of a coroutine.     *)

\* The first locked section: a stored signal is taken, or the lock is
\* released with nothing recorded yet.
CoBlockWait(t, kind, timeo) ==
    /\ pc[t] = "run"
    /\ block_sequence_[t] < MaxSeq
    /\ op' = [op EXCEPT ![t] = [kind |-> kind, timeo |-> timeo]]
    /\ \/ /\ wakeup_ > 0
          /\ wakeup_' = wakeup_ - 1
          /\ pc' = [pc EXCEPT ![t] = "ret_true"]
       \/ /\ wakeup_ = 0
          /\ pc' = [pc EXCEPT ![t] = "checked"]
          /\ UNCHANGED wakeup_
    /\ UNCHANGED <<wait_queue_, block_, block_sequence_, block_timeout_,
                   block_timer_, is_block_timeout_, reference_, timer,
                   wakerVars, threadVars>>

\* After the unlock: the task records the wait in its own fields and yields.
BlockYield(t) ==
    /\ pc[t] = "checked"
    /\ pc' = [pc EXCEPT ![t] = "sys_block"]
    /\ block_' = [block_ EXCEPT ![t] = TRUE]
    /\ block_sequence_' = [block_sequence_ EXCEPT ![t] = @ + 1]
    /\ block_timeout_' = [block_timeout_ EXCEPT ![t] = op[t].timeo]
    /\ is_block_timeout_' = [is_block_timeout_ EXCEPT ![t] = FALSE]
    /\ UNCHANGED <<wakeup_, wait_queue_, op, block_timer_, reference_, timer,
                   wakerVars, threadVars>>

\* Mutant: the scheduler queues the task without looking at wakeup_ again.
AddWaitTask_NoRecheck(t) ==
    /\ pc[t] = "sys_block"
    /\ wait_queue_' = Append(wait_queue_, t)
    /\ pc' = [pc EXCEPT ![t] = "waiting"]
    /\ reference_' = [reference_ EXCEPT ![t] = @ + 1]
    /\ UNCHANGED <<wakeup_, block_timer_, timer>>
    /\ UNCHANGED <<op, block_, block_sequence_, block_timeout_,
                   is_block_timeout_, wakerVars, threadVars>>

\* Mutant: no timer is armed while block_timer_ holds that of an earlier wait.
AddWaitTask_KeepsTimer(t) ==
    /\ pc[t] = "sys_block"
    /\ \/ /\ wakeup_ > 0
          /\ wakeup_' = wakeup_ - 1
          /\ pc' = [pc EXCEPT ![t] = "runnable"]
          /\ reference_' = [reference_ EXCEPT ![t] = @ + 1]
          /\ UNCHANGED <<wait_queue_, block_timer_, timer>>
       \/ /\ wakeup_ = 0
          /\ wait_queue_' = Append(wait_queue_, t)
          /\ pc' = [pc EXCEPT ![t] = "waiting"]
          /\ IF block_timeout_[t] # 0 /\ block_timer_[t] = 0
             THEN /\ reference_' = [reference_ EXCEPT ![t] = @ + 2]
                  /\ block_timer_' = [block_timer_ EXCEPT ![t] = block_sequence_[t]]
                  /\ timer' = [timer EXCEPT ![t][block_sequence_[t]] = "armed"]
             ELSE /\ reference_' = [reference_ EXCEPT ![t] = @ + 1]
                  /\ UNCHANGED <<block_timer_, timer>>
          /\ UNCHANGED wakeup_
    /\ UNCHANGED <<op, block_, block_sequence_, block_timeout_,
                   is_block_timeout_, wakerVars, threadVars>>

\* Processer::Run, case sys_block: AddWaitTask looks at wakeup_ again; the
\* task is runnable at once, or queued, with a timer when its timeout is
\* not zero.  A queue (wait_queue_ or the processer's runnable list) holds a
\* reference to each task in it, a timer's closure holds another.
AddWaitTask(t) ==
    /\ pc[t] = "sys_block"
    /\ \/ /\ wakeup_ > 0
          /\ wakeup_' = wakeup_ - 1
          /\ pc' = [pc EXCEPT ![t] = "runnable"]
          /\ reference_' = [reference_ EXCEPT ![t] = @ + 1]
          /\ UNCHANGED <<wait_queue_, block_timer_, timer>>
       \/ /\ wakeup_ = 0
          /\ wait_queue_' = Append(wait_queue_, t)
          /\ pc' = [pc EXCEPT ![t] = "waiting"]
          /\ IF block_timeout_[t] # 0
             THEN /\ reference_' = [reference_ EXCEPT ![t] = @ + 2]
                  /\ block_timer_' = [block_timer_ EXCEPT ![t] = block_sequence_[t]]
                  /\ timer' = [timer EXCEPT ![t][block_sequence_[t]] = "armed"]
             ELSE /\ reference_' = [reference_ EXCEPT ![t] = @ + 1]
                  /\ UNCHANGED <<block_timer_, timer>>
          /\ UNCHANGED wakeup_
    /\ UNCHANGED <<op, block_, block_sequence_, block_timeout_,
                   is_block_timeout_, wakerVars, threadVars>>

\* Processer::Run swaps the task in; the wait returns !is_block_timeout_.
Resume(t) ==
    /\ pc[t] = "runnable"
    /\ pc' = [pc EXCEPT ![t] = IF is_block_timeout_[t] THEN "ret_false"
                               ELSE "ret_true"]
    /\ reference_' = [reference_ EXCEPT ![t] = @ - 1]
    /\ UNCHANGED <<wakeup_, wait_queue_, op, block_, block_sequence_,
                   block_timeout_, block_timer_, is_block_timeout_, timer,
                   wakerVars, threadVars>>

\* The caller of the wait goes on.
Return(t) ==
    /\ pc[t] \in {"ret_true", "ret_false"}
    /\ pc' = [pc EXCEPT ![t] = "run"]
    /\ UNCHANGED <<wakeup_, wait_queue_, op, block_, block_sequence_,
                   block_timeout_, block_timer_, is_block_timeout_, reference_,
                   timer, wakerVars, threadVars>>

\* The task function ends: Processer::Run drops the scheduler's reference.
TaskDone(t) ==
    /\ pc[t] = "run"
    /\ pc' = [pc EXCEPT ![t] = "done"]
    /\ reference_' = [reference_ EXCEPT ![t] = @ - 1]
    /\ UNCHANGED <<wakeup_, wait_queue_, op, block_, block_sequence_,
                   block_timeout_, block_timer_, is_block_timeout_,
                   timer, wakerVars, threadVars>>
-----------------------------------------------------------------------------
(* The waking side: Wakeup().                                              *)

\* The locked section: pop the oldest waiter, or store the signal, or
\* refuse it at the limit.
Wakeup(w) ==
    /\ wpc[w] = "idle"
    /\ \/ /\ wait_queue_ # <<>>
          /\ wait_queue_' = Tail(wait_queue_)
          /\ wtk' = [wtk EXCEPT ![w] = Head(wait_queue_)]
          /\ wpc' = [wpc EXCEPT ![w] = "clear"]
          /\ reference_' = [reference_ EXCEPT ![Head(wait_queue_)] = @ - 1]
          /\ UNCHANGED wakeup_
       \/ /\ wait_queue_ = <<>>
          /\ wakeup_' = IF wakeup_ >= MaxWakeup THEN wakeup_ ELSE wakeup_ + 1
          /\ UNCHANGED <<wait_queue_, reference_, wakerVars>>
    /\ UNCHANGED <<pc, op, block_, block_sequence_, block_timeout_,
                   block_timer_, is_block_timeout_, timer, threadVars>>

WakeupClear(w) ==
    /\ wpc[w] = "clear"
    /\ block_' = [block_ EXCEPT ![wtk[w]] = FALSE]
    /\ wpc' = [wpc EXCEPT ![w] = "cancel"]
    /\ UNCHANGED <<wakeup_, wait_queue_, pc, op, block_sequence_, block_timeout_,
                   block_timer_, is_block_timeout_, reference_, timer, wtk,
                   threadVars>>

\* Mutant: Cancel() instead of BlockCancel(), which does not wait for fn_lock_.
WakeupCancel_NoBlock(w) ==
    LET t == wtk[w]
        s == block_timer_[t]
    IN /\ wpc[w] = "cancel"
       /\ IF s # 0 /\ Active(t, s)
          THEN /\ timer' = [timer EXCEPT ![t][s] = "cancelled"]
               /\ reference_' = [reference_ EXCEPT ![t] = @ - 1]
          ELSE UNCHANGED <<timer, reference_>>
       /\ block_timer_' = [block_timer_ EXCEPT ![t] = 0]
       /\ wpc' = [wpc EXCEPT ![w] = "ready"]
       /\ UNCHANGED <<wakeup_, wait_queue_, pc, op, block_, block_sequence_,
                      block_timeout_, is_block_timeout_, wtk, threadVars>>

\* Mutant: the cancelled timer's reference is not given back.
WakeupCancel_NoDecrement(w) ==
    LET t == wtk[w]
        s == block_timer_[t]
    IN /\ wpc[w] = "cancel"
       /\ s # 0 => ~FnLocked(t, s)
       /\ timer' = IF s # 0 /\ Active(t, s)
                   THEN [timer EXCEPT ![t][s] = "cancelled"] ELSE timer
       /\ block_timer_' = [block_timer_ EXCEPT ![t] = 0]
       /\ wpc' = [wpc EXCEPT ![w] = "ready"]
       /\ UNCHANGED reference_
       /\ UNCHANGED <<wakeup_, wait_queue_, pc, op, block_, block_sequence_,
                      block_timeout_, is_block_timeout_, wtk, threadVars>>

\* Mutant: Wakeup returns when the timer could not be cancelled any more.
WakeupCancel_EarlyReturn(w) ==
    LET t == wtk[w]
        s == block_timer_[t]
        live == s # 0 /\ Active(t, s)
    IN /\ wpc[w] = "cancel"
       /\ s # 0 => ~FnLocked(t, s)
       /\ timer' = IF live THEN [timer EXCEPT ![t][s] = "cancelled"] ELSE timer
       /\ reference_' = IF live THEN [reference_ EXCEPT ![t] = @ - 1]
                        ELSE reference_
       /\ block_timer_' = [block_timer_ EXCEPT ![t] = 0]
       /\ wpc' = [wpc EXCEPT ![w] = IF s = 0 \/ live THEN "ready" ELSE "idle"]
       /\ UNCHANGED <<wakeup_, wait_queue_, pc, op, block_, block_sequence_,
                      block_timeout_, is_block_timeout_, wtk, threadVars>>

\* BlockCancelTimer: waits for fn_lock_, then cancels the timer unless its
\* callback has already run; a cancelled timer gives its reference back.
WakeupCancel(w) ==
    LET t == wtk[w]
        s == block_timer_[t]
    IN /\ wpc[w] = "cancel"
       /\ s # 0 => ~FnLocked(t, s)
       /\ IF s # 0 /\ Active(t, s)
          THEN /\ timer' = [timer EXCEPT ![t][s] = "cancelled"]
               /\ reference_' = [reference_ EXCEPT ![t] = @ - 1]
          ELSE UNCHANGED <<timer, reference_>>
       /\ block_timer_' = [block_timer_ EXCEPT ![t] = 0]
       /\ wpc' = [wpc EXCEPT ![w] = "ready"]
       /\ UNCHANGED <<wakeup_, wait_queue_, pc, op, block_, block_sequence_,
                      block_timeout_, is_block_timeout_, wtk, threadVars>>

\* AddTaskRunnable(tk).
WakeupReady(w) ==
    /\ wpc[w] = "ready"
    /\ pc' = [pc EXCEPT ![wtk[w]] = "runnable"]
    /\ wpc' = [wpc EXCEPT ![w] = "idle"]
    /\ wtk' = [wtk EXCEPT ![w] = NoTask]
    /\ reference_' = [reference_ EXCEPT ![wtk[w]] = @ + 1]
    /\ UNCHANGED <<wakeup_, wait_queue_, op, block_, block_sequence_,
                   block_timeout_, block_timer_, is_block_timeout_, timer,
                   threadVars>>
-----------------------------------------------------------------------------
(* The timer of a timed wait, run by Scheduler::DoTimer.                   *)

SetTimer(t, s, from, to) == /\ timer[t][s] = from
                            /\ timer' = [timer EXCEPT ![t][s] = to]

\* CoTimerMgr::GetExpired moves the due timer to the caller's list.
TimerExpire(t, s) ==
    /\ SetTimer(t, s, "armed", "expired")
    /\ UNCHANGED <<wakeup_, wait_queue_, pc, op, block_, block_sequence_,
                   block_timeout_, block_timer_, is_block_timeout_, reference_,
                   wakerVars, threadVars>>

\* CoTimer::operator(): fn_lock_ taken, active_ cleared, fn_ entered.  A
\* cancelled timer is skipped.
TimerFire(t, s) ==
    /\ SetTimer(t, s, "expired", "check")
    /\ UNCHANGED <<wakeup_, wait_queue_, pc, op, block_, block_sequence_,
                   block_timeout_, block_timer_, is_block_timeout_, reference_,
                   wakerVars, threadVars>>

\* The callback compares the task's sequence number with its own.
TimerCheck(t, s) ==
    /\ SetTimer(t, s, "check", IF block_sequence_[t] = s THEN "cancel" ELSE "tail")
    /\ UNCHANGED <<wakeup_, wait_queue_, pc, op, block_, block_sequence_,
                   block_timeout_, block_timer_, is_block_timeout_, reference_,
                   wakerVars, threadVars>>

\* Mutant: the result of wait_queue_.erase is ignored.
CancelWait_IgnoreErase(t, s) ==
    /\ \/ /\ block_[t] /\ block_sequence_[t] = s
          /\ IF InQueue(t)
             THEN \E k \in 1..Len(wait_queue_) :
                     /\ wait_queue_[k] = t
                     /\ wait_queue_' = Without(wait_queue_, k)
                     /\ reference_' = [reference_ EXCEPT ![t] = @ - 1]
             ELSE UNCHANGED <<wait_queue_, reference_>>
          /\ SetTimer(t, s, "cancel", "erased")
       \/ /\ ~block_[t] \/ block_sequence_[t] # s
          /\ SetTimer(t, s, "cancel", "tail")
          /\ UNCHANGED <<wait_queue_, reference_>>
    /\ UNCHANGED <<wakeup_, pc, op, block_, block_sequence_, block_timeout_,
                   block_timer_, is_block_timeout_, wakerVars, threadVars>>

\* CancelWait's locked section.
CancelWait(t, s) ==
    /\ \/ /\ block_[t] /\ block_sequence_[t] = s
          /\ \E k \in 1..Len(wait_queue_) :
                /\ wait_queue_[k] = t
                /\ wait_queue_' = Without(wait_queue_, k)
          /\ reference_' = [reference_ EXCEPT ![t] = @ - 1]
          /\ SetTimer(t, s, "cancel", "erased")
       \/ /\ ~block_[t] \/ block_sequence_[t] # s \/ ~InQueue(t)
          /\ SetTimer(t, s, "cancel", "tail")
          /\ UNCHANGED <<wait_queue_, reference_>>
    /\ UNCHANGED <<wakeup_, pc, op, block_, block_sequence_, block_timeout_,
                   block_timer_, is_block_timeout_, wakerVars, threadVars>>

\* Mutant: is_block_timeout_ is not set.
CancelMark_NoFlag(t, s) ==
    /\ SetTimer(t, s, "erased", "marked")
    /\ block_' = [block_ EXCEPT ![t] = FALSE]
    /\ UNCHANGED <<wakeup_, wait_queue_, pc, op, block_sequence_, block_timeout_,
                   block_timer_, is_block_timeout_, reference_, wakerVars,
                   threadVars>>

\* After the unlock, in_timer being true: the timer is left alone.
CancelMark(t, s) ==
    /\ SetTimer(t, s, "erased", "marked")
    /\ block_' = [block_ EXCEPT ![t] = FALSE]
    /\ is_block_timeout_' = [is_block_timeout_ EXCEPT ![t] = TRUE]
    /\ UNCHANGED <<wakeup_, wait_queue_, pc, op, block_sequence_, block_timeout_,
                   block_timer_, reference_, wakerVars, threadVars>>

\* AddTaskRunnable(tk); the callback is not finished yet.
CancelReady(t, s) ==
    /\ SetTimer(t, s, "marked", "tail")
    /\ pc' = [pc EXCEPT ![t] = "runnable"]
    /\ reference_' = [reference_ EXCEPT ![t] = @ + 1]
    /\ UNCHANGED <<wakeup_, wait_queue_, op, block_, block_sequence_,
                   block_timeout_, block_timer_, is_block_timeout_, wakerVars,
                   threadVars>>

\* tk->DecrementRef(), then fn_lock_ is released.
TimerTail(t, s) ==
    /\ SetTimer(t, s, "tail", "over")
    /\ reference_' = [reference_ EXCEPT ![t] = @ - 1]
    /\ UNCHANGED <<wakeup_, wait_queue_, pc, op, block_, block_sequence_,
                   block_timeout_, block_timer_, is_block_timeout_, wakerVars,
                   threadVars>>
-----------------------------------------------------------------------------
(* Plain threads poll with TryBlockWait and a 10 ms sleep.                 *)

TryBlockWait(p) ==
    /\ thr[p] = "idle"
    /\ wakeup_' = IF wakeup_ > 0 THEN wakeup_ - 1 ELSE wakeup_
    /\ tret' = [tret EXCEPT ![p] = wakeup_ > 0]
    /\ UNCHANGED <<wait_queue_, taskVars, wakerVars, thr>>

ThreadWait(p) ==
    /\ thr[p] = "idle"
    /\ thr' = [thr EXCEPT ![p] = "poll"]
    /\ UNCHANGED <<wakeup_, wait_queue_, taskVars, wakerVars, tret>>

ThreadPoll(p) ==
    /\ thr[p] = "poll"
    /\ wakeup_ > 0
    /\ wakeup_' = wakeup_ - 1
    /\ thr' = [thr EXCEPT ![p] = "idle"]
    /\ UNCHANGED <<wait_queue_, taskVars, wakerVars, tret>>

ThreadWaitTimed(p) ==
    /\ thr[p] = "idle"
    /\ thr' = [thr EXCEPT ![p] = "poll_timed"]
    /\ UNCHANGED <<wakeup_, wait_queue_, taskVars, wakerVars, tret>>

\* The loop of CoBlockWaitTimed ends when TryBlockWait succeeded ("got") or
\* when it failed and the time is up ("expired").
ThreadPollTimed(p) ==
    /\ thr[p] = "poll_timed"
    /\ \/ /\ wakeup_ > 0
          /\ wakeup_' = wakeup_ - 1
          /\ thr' = [thr EXCEPT ![p] = "got"]
       \/ /\ wakeup_ = 0
          /\ thr' = [thr EXCEPT ![p] = "expired"]
          /\ UNCHANGED wakeup_
    /\ UNCHANGED <<wait_queue_, taskVars, wakerVars, tret>>

\* Both ways out of the loop reach the same return false.
ThreadTimedReturn(p) ==
    /\ thr[p] \in {"got", "expired"}
    /\ thr' = [thr EXCEPT ![p] = "idle"]
    /\ tret' = [tret EXCEPT ![p] = FALSE]
    /\ UNCHANGED <<wakeup_, wait_queue_, taskVars, wakerVars>>
-----------------------------------------------------------------------------
TaskStep(t) == \/ BlockYield(t) \/ AddWaitTask(t) \/ Resume(t) \/ Return(t)
StartWait(t) == \/ CoBlockWait(t, "wait", 0)
                \/ \E timeo \in TimeoutValues : CoBlockWait(t, "timed", timeo)
WakerStep(w) == WakeupClear(w) \/ WakeupCancel(w) \/ WakeupReady(w)
TimerStep(t, s) == \/ TimerExpire(t, s) \/ TimerFire(t, s) \/ TimerCheck(t, s)
                   \/ CancelWait(t, s) \/ CancelMark(t, s) \/ CancelReady(t, s)
                   \/ TimerTail(t, s)
ThreadStep(p) == \/ TryBlockWait(p) \/ ThreadWait(p) \/ ThreadPoll(p)
                 \/ ThreadWaitTimed(p) \/ ThreadPollTimed(p)
                 \/ ThreadTimedReturn(p)

Next == \/ \E t \in Task : StartWait(t) \/ TaskStep(t) \/ TaskDone(t)
        \/ \E w \in Waker : Wakeup(w) \/ WakerStep(w)
        \/ \E t \in Task, s \in Seqs : TimerStep(t, s)
        \/ \E p \in Thread : ThreadStep(p)

Spec == Init /\ [][Next]_vars

\* Scheduler threads keep running: a yielded task is switched, a runnable
\* one is resumed, a started Wakeup goes on, a due timer is run.  Nobody is
\* obliged to start a wait, a Wakeup or to end a task.
Fairness == /\ \A t \in Task : WF_vars(TaskStep(t))
            /\ \A w \in Waker : WF_vars(WakerStep(w))
            /\ \A t \in Task, s \in Seqs : WF_vars(TimerStep(t, s))

FairSpec == Spec /\ Fairness
-----------------------------------------------------------------------------
(* Properties.                                                             *)

TypeOK ==
    /\ wakeup_ \in Nat
    /\ wait_queue_ \in Seq(Task)
    /\ pc \in [Task -> TaskPc]
    /\ op \in [Task -> [kind : {"wait", "timed"}, timeo : Nat]]
    /\ block_ \in [Task -> BOOLEAN]
    /\ block_sequence_ \in [Task -> 0..MaxSeq]
    /\ block_timeout_ \in [Task -> Nat]
    /\ block_timer_ \in [Task -> 0..MaxSeq]
    /\ is_block_timeout_ \in [Task -> BOOLEAN]
    /\ reference_ \in [Task -> Int]
    /\ timer \in [Task -> [Seqs -> TimerState]]
    /\ wpc \in [Waker -> {"idle", "clear", "cancel", "ready"}]
    /\ wtk \in [Waker -> Task \cup {NoTask}]
    /\ thr \in [Thread -> {"idle", "poll", "poll_timed", "got", "expired"}]
    /\ tret \in [Thread -> BOOLEAN]

\* No lost wakeup: a signal is never stored while a task is blocked, even
\* though CoBlockWait releases lock_ between finding wakeup_ = 0 and the
\* scheduler's AddWaitTask.
NoStrandedWaiter == wakeup_ > 0 => wait_queue_ = <<>>

HeldByWaker(t) == \E w \in Waker : wtk[w] = t
HeldByTimer(t) == \E s \in Seqs : timer[t][s] \in {"erased", "marked"}

\* A blocked task is in the queue, or in the hands of one Wakeup, or in the
\* hands of one timer callback, never in two of these places: it is made
\* runnable exactly once, whichever of signal and timeout wins.
WokenOnce ==
    /\ NoDup(wait_queue_)
    /\ \A v, w \in Waker : wtk[v] = wtk[w] /\ wtk[v] # NoTask => v = w
    /\ \A t \in Task :
          /\ InQueue(t) => ~HeldByWaker(t) /\ ~HeldByTimer(t)
          /\ HeldByWaker(t) => ~HeldByTimer(t)
          /\ pc[t] = "waiting" <=> InQueue(t) \/ HeldByWaker(t) \/ HeldByTimer(t)

\* A timer whose callback may still act on this object.
LiveTimer == {"armed", "expired", "check", "cancel", "erased", "marked"}

\* What the comment in AddWaitTask demands: a timer that can still reach
\* this object belongs to the wait its task is blocked in at this moment.
\* Once the task may run again, no callback of that wait can touch the
\* object or the next wait.
TimerDiesWithWait ==
    \A t \in Task, s \in Seqs :
       timer[t][s] \in LiveTimer
          => pc[t] = "waiting" /\ block_sequence_[t] = s

\* Timers whose closure still owns a reference to the task.
Owning(t) == {s \in Seqs : Active(t, s) \/ FnLocked(t, s)}

Ref(P) == IF P THEN 1 ELSE 0

\* The reference count is exact: one until the task is done, one while a
\* queue holds the task, one per timer closure that is still to run or
\* running.  Hence no task is freed under a callback, though Wakeup and
\* CancelWait work on it while no queue holds it, and none is leaked by a
\* cancelled timer.
RefExact ==
    \A t \in Task : reference_[t] = Ref(pc[t] # "done")
                                     + Ref(InQueue(t) \/ pc[t] = "runnable")
                                     + Cardinality(Owning(t))

\* The strengthening that makes the properties above inductive: a Wakeup
\* that has passed BlockCancelTimer leaves no live timer behind, block_timer_
\* names the live timer, and the timers of later waits do not exist yet.
WakerInv == \A w \in Waker : wpc[w] = "idle" <=> wtk[w] = NoTask
TimerInv ==
    \A t \in Task, s \in Seqs :
       /\ timer[t][s] \in LiveTimer
             => /\ pc[t] = "waiting"
                /\ block_sequence_[t] = s
                /\ block_timer_[t] = s
                /\ \A w \in Waker : wtk[w] = t => wpc[w] # "ready"
       /\ s > block_sequence_[t] => timer[t][s] = "none"
       /\ pc[t] = "sys_block" /\ s = block_sequence_[t] => timer[t][s] = "none"
SeqInv == \A t \in Task :
             /\ pc[t] = "checked" => block_sequence_[t] < MaxSeq
             /\ pc[t] = "sys_block" => block_sequence_[t] > 0
IInv == /\ TypeOK
        /\ NoStrandedWaiter
        /\ WokenOnce
        /\ WakerInv
        /\ TimerInv
        /\ SeqInv

\* BlockObject implements the semaphore: the task's view of its wait, read
\* off the fields the code sets, follows the abstract one.
Granted(t) == \/ pc[t] = "ret_true"
              \/ pc[t] = "runnable" /\ ~is_block_timeout_[t]
              \/ HeldByWaker(t)
TimedOut(t) == \/ pc[t] = "ret_false"
               \/ pc[t] = "runnable" /\ is_block_timeout_[t]
               \/ HeldByTimer(t)
View(t) == IF Granted(t) THEN "granted"
           ELSE IF TimedOut(t) THEN "timedout"
           ELSE IF pc[t] = "waiting" THEN "waiting"
           ELSE "idle"
stBar == [t \in Task |-> View(t)]

\* The strengthening the refinement needs: while a task is blocked its
\* timeout flag is up exactly when the callback has marked it.
FlagInv == \A t \in Task :
              pc[t] \in {"sys_block", "waiting"}
                 => (is_block_timeout_[t] <=> \E s \in Seqs : timer[t][s] = "marked")

Sem == INSTANCE Semaphore WITH Client <- Task, InitCount <- InitWakeup,
          MaxCount <- MaxWakeup, count <- wakeup_, waiters <- wait_queue_,
          st <- stBar

\* Every step of BlockObject is a step of the semaphore or changes nothing
\* the semaphore shows: each accepted signal is stored or reaches the
\* longest-blocked task, and the value a wait returns is what happened.
ImplementsSemaphore == Sem!Spec

\* A task that Wakeup has taken from the queue does return from its wait.
WokenTaskRuns == \A t \in Task : HeldByWaker(t) ~> pc[t] = "ret_true"

\* "Blocking wait with a timeout" (block_object.h): every timed wait of a
\* coroutine returns even if no signal ever comes.
TimedWaitReturns ==
    \A t \in Task :
       op[t].kind = "timed" /\ pc[t] \in {"checked", "sys_block", "waiting"}
          ~> pc[t] \in {"ret_true", "ret_false"}
=============================================================================
