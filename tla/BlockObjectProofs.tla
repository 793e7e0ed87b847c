-------------------------- MODULE BlockObjectProofs --------------------------
(***************************************************************************)
(* Proofs about BlockObject, for any sets of tasks, wakers and threads and *)
(* any bound on the number of waits.                                       *)
(***************************************************************************)
EXTENDS BlockObject, QueueLemmas, FiniteSetTheorems

-----------------------------------------------------------------------------
(* The inductive invariant.                                                *)

\* What setting one timer's state leaves and changes.
LEMMA TimerUpdate ==
    ASSUME TypeOK, NEW t \in Task, NEW s \in Seqs, NEW v \in TimerState,
           timer' = [timer EXCEPT ![t][s] = v]
    PROVE  /\ timer' \in [Task -> [Seqs -> TimerState]]
           /\ timer'[t][s] = v
           /\ \A x \in Task, r \in Seqs :
                 x # t \/ r # s => timer'[x][r] = timer[x][r]
  <1> DEFINE f == [timer[t] EXCEPT ![s] = v]
  <1>1. timer \in [Task -> [Seqs -> TimerState]]
    BY DEF TypeOK
  <1>2. f \in [Seqs -> TimerState] /\ f[s] = v
    BY <1>1
  <1>3. \A r \in Seqs : r # s => f[r] = timer[t][r]
    BY <1>1
  <1>4. timer' = [timer EXCEPT ![t] = f]
    OBVIOUS
  <1> HIDE DEF f
  <1> QED BY <1>1, <1>2, <1>3, <1>4

\* A fresh object, with nobody blocked and no timer, satisfies the invariant.
LEMMA InitIInv == Init => IInv
  <1> SUFFICES ASSUME Init PROVE IInv
    OBVIOUS
  <1> USE ConstAssumption DEF Init
  <1>1. TypeOK
    BY DEF TypeOK, TaskPc, TimerState, Seqs
  <1>2. NoStrandedWaiter /\ WakerInv /\ TimerInv /\ SeqInv
    BY DEF NoStrandedWaiter, WakerInv, TimerInv, SeqInv, Seqs, LiveTimer
  <1>3. WokenOnce
    BY DEF WokenOnce, NoDup, InQueue, Member, HeldByWaker, HeldByTimer
  <1> QED BY <1>1, <1>2, <1>3 DEF IInv

\* Steps that touch neither the queue nor who holds a task.
LEMMA SamePlaces ==
    ASSUME IInv, UNCHANGED <<wait_queue_, wtk>>,
           \A t \in Task : pc'[t] = "waiting" <=> pc[t] = "waiting",
           \A t \in Task, s \in Seqs :
              timer'[t][s] \in {"erased", "marked"}
                 <=> timer[t][s] \in {"erased", "marked"}
    PROVE  WokenOnce'
  BY DEF IInv, WokenOnce, NoDup, InQueue, Member, HeldByWaker, HeldByTimer

\* Steps that only move a task that is not blocked.
LEMMA MoveTask ==
    ASSUME IInv, NEW t \in Task,
           NEW v \in {"ret_true", "ret_false", "checked", "run", "done"},
           pc[t] \in {"run", "runnable", "ret_true", "ret_false"},
           v = "checked" => block_sequence_[t] < MaxSeq,
           pc' = [pc EXCEPT ![t] = v],
           op' \in [Task -> [kind : {"wait", "timed"}, timeo : Nat]],
           reference_' \in [Task -> Int],
           wakeup_' \in Nat,
           wakeup_' > 0 => wakeup_ > 0,
           UNCHANGED <<wait_queue_, block_, block_sequence_, block_timeout_,
                       block_timer_, is_block_timeout_, timer,
                       wpc, wtk, thr, tret>>
    PROVE  IInv'
  <1>1. TypeOK'
    BY DEF IInv, TypeOK, TaskPc
  <1>2. NoStrandedWaiter' /\ WakerInv'
    BY DEF IInv, NoStrandedWaiter, WakerInv
  <1>3. WokenOnce'
    BY SamePlaces DEF IInv, TypeOK
  <1>4. TimerInv'
    <2>1. \A x \in Task : /\ pc[x] = "waiting" => pc'[x] = "waiting"
                          /\ pc'[x] = "sys_block" => pc[x] = "sys_block"
      BY DEF IInv, TypeOK
    <2> QED BY <2>1 DEF IInv, TimerInv
  <1>5. SeqInv'
    BY DEF IInv, TypeOK, SeqInv
  <1> QED BY <1>1, <1>2, <1>3, <1>4, <1>5 DEF IInv

\* The first locked section of a wait: it takes a signal or decides to block.
LEMMA StartWaitIInv ==
    ASSUME IInv, NEW t \in Task, NEW kind \in {"wait", "timed"},
           NEW timeo \in Nat, CoBlockWait(t, kind, timeo)
    PROVE  IInv'
  <1>1. op' \in [Task -> [kind : {"wait", "timed"}, timeo : Nat]]
    BY DEF CoBlockWait, IInv, TypeOK
  <1>2. CASE wakeup_ > 0
    <2>1. /\ wakeup_' \in Nat
          /\ pc' = [pc EXCEPT ![t] = "ret_true"]
          /\ reference_' \in [Task -> Int]
      BY <1>2 DEF CoBlockWait, IInv, TypeOK
    <2> QED BY <1>1, <1>2, <2>1, MoveTask DEF CoBlockWait, wakerVars, threadVars
  <1>3. CASE wakeup_ = 0
    <2>1. /\ wakeup_' = 0
          /\ pc' = [pc EXCEPT ![t] = "checked"]
          /\ reference_' \in [Task -> Int]
      BY <1>3 DEF CoBlockWait, IInv, TypeOK
    <2> QED BY <1>1, <1>3, <2>1, MoveTask DEF CoBlockWait, wakerVars, threadVars
  <1> QED BY <1>2, <1>3 DEF CoBlockWait

\* A runnable task is neither queued nor held, so running it moves nothing.
LEMMA ResumeIInv == ASSUME IInv, NEW t \in Task, Resume(t) PROVE IInv'
  <1> DEFINE v == IF is_block_timeout_[t] THEN "ret_false" ELSE "ret_true"
  <1>1. pc' = [pc EXCEPT ![t] = v]
    BY DEF Resume
  <1>2. v \in {"ret_true", "ret_false"}
    OBVIOUS
  <1>3. /\ wakeup_' \in Nat /\ reference_' \in [Task -> Int]
        /\ op' \in [Task -> [kind : {"wait", "timed"}, timeo : Nat]]
    BY DEF Resume, IInv, TypeOK
  <1> HIDE DEF v
  <1> QED BY <1>1, <1>2, <1>3, MoveTask DEF Resume, wakerVars, threadVars

\* The return of a wait touches the task's position only.
LEMMA ReturnIInv == ASSUME IInv, NEW t \in Task, Return(t) PROVE IInv'
  <1>1. /\ wakeup_' \in Nat /\ reference_' \in [Task -> Int]
        /\ op' \in [Task -> [kind : {"wait", "timed"}, timeo : Nat]]
    BY DEF Return, IInv, TypeOK
  <1> QED BY <1>1, MoveTask DEF Return, wakerVars, threadVars

\* A task that ends is neither queued nor held.
LEMMA TaskDoneIInv == ASSUME IInv, NEW t \in Task, TaskDone(t) PROVE IInv'
  <1>1. /\ wakeup_' \in Nat /\ reference_' \in [Task -> Int]
        /\ op' \in [Task -> [kind : {"wait", "timed"}, timeo : Nat]]
    BY DEF TaskDone, IInv, TypeOK
  <1> QED BY <1>1, MoveTask DEF TaskDone, wakerVars, threadVars

\* The unlocked part of a wait: the new sequence number has no timer yet.
LEMMA BlockYieldIInv == ASSUME IInv, NEW t \in Task, BlockYield(t) PROVE IInv'
  <1> USE DEF BlockYield, wakerVars, threadVars
  <1>1. block_sequence_[t] < MaxSeq /\ pc[t] = "checked"
    BY DEF IInv, SeqInv
  <1>2. TypeOK'
    BY <1>1, ConstAssumption DEF IInv, TypeOK, TaskPc
  <1>3. NoStrandedWaiter' /\ WakerInv'
    BY DEF IInv, NoStrandedWaiter, WakerInv
  <1>4. WokenOnce'
    BY SamePlaces DEF IInv, TypeOK
  <1>5. TimerInv'
    BY ConstAssumption DEF IInv, TypeOK, TimerInv, LiveTimer, Seqs
  <1>6. SeqInv'
    BY ConstAssumption DEF IInv, TypeOK, SeqInv
  <1> QED BY <1>2, <1>3, <1>4, <1>5, <1>6 DEF IInv

\* The second look at wakeup_ keeps NoStrandedWaiter; the armed timer is
\* that of the current wait.
LEMMA AddWaitTaskIInv == ASSUME IInv, NEW t \in Task, AddWaitTask(t) PROVE IInv'
  <1>0. /\ pc[t] = "sys_block"
        /\ UNCHANGED <<op, block_, block_sequence_, block_timeout_,
                       is_block_timeout_, wpc, wtk, thr, tret>>
        /\ block_sequence_[t] \in Seqs
        /\ timer[t][block_sequence_[t]] = "none"
    BY ConstAssumption
       DEF AddWaitTask, wakerVars, threadVars, IInv, TypeOK, SeqInv, TimerInv, Seqs
  <1>1. CASE wakeup_ > 0
    <2>1. /\ wakeup_' = wakeup_ - 1
          /\ pc' = [pc EXCEPT ![t] = "runnable"]
          /\ UNCHANGED <<wait_queue_, block_timer_, timer>>
          /\ reference_' = [reference_ EXCEPT ![t] = @ + 1]
      BY <1>1 DEF AddWaitTask
    <2>2. TypeOK'
      BY <1>0, <1>1, <2>1 DEF IInv, TypeOK, TaskPc
    <2>3. NoStrandedWaiter' /\ WakerInv'
      BY <1>0, <1>1, <2>1 DEF IInv, NoStrandedWaiter, WakerInv
    <2>4. WokenOnce'
      BY <1>0, <2>1, SamePlaces DEF IInv, TypeOK
    <2>5. TimerInv'
      BY <1>0, <2>1 DEF IInv, TypeOK, TimerInv, LiveTimer
    <2>6. SeqInv'
      BY <1>0, <2>1 DEF IInv, TypeOK, SeqInv
    <2> QED BY <2>2, <2>3, <2>4, <2>5, <2>6 DEF IInv
  <1>2. CASE wakeup_ = 0
    <2>1. /\ wait_queue_' = Append(wait_queue_, t)
          /\ pc' = [pc EXCEPT ![t] = "waiting"]
          /\ wakeup_' = wakeup_
      BY <1>2 DEF AddWaitTask
    <2>2. \/ /\ UNCHANGED <<block_timer_, timer>>
             /\ reference_' = [reference_ EXCEPT ![t] = @ + 1]
          \/ /\ block_timer_' = [block_timer_ EXCEPT ![t] = block_sequence_[t]]
             /\ timer' = [timer EXCEPT ![t][block_sequence_[t]] = "armed"]
             /\ reference_' = [reference_ EXCEPT ![t] = @ + 2]
      BY <1>2 DEF AddWaitTask
    <2>3. ~InQueue(t) /\ ~HeldByWaker(t) /\ ~HeldByTimer(t)
      BY <1>0 DEF IInv, WokenOnce
    <2>4. wait_queue_' \in Seq(Task)
      BY <2>1, QueueAppend DEF IInv, TypeOK
    <2>5. /\ block_timer_' \in [Task -> 0..MaxSeq]
          /\ timer' \in [Task -> [Seqs -> TimerState]]
          /\ reference_' \in [Task -> Int]
      <3>1. CASE /\ UNCHANGED <<block_timer_, timer>>
                 /\ reference_' = [reference_ EXCEPT ![t] = @ + 1]
        BY <3>1 DEF IInv, TypeOK
      <3>2. CASE /\ block_timer_' = [block_timer_ EXCEPT ![t] = block_sequence_[t]]
                 /\ timer' = [timer EXCEPT ![t][block_sequence_[t]] = "armed"]
                 /\ reference_' = [reference_ EXCEPT ![t] = @ + 2]
        <4>1. timer' \in [Task -> [Seqs -> TimerState]]
          BY <1>0, <3>2, TimerUpdate DEF IInv, TimerState
        <4> QED BY <1>0, <3>2, <4>1 DEF IInv, TypeOK
      <3> QED BY <2>2, <3>1, <3>2
    <2>6. TypeOK'
      BY <1>0, <2>1, <2>4, <2>5 DEF IInv, TypeOK, TaskPc
    <2>7. NoStrandedWaiter' /\ WakerInv'
      BY <1>0, <1>2, <2>1 DEF IInv, NoStrandedWaiter, WakerInv
    <2>8. WokenOnce'
      <3>1. NoDup(wait_queue_)'
        BY <2>1, <2>3, QueueAppend DEF IInv, TypeOK, WokenOnce, InQueue
      <3>2. \A x \in Task : InQueue(x)' <=> InQueue(x) \/ x = t
        BY <2>1, QueueAppend DEF IInv, TypeOK, InQueue
      <3>3. \A x \in Task : HeldByWaker(x)' <=> HeldByWaker(x)
        BY <1>0 DEF HeldByWaker
      <3>4. \A x \in Task : HeldByTimer(x)' <=> HeldByTimer(x)
        <4>1. \A x \in Task, s \in Seqs :
                 timer'[x][s] \in {"erased", "marked"}
                    <=> timer[x][s] \in {"erased", "marked"}
          BY <1>0, <2>2, TimerUpdate DEF IInv, TimerState
        <4> QED BY <4>1 DEF HeldByTimer
      <3>5. \A x \in Task : pc'[x] = "waiting" <=> pc[x] = "waiting" \/ x = t
        BY <2>1 DEF IInv, TypeOK
      <3> QED BY <1>0, <2>3, <3>1, <3>2, <3>3, <3>4, <3>5 DEF IInv, WokenOnce
    <2>9. SeqInv'
      BY <1>0, <2>1 DEF IInv, TypeOK, SeqInv
    <2>10. TimerInv'
      <3>1. CASE UNCHANGED <<block_timer_, timer>>
        BY <1>0, <2>1, <3>1 DEF IInv, TypeOK, TimerInv, LiveTimer
      <3>2. CASE /\ block_timer_' = [block_timer_ EXCEPT ![t] = block_sequence_[t]]
                 /\ timer' = [timer EXCEPT ![t][block_sequence_[t]] = "armed"]
        <4>1. \A w \in Waker : wtk[w] # t
          BY <2>3 DEF HeldByWaker
        <4>2. /\ timer'[t][block_sequence_[t]] = "armed"
              /\ \A x \in Task, r \in Seqs :
                    x # t \/ r # block_sequence_[t] => timer'[x][r] = timer[x][r]
          BY <1>0, <3>2, TimerUpdate DEF IInv, TimerState
        <4>3. /\ \A x \in Task : x # t => /\ pc'[x] = pc[x]
                                          /\ block_timer_'[x] = block_timer_[x]
              /\ pc'[t] = "waiting" /\ block_timer_'[t] = block_sequence_[t]
              /\ block_sequence_' = block_sequence_
              /\ wtk' = wtk /\ wpc' = wpc
          BY <1>0, <2>1, <3>2 DEF IInv, TypeOK
        <4>4. TimerInv
          BY DEF IInv
        <4>5. \A r \in Seqs : r # block_sequence_[t] => timer[t][r] \notin LiveTimer
          BY <4>4 DEF TimerInv
        <4>6. \A r \in Seqs : r > block_sequence_[t] => r # block_sequence_[t]
          BY <1>0, ConstAssumption DEF Seqs
        <4> QED BY <1>0, <4>1, <4>2, <4>3, <4>4, <4>5, <4>6 DEF TimerInv, LiveTimer
      <3> QED BY <2>2, <3>1, <3>2
    <2> QED BY <2>6, <2>7, <2>8, <2>9, <2>10 DEF IInv
  <1>3. wakeup_ > 0 \/ wakeup_ = 0
    BY DEF IInv, TypeOK
  <1> QED BY <1>1, <1>2, <1>3
-----------------------------------------------------------------------------
(* Wakeup.                                                                 *)

\* The popped task passes from the queue to one waker; a signal is stored
\* only over an empty queue.
LEMMA WakeupIInv == ASSUME IInv, NEW w \in Waker, Wakeup(w) PROVE IInv'
  <1>0. UNCHANGED <<pc, op, block_, block_sequence_, block_timeout_, block_timer_,
                    is_block_timeout_, timer, thr, tret>>
    BY DEF Wakeup, threadVars
  <1>1. CASE wait_queue_ = <<>>
    <2>1. wakeup_' \in Nat /\ UNCHANGED <<wait_queue_, wpc, wtk, reference_>>
      BY <1>1 DEF Wakeup, wakerVars, IInv, TypeOK
    <2>2. TypeOK'
      BY <1>0, <2>1 DEF IInv, TypeOK
    <2>3. NoStrandedWaiter' /\ WakerInv' /\ TimerInv' /\ SeqInv'
      BY <1>0, <1>1, <2>1 DEF IInv, NoStrandedWaiter, WakerInv, TimerInv, SeqInv
    <2>4. WokenOnce'
      BY <1>0, <2>1, SamePlaces
    <2> QED BY <2>2, <2>3, <2>4 DEF IInv
  <1>2. CASE wait_queue_ # <<>>
    <2> DEFINE t == Head(wait_queue_)
    <2>1. /\ wait_queue_' = Tail(wait_queue_)
          /\ wtk' = [wtk EXCEPT ![w] = t]
          /\ wpc' = [wpc EXCEPT ![w] = "clear"]
          /\ wakeup_' = wakeup_
          /\ wpc[w] = "idle"
          /\ reference_' = [reference_ EXCEPT ![t] = @ - 1]
      BY <1>2 DEF Wakeup
    <2>2. /\ wait_queue_' \in Seq(Task)
          /\ t \in Task
          /\ InQueue(t)
          /\ \A x : InQueue(x)' <=> InQueue(x) /\ x # t
          /\ NoDup(wait_queue_)'
      BY <1>2, <2>1, QueueTail DEF IInv, TypeOK, WokenOnce, InQueue
    <2> HIDE DEF t
    <2>3. wtk[w] = NoTask /\ t # NoTask
      BY <2>1, <2>2, ConstAssumption DEF IInv, WakerInv
    <2>4. TypeOK'
      <3>0. reference_ \in [Task -> Int]
        BY DEF IInv, TypeOK
      <3>1. reference_' \in [Task -> Int]
        BY <2>1, <2>2, <3>0
      <3>2. /\ wtk \in [Waker -> Task \cup {NoTask}]
            /\ wpc \in [Waker -> {"idle", "clear", "cancel", "ready"}]
        BY DEF IInv, TypeOK
      <3>3. /\ wtk' \in [Waker -> Task \cup {NoTask}]
            /\ wpc' \in [Waker -> {"idle", "clear", "cancel", "ready"}]
        BY <2>1, <2>2, <3>2
      <3> QED BY <1>0, <2>1, <2>2, <3>1, <3>3 DEF IInv, TypeOK
    <2>5. NoStrandedWaiter'
      BY <1>2, <2>1 DEF IInv, NoStrandedWaiter
    <2>6. WakerInv'
      BY <2>1, <2>3 DEF IInv, TypeOK, WakerInv
    <2>7. TimerInv' /\ SeqInv'
      BY <1>0, <2>1 DEF IInv, TypeOK, TimerInv, SeqInv
    <2>8. WokenOnce'
      <3>1. \A x \in Task : HeldByWaker(x)' <=> HeldByWaker(x) \/ x = t
        <4>1. wtk'[w] = t /\ \A v \in Waker : v # w => wtk'[v] = wtk[v]
          BY <2>1 DEF IInv, TypeOK
        <4> QED BY <2>3, <4>1, ConstAssumption DEF HeldByWaker
      <3>2. \A x \in Task : HeldByTimer(x)' <=> HeldByTimer(x)
        BY <1>0 DEF HeldByTimer
      <3>3. ~HeldByWaker(t)
        BY <2>2 DEF IInv, WokenOnce
      <3>4. \A u, v \in Waker : wtk'[u] = wtk'[v] /\ wtk'[u] # NoTask => u = v
        <4>1. wtk'[w] = t /\ \A v \in Waker : v # w => wtk'[v] = wtk[v]
          BY <2>1 DEF IInv, TypeOK
        <4>2. \A v \in Waker : wtk[v] # t
          BY <3>3 DEF HeldByWaker
        <4> QED BY <4>1, <4>2 DEF IInv, WokenOnce
      <3>5. \A x \in Task :
              /\ InQueue(x)' => ~HeldByWaker(x)' /\ ~HeldByTimer(x)'
              /\ HeldByWaker(x)' => ~HeldByTimer(x)'
              /\ pc'[x] = "waiting"
                    <=> InQueue(x)' \/ HeldByWaker(x)' \/ HeldByTimer(x)'
        BY <1>0, <2>2, <3>1, <3>2 DEF IInv, WokenOnce
      <3> QED BY <2>2, <3>4, <3>5 DEF WokenOnce
    <2> QED BY <2>4, <2>5, <2>6, <2>7, <2>8 DEF IInv
  <1> QED BY <1>1, <1>2

\* The task a waker has in hand.
LEMMA HeldTask ==
    ASSUME IInv, NEW w \in Waker, wpc[w] # "idle"
    PROVE  /\ wtk[w] \in Task
           /\ HeldByWaker(wtk[w])
           /\ pc[wtk[w]] = "waiting"
           /\ ~InQueue(wtk[w]) /\ ~HeldByTimer(wtk[w])
           /\ \A v \in Waker : wtk[v] = wtk[w] => v = w
  <1>1. wtk[w] \in Task /\ wtk[w] # NoTask
    BY DEF IInv, WakerInv, TypeOK
  <1>2. HeldByWaker(wtk[w])
    BY DEF HeldByWaker
  <1> QED BY <1>1, <1>2 DEF IInv, WokenOnce

\* Clearing block_ leaves the waker holding the task.
LEMMA WakeupClearIInv == ASSUME IInv, NEW w \in Waker, WakeupClear(w) PROVE IInv'
  <1>0. /\ wpc[w] = "clear"
        /\ wpc' = [wpc EXCEPT ![w] = "cancel"]
        /\ block_' = [block_ EXCEPT ![wtk[w]] = FALSE]
        /\ UNCHANGED <<wakeup_, wait_queue_, pc, op, block_sequence_,
                       block_timeout_, block_timer_, is_block_timeout_,
                       reference_, timer, wtk, thr, tret>>
    BY DEF WakeupClear, threadVars
  <1>1. block_' \in [Task -> BOOLEAN]
    BY <1>0 DEF IInv, TypeOK
  <1>2. TypeOK'
    BY <1>0, <1>1 DEF IInv, TypeOK
  <1>3. NoStrandedWaiter' /\ SeqInv'
    BY <1>0 DEF IInv, NoStrandedWaiter, SeqInv
  <1>4. WakerInv' /\ TimerInv'
    BY <1>0 DEF IInv, TypeOK, WakerInv, TimerInv
  <1>5. WokenOnce'
    BY <1>0, SamePlaces
  <1> QED BY <1>2, <1>3, <1>4, <1>5 DEF IInv

\* BlockCancel waits for fn_lock_, so no live timer is left behind it.
LEMMA WakeupCancelIInv == ASSUME IInv, NEW w \in Waker, WakeupCancel(w) PROVE IInv'
  <1> DEFINE t == wtk[w]
             s == block_timer_[t]
  <1>0. /\ wpc[w] = "cancel"
        /\ s # 0 => ~FnLocked(t, s)
        /\ wpc' = [wpc EXCEPT ![w] = "ready"]
        /\ block_timer_' = [block_timer_ EXCEPT ![t] = 0]
        /\ UNCHANGED <<wakeup_, wait_queue_, pc, op, block_, block_sequence_,
                       block_timeout_, is_block_timeout_, wtk, thr, tret>>
    BY DEF WakeupCancel, threadVars
  <1>1. /\ t \in Task
        /\ \A v \in Waker : wtk[v] = t => v = w
    BY <1>0, HeldTask
  <1>2. s \in 0..MaxSeq /\ (s # 0 => s \in Seqs)
    BY <1>1, ConstAssumption DEF IInv, TypeOK, Seqs
  <1>3. \/ UNCHANGED <<timer, reference_>> /\ ~(s # 0 /\ Active(t, s))
        \/ /\ s # 0 /\ Active(t, s)
           /\ timer' = [timer EXCEPT ![t][s] = "cancelled"]
           /\ reference_' = [reference_ EXCEPT ![t] = @ - 1]
    BY DEF WakeupCancel
  <1> HIDE DEF t, s
  <1>4. /\ timer' \in [Task -> [Seqs -> TimerState]]
        /\ \A x \in Task, r \in Seqs :
              timer'[x][r] = IF s # 0 /\ Active(t, s) /\ x = t /\ r = s
                             THEN "cancelled" ELSE timer[x][r]
    <2>1. CASE ~(s # 0 /\ Active(t, s))
      BY <1>3, <2>1 DEF IInv, TypeOK
    <2>2. CASE s # 0 /\ Active(t, s)
      BY <1>1, <1>2, <1>3, <2>2, TimerUpdate DEF IInv, TimerState
    <2> QED BY <2>1, <2>2
  <1>5. reference_' \in [Task -> Int]
    BY <1>1, <1>3 DEF IInv, TypeOK
  <1>6. block_timer_' \in [Task -> 0..MaxSeq]
    BY <1>0, <1>1, ConstAssumption DEF IInv, TypeOK
  <1>7. TypeOK'
    BY <1>0, <1>4, <1>5, <1>6 DEF IInv, TypeOK
  <1>8. NoStrandedWaiter' /\ SeqInv'
    BY <1>0 DEF IInv, NoStrandedWaiter, SeqInv
  <1>9. WakerInv'
    BY <1>0 DEF IInv, TypeOK, WakerInv
  <1>10. WokenOnce'
    BY <1>0, <1>4, SamePlaces DEF Active
  <1>11. \A r \in Seqs : timer'[t][r] \notin LiveTimer
    <2>1. ASSUME NEW r \in Seqs, timer[t][r] \in LiveTimer
          PROVE  r = s /\ s # 0 /\ Active(t, s)
      <3>1. r = s
        BY <1>1, <2>1 DEF IInv, TimerInv, s
      <3>2. s # 0
        BY <3>1, ConstAssumption DEF Seqs
      <3> QED BY <1>0, <2>1, <3>1, <3>2 DEF Active, FnLocked, LiveTimer, s, t
    <2>2. \A r \in Seqs : timer[t][r] \notin LiveTimer
                            \/ (r = s /\ s # 0 /\ Active(t, s))
      BY <2>1
    <2> QED BY <1>1, <1>4, <2>2 DEF LiveTimer
  <1>12. TimerInv'
    <2>1. TimerInv
      BY DEF IInv
    <2>2. \A x \in Task : x # t => block_timer_'[x] = block_timer_[x]
      BY <1>0, <1>1 DEF IInv, TypeOK
    <2>3. \A x \in Task, r \in Seqs : x # t => timer'[x][r] = timer[x][r]
      BY <1>4
    <2>4. \A v \in Waker : v # w => wpc'[v] = wpc[v]
      BY <1>0 DEF IInv, TypeOK
    <2>5. \A r \in Seqs : timer[t][r] = "none" => timer'[t][r] = "none"
      BY <1>1, <1>4 DEF Active
    <2> QED BY <1>0, <1>1, <1>11, <2>1, <2>2, <2>3, <2>4, <2>5 DEF TimerInv, t
  <1> QED BY <1>7, <1>8, <1>9, <1>10, <1>12 DEF IInv

\* The waker hands over a task that has no live timer.
LEMMA WakeupReadyIInv == ASSUME IInv, NEW w \in Waker, WakeupReady(w) PROVE IInv'
  <1> DEFINE t == wtk[w]
  <1>0. /\ wpc[w] = "ready"
        /\ pc' = [pc EXCEPT ![t] = "runnable"]
        /\ wpc' = [wpc EXCEPT ![w] = "idle"]
        /\ wtk' = [wtk EXCEPT ![w] = NoTask]
        /\ UNCHANGED <<wakeup_, wait_queue_, op, block_, block_sequence_,
                       block_timeout_, block_timer_, is_block_timeout_,
                       timer, thr, tret>>
        /\ reference_' = [reference_ EXCEPT ![t] = @ + 1]
    BY DEF WakeupReady, threadVars
  <1>1. /\ t \in Task
        /\ ~InQueue(t) /\ ~HeldByTimer(t)
        /\ \A v \in Waker : wtk[v] = t => v = w
    BY <1>0, HeldTask
  <1>2. t # NoTask /\ t = wtk[w]
    BY <1>1, ConstAssumption
  <1> HIDE DEF t
  <1>3. TypeOK'
    <2>1. reference_' \in [Task -> Int]
      BY <1>0, <1>1 DEF IInv, TypeOK
    <2> QED BY <1>0, <2>1 DEF IInv, TypeOK, TaskPc
  <1>4. NoStrandedWaiter'
    BY <1>0 DEF IInv, NoStrandedWaiter
  <1>5. WakerInv'
    BY <1>0 DEF IInv, TypeOK, WakerInv
  <1>6. SeqInv'
    BY <1>0, <1>1 DEF IInv, TypeOK, SeqInv
  <1>7. /\ wtk'[w] = NoTask
        /\ \A v \in Waker : v # w => wtk'[v] = wtk[v] /\ wpc'[v] = wpc[v]
        /\ pc'[t] = "runnable"
        /\ \A x \in Task : x # t => pc'[x] = pc[x]
    BY <1>0, <1>1 DEF IInv, TypeOK
  <1>8. TimerInv'
    <2>1. \A r \in Seqs : timer[t][r] \notin LiveTimer
      BY <1>0, <1>1, <1>2 DEF IInv, TimerInv
    <2>2. \A x \in Task, v \in Waker : wtk'[v] = x => wtk[v] = x /\ wpc'[v] = wpc[v]
      BY <1>7, ConstAssumption
    <2> QED BY <1>0, <1>7, <2>1, <2>2 DEF IInv, TimerInv
  <1>9. WokenOnce'
    <2>1. \A x \in Task : HeldByWaker(x)' <=> HeldByWaker(x) /\ x # t
      BY <1>1, <1>2, <1>7, ConstAssumption DEF HeldByWaker
    <2>2. \A x \in Task : /\ HeldByTimer(x)' <=> HeldByTimer(x)
                          /\ InQueue(x)' <=> InQueue(x)
      BY <1>0 DEF HeldByTimer, InQueue
    <2>3. \A u, v \in Waker : wtk'[u] = wtk'[v] /\ wtk'[u] # NoTask => u = v
      BY <1>7 DEF IInv, WokenOnce
    <2>4. NoDup(wait_queue_)'
      BY <1>0 DEF IInv, WokenOnce
    <2> QED BY <1>1, <1>7, <2>1, <2>2, <2>3, <2>4 DEF IInv, WokenOnce
  <1> QED BY <1>3, <1>4, <1>5, <1>6, <1>8, <1>9 DEF IInv
-----------------------------------------------------------------------------
(* The timer callback.                                                     *)

\* A timer moves on without taking or giving up its task.
LEMMA MoveTimer ==
    ASSUME IInv, NEW t \in Task, NEW s \in Seqs, NEW v \in TimerState,
           timer[t][s] # "none", v # "none",
           v \in LiveTimer => timer[t][s] \in LiveTimer,
           v \in {"erased", "marked"} <=> timer[t][s] \in {"erased", "marked"},
           timer' = [timer EXCEPT ![t][s] = v],
           block_' \in [Task -> BOOLEAN],
           is_block_timeout_' \in [Task -> BOOLEAN],
           reference_' \in [Task -> Int],
           UNCHANGED <<wakeup_, wait_queue_, pc, op, block_sequence_,
                       block_timeout_, block_timer_, wpc, wtk, thr, tret>>
    PROVE  IInv'
  <1>1. /\ timer' \in [Task -> [Seqs -> TimerState]]
        /\ timer'[t][s] = v
        /\ \A x \in Task, r \in Seqs :
              x # t \/ r # s => timer'[x][r] = timer[x][r]
    <2> DEFINE f == [timer[t] EXCEPT ![s] = v]
    <2>1. timer \in [Task -> [Seqs -> TimerState]]
      BY DEF IInv, TypeOK
    <2>2. f \in [Seqs -> TimerState] /\ f[s] = v
      BY <2>1
    <2>3. \A r \in Seqs : r # s => f[r] = timer[t][r]
      BY <2>1
    <2>4. timer' = [timer EXCEPT ![t] = f]
      OBVIOUS
    <2> HIDE DEF f
    <2> QED BY <2>1, <2>2, <2>3, <2>4
  <1>2. TypeOK'
    BY <1>1 DEF IInv, TypeOK
  <1>3. NoStrandedWaiter' /\ WakerInv' /\ SeqInv'
    BY DEF IInv, NoStrandedWaiter, WakerInv, SeqInv
  <1>4. WokenOnce'
    <2>1. \A x \in Task, r \in Seqs :
             timer'[x][r] \in {"erased", "marked"}
                <=> timer[x][r] \in {"erased", "marked"}
      BY <1>1
    <2> QED BY <2>1, SamePlaces
  <1>5. TimerInv'
    <2>1. \A x \in Task, r \in Seqs :
             /\ timer'[x][r] \in LiveTimer => timer[x][r] \in LiveTimer
             /\ timer[x][r] = "none" => timer'[x][r] = "none"
      BY <1>1
    <2> QED BY <2>1 DEF IInv, TimerInv
  <1> QED BY <1>2, <1>3, <1>4, <1>5 DEF IInv

\* The timer steps that change nothing but the timer and the task's flags.
LEMMA TimerMovesIInv ==
    ASSUME IInv, NEW t \in Task, NEW s \in Seqs,
           \/ TimerExpire(t, s) \/ TimerFire(t, s) \/ TimerCheck(t, s)
           \/ CancelMark(t, s) \/ TimerTail(t, s)
    PROVE  IInv'
  <1> USE DEF SetTimer, wakerVars, threadVars
  <1>0. /\ block_ \in [Task -> BOOLEAN]
        /\ is_block_timeout_ \in [Task -> BOOLEAN]
        /\ reference_ \in [Task -> Int]
    BY DEF IInv, TypeOK
  <1>1. CASE TimerExpire(t, s)
    BY <1>0, <1>1, MoveTimer DEF TimerExpire, TimerState, LiveTimer
  <1>2. CASE TimerFire(t, s)
    BY <1>0, <1>2, MoveTimer DEF TimerFire, TimerState, LiveTimer
  <1>3. CASE TimerCheck(t, s)
    <2> DEFINE v == IF block_sequence_[t] = s THEN "cancel" ELSE "tail"
    <2>1. v \in {"cancel", "tail"}
      OBVIOUS
    <2>2. timer[t][s] = "check" /\ timer' = [timer EXCEPT ![t][s] = v]
      BY <1>3 DEF TimerCheck
    <2> HIDE DEF v
    <2> QED BY <1>0, <1>3, <2>1, <2>2, MoveTimer
            DEF TimerCheck, TimerState, LiveTimer
  <1>4. CASE CancelMark(t, s)
    <2>1. /\ block_' \in [Task -> BOOLEAN]
          /\ is_block_timeout_' \in [Task -> BOOLEAN]
      BY <1>0, <1>4 DEF CancelMark
    <2> QED BY <1>0, <1>4, <2>1, MoveTimer DEF CancelMark, TimerState, LiveTimer
  <1>5. CASE TimerTail(t, s)
    <2>1. reference_' \in [Task -> Int]
      BY <1>0, <1>5 DEF TimerTail
    <2> QED BY <1>0, <1>5, <2>1, MoveTimer DEF TimerTail, TimerState, LiveTimer
  <1> QED BY <1>1, <1>2, <1>3, <1>4, <1>5

\* A task erased from the queue passes to the callback, to nobody else.
LEMMA CancelWaitIInv ==
    ASSUME IInv, NEW t \in Task, NEW s \in Seqs, CancelWait(t, s)
    PROVE  IInv'
  <1>0. /\ timer[t][s] = "cancel"
        /\ UNCHANGED <<wakeup_, pc, op, block_, block_sequence_, block_timeout_,
                       block_timer_, is_block_timeout_, wpc, wtk, thr, tret>>
        /\ reference_' \in [Task -> Int]
    <2>1. reference_ \in [Task -> Int]
      BY DEF IInv, TypeOK
    <2> QED BY <2>1 DEF CancelWait, SetTimer, wakerVars, threadVars
  <1>1. CASE UNCHANGED wait_queue_ /\ timer' = [timer EXCEPT ![t][s] = "tail"]
    <2>1. /\ block_' \in [Task -> BOOLEAN]
          /\ is_block_timeout_' \in [Task -> BOOLEAN]
          /\ reference_' \in [Task -> Int]
      BY <1>0 DEF IInv, TypeOK
    <2>2. /\ "tail" \in TimerState /\ "tail" \notin LiveTimer
          /\ timer[t][s] \notin {"erased", "marked", "none"}
      BY <1>0 DEF TimerState, LiveTimer
    <2> QED BY <1>0, <1>1, <2>1, <2>2, MoveTimer
  <1>2. ASSUME NEW k \in 1..Len(wait_queue_), wait_queue_[k] = t,
               wait_queue_' = Without(wait_queue_, k),
               timer' = [timer EXCEPT ![t][s] = "erased"]
        PROVE  IInv'
    <2>1. /\ wait_queue_' \in Seq(Task)
          /\ \A x : InQueue(x)' <=> InQueue(x) /\ x # t
          /\ NoDup(wait_queue_)'
      BY <1>2, QueueWithout DEF IInv, TypeOK, WokenOnce, InQueue
    <2>2. InQueue(t)
      BY <1>2 DEF InQueue, Member
    <2>3. /\ timer' \in [Task -> [Seqs -> TimerState]]
          /\ timer'[t][s] = "erased"
          /\ \A x \in Task, r \in Seqs :
                x # t \/ r # s => timer'[x][r] = timer[x][r]
      BY <1>2, TimerUpdate DEF IInv, TimerState
    <2>4. TypeOK'
      BY <1>0, <2>1, <2>3 DEF IInv, TypeOK
    <2>5. NoStrandedWaiter'
      <3>1. wait_queue_ # <<>>
        BY <1>2
      <3> QED BY <1>0, <3>1 DEF IInv, NoStrandedWaiter
    <2>6. WakerInv' /\ SeqInv'
      BY <1>0 DEF IInv, WakerInv, SeqInv
    <2>7. TimerInv'
      BY <1>0, <2>3 DEF IInv, TimerInv, LiveTimer
    <2>8. WokenOnce'
      <3>1. \A x \in Task : HeldByWaker(x)' <=> HeldByWaker(x)
        BY <1>0 DEF HeldByWaker
      <3>2. \A x \in Task : HeldByTimer(x)' <=> HeldByTimer(x) \/ x = t
        BY <1>0, <2>3 DEF HeldByTimer
      <3>3. \A u, v \in Waker : wtk'[u] = wtk'[v] /\ wtk'[u] # NoTask => u = v
        BY <1>0 DEF IInv, WokenOnce
      <3> QED BY <1>0, <2>1, <2>2, <3>1, <3>2, <3>3 DEF IInv, WokenOnce
    <2> QED BY <2>4, <2>5, <2>6, <2>7, <2>8 DEF IInv
  <1> QED BY <1>1, <1>2 DEF CancelWait, SetTimer

\* The callback hands over the task and is no longer live.
LEMMA CancelReadyIInv ==
    ASSUME IInv, NEW t \in Task, NEW s \in Seqs, CancelReady(t, s)
    PROVE  IInv'
  <1>0. /\ timer[t][s] = "marked"
        /\ timer' = [timer EXCEPT ![t][s] = "tail"]
        /\ pc' = [pc EXCEPT ![t] = "runnable"]
        /\ UNCHANGED <<wakeup_, wait_queue_, op, block_, block_sequence_,
                       block_timeout_, block_timer_, is_block_timeout_,
                       wpc, wtk, thr, tret>>
        /\ reference_' = [reference_ EXCEPT ![t] = @ + 1]
    BY DEF CancelReady, SetTimer, wakerVars, threadVars
  <1>1. HeldByTimer(t) /\ ~InQueue(t) /\ ~HeldByWaker(t)
    BY <1>0 DEF IInv, WokenOnce, HeldByTimer
  <1>2. /\ timer' \in [Task -> [Seqs -> TimerState]]
        /\ timer'[t][s] = "tail"
        /\ \A x \in Task, r \in Seqs :
              x # t \/ r # s => timer'[x][r] = timer[x][r]
    BY <1>0, TimerUpdate DEF IInv, TimerState
  <1>3. /\ pc'[t] = "runnable"
        /\ \A x \in Task : x # t => pc'[x] = pc[x]
    BY <1>0 DEF IInv, TypeOK
  <1>4. TypeOK'
    BY <1>0, <1>2 DEF IInv, TypeOK, TaskPc
  <1>5. NoStrandedWaiter' /\ WakerInv'
    BY <1>0 DEF IInv, NoStrandedWaiter, WakerInv
  <1>6. SeqInv'
    BY <1>0, <1>3 DEF IInv, SeqInv
  <1>7. \A r \in Seqs : r # s => timer[t][r] \notin LiveTimer
    BY <1>0 DEF IInv, TimerInv, LiveTimer
  <1>8. TimerInv'
    BY <1>0, <1>2, <1>3, <1>7 DEF IInv, TimerInv, LiveTimer
  <1>9. WokenOnce'
    <2>1. \A x \in Task : /\ HeldByWaker(x)' <=> HeldByWaker(x)
                          /\ InQueue(x)' <=> InQueue(x)
      BY <1>0 DEF HeldByWaker, InQueue
    <2>2. \A x \in Task : HeldByTimer(x)' <=> HeldByTimer(x) /\ x # t
      BY <1>2, <1>7 DEF HeldByTimer, LiveTimer
    <2> QED BY <1>0, <1>1, <1>3, <2>1, <2>2 DEF IInv, WokenOnce
  <1> QED BY <1>4, <1>5, <1>6, <1>8, <1>9 DEF IInv
-----------------------------------------------------------------------------
(* Plain threads only take stored signals.                                 *)

\* Plain threads only take signals.
LEMMA ThreadIInv == ASSUME IInv, NEW p \in Thread, ThreadStep(p) PROVE IInv'
  <1> USE DEF wakerVars, taskVars
  <1>1. /\ UNCHANGED <<wait_queue_, pc, op, block_, block_sequence_,
                       block_timeout_, block_timer_, is_block_timeout_,
                       reference_, timer, wpc, wtk>>
    BY DEF ThreadStep, TryBlockWait, ThreadWait, ThreadPoll, ThreadWaitTimed,
           ThreadPollTimed, ThreadTimedReturn
  <1>2. wakeup_' \in Nat /\ (wakeup_' > 0 => wakeup_ > 0)
    BY DEF ThreadStep, TryBlockWait, ThreadWait, ThreadPoll, ThreadWaitTimed,
           ThreadPollTimed, ThreadTimedReturn, IInv, TypeOK
  <1>3. thr' \in [Thread -> {"idle", "poll", "poll_timed", "got", "expired"}]
    <2>1. thr \in [Thread -> {"idle", "poll", "poll_timed", "got", "expired"}]
      BY DEF IInv, TypeOK
    <2> QED BY <2>1 DEF ThreadStep, TryBlockWait, ThreadWait, ThreadPoll,
                        ThreadWaitTimed, ThreadPollTimed, ThreadTimedReturn
  <1>4. tret' \in [Thread -> BOOLEAN]
    <2>1. \A b \in BOOLEAN : [tret EXCEPT ![p] = b] \in [Thread -> BOOLEAN]
      BY DEF IInv, TypeOK
    <2>2. CASE TryBlockWait(p)
      <3>1. tret' = [tret EXCEPT ![p] = wakeup_ > 0]
        BY <2>2 DEF TryBlockWait
      <3>2. (wakeup_ > 0) \in BOOLEAN
        OBVIOUS
      <3> QED BY <2>1, <3>1, <3>2, Zenon
    <2>3. CASE ThreadTimedReturn(p)
      BY <2>1, <2>3 DEF ThreadTimedReturn
    <2>4. CASE ~TryBlockWait(p) /\ ~ThreadTimedReturn(p)
      <3>1. tret' = tret
        BY <2>4 DEF ThreadStep, ThreadWait, ThreadPoll, ThreadWaitTimed,
                    ThreadPollTimed
      <3> QED BY <3>1 DEF IInv, TypeOK
    <2> QED BY <2>2, <2>3, <2>4
  <1>5. TypeOK'
    BY <1>1, <1>2, <1>3, <1>4 DEF IInv, TypeOK
  <1>6. NoStrandedWaiter' /\ WakerInv' /\ TimerInv' /\ SeqInv'
    BY <1>1, <1>2 DEF IInv, NoStrandedWaiter, WakerInv, TimerInv, SeqInv
  <1>7. WokenOnce'
    BY <1>1, SamePlaces
  <1> QED BY <1>5, <1>6, <1>7 DEF IInv
-----------------------------------------------------------------------------
\* Every step preserves the inductive invariant.
LEMMA NextIInv == IInv /\ [Next]_vars => IInv'
  <1> SUFFICES ASSUME IInv, [Next]_vars PROVE IInv'
    OBVIOUS
  <1>1. ASSUME NEW t \in Task, StartWait(t) PROVE IInv'
    BY <1>1, StartWaitIInv, ConstAssumption DEF StartWait
  <1>2. ASSUME NEW t \in Task, TaskStep(t) PROVE IInv'
    BY <1>2, BlockYieldIInv, AddWaitTaskIInv, ResumeIInv, ReturnIInv DEF TaskStep
  <1>3. ASSUME NEW t \in Task, TaskDone(t) PROVE IInv'
    BY <1>3, TaskDoneIInv
  <1>4. ASSUME NEW w \in Waker, Wakeup(w) PROVE IInv'
    BY <1>4, WakeupIInv
  <1>5. ASSUME NEW w \in Waker, WakerStep(w) PROVE IInv'
    BY <1>5, WakeupClearIInv, WakeupCancelIInv, WakeupReadyIInv DEF WakerStep
  <1>6. ASSUME NEW t \in Task, NEW s \in Seqs, TimerStep(t, s) PROVE IInv'
    BY <1>6, TimerMovesIInv, CancelWaitIInv, CancelReadyIInv DEF TimerStep
  <1>7. ASSUME NEW p \in Thread, ThreadStep(p) PROVE IInv'
    BY <1>7, ThreadIInv
  <1>8. CASE UNCHANGED vars
    <2>1. /\ UNCHANGED <<wait_queue_, wtk, pc, timer>>
          /\ UNCHANGED <<wakeup_, op, block_, block_sequence_, block_timeout_,
                         block_timer_, is_block_timeout_, reference_, wpc,
                         thr, tret>>
      BY <1>8 DEF vars, taskVars, wakerVars, threadVars
    <2>2. WokenOnce'
      BY <2>1, SamePlaces
    <2>3. TypeOK' /\ NoStrandedWaiter' /\ WakerInv' /\ TimerInv' /\ SeqInv'
      BY <2>1 DEF IInv, TypeOK, NoStrandedWaiter, WakerInv, TimerInv, SeqInv
    <2> QED BY <2>2, <2>3 DEF IInv
  <1> QED BY <1>1, <1>2, <1>3, <1>4, <1>5, <1>6, <1>7, <1>8 DEF Next

\* BlockObject never stores a signal while a task is blocked, a blocked task
\* is made runnable by exactly one Wakeup or timeout, and no timer outlives
\* the wait it was armed for.
THEOREM BlockObjectSafe ==
    Spec => [](TypeOK /\ NoStrandedWaiter /\ WokenOnce /\ TimerDiesWithWait)
  <1>1. IInv => TypeOK /\ NoStrandedWaiter /\ WokenOnce /\ TimerDiesWithWait
    BY DEF IInv, TimerInv, TimerDiesWithWait
  <1> QED BY <1>1, InitIInv, NextIInv, PTL DEF Spec

\* A signal is never stored while a task waits for one, however AddWaitTask and
\* Wakeup interleave.
THEOREM BlockObjectNoStrandedWaiter == Spec => []NoStrandedWaiter
  <1>1. IInv => NoStrandedWaiter
    BY DEF IInv
  <1> QED BY <1>1, InitIInv, NextIInv, PTL DEF Spec

\* The callback of a timed wait never meets a later wait of the same task, so
\* the comparison of sequence numbers in CancelWait never has to decide.
THEOREM BlockObjectTimerDiesWithWait == Spec => []TimerDiesWithWait
  <1>1. IInv => TimerDiesWithWait
    BY DEF IInv, TimerInv, TimerDiesWithWait
  <1> QED BY <1>1, InitIInv, NextIInv, PTL DEF Spec
-----------------------------------------------------------------------------
(* The reference count.                                                    *)

\* The timer states whose closure owns a reference.
OwnState == {"armed", "expired", "check", "cancel", "erased", "marked", "tail"}

LEMMA OwningIs == \A t : Owning(t) = {s \in Seqs : timer[t][s] \in OwnState}
  BY DEF Owning, Active, FnLocked, OwnState

LEMMA OwningIsNext == \A t : Owning(t)' = {s \in Seqs : timer'[t][s] \in OwnState}
  BY DEF Owning, Active, FnLocked, OwnState

LEMMA OwningFinite == \A t : IsFiniteSet(Owning(t)) /\ Cardinality(Owning(t)) \in Nat
  <1>1. IsFiniteSet(Seqs)
    BY FS_Interval, ConstAssumption DEF Seqs
  <1> SUFFICES ASSUME NEW t PROVE IsFiniteSet(Owning(t)) /\ Cardinality(Owning(t)) \in Nat
    OBVIOUS
  <1>2. IsFiniteSet(Owning(t))
    <2>1. Owning(t) \subseteq Seqs
      BY DEF Owning
    <2> HIDE DEF Owning
    <2> QED BY <1>1, <2>1, FS_Subset
  <1> HIDE DEF Owning
  <1> QED BY <1>2, FS_CardinalityType

Sets(t, s, v) == timer' = [timer EXCEPT ![t][s] = v]

LEMMA SetsEffect ==
    ASSUME TypeOK, NEW t \in Task, NEW s \in Seqs, NEW v \in TimerState, Sets(t, s, v)
    PROVE  /\ timer'[t][s] = v
           /\ \A x \in Task, r \in Seqs : x # t \/ r # s => timer'[x][r] = timer[x][r]
  <1> DEFINE f == [timer[t] EXCEPT ![s] = v]
  <1>1. timer \in [Task -> [Seqs -> TimerState]]
    BY DEF TypeOK
  <1>2. f[s] = v /\ \A r \in Seqs : r # s => f[r] = timer[t][r]
    BY <1>1
  <1>3. timer' = [timer EXCEPT ![t] = f]
    BY DEF Sets
  <1> HIDE DEF f
  <1> QED BY <1>1, <1>2, <1>3

\* A timer changes its state within those that own a reference, or outside.
LEMMA OwningSame ==
    ASSUME TypeOK, NEW t \in Task, NEW s \in Seqs, NEW v \in TimerState,
           Sets(t, s, v),
           v \in OwnState <=> timer[t][s] \in OwnState
    PROVE  \A x \in Task : Owning(x)' = Owning(x)
  <1>1. /\ timer'[t][s] = v
        /\ \A x \in Task, r \in Seqs : x # t \/ r # s => timer'[x][r] = timer[x][r]
    BY SetsEffect
  <1>2. \A x \in Task, r \in Seqs : timer'[x][r] \in OwnState <=> timer[x][r] \in OwnState
    BY <1>1
  <1> QED BY <1>2, OwningIs, OwningIsNext

\* A timer is armed.
LEMMA OwningAdd ==
    ASSUME TypeOK, NEW t \in Task, NEW s \in Seqs, timer[t][s] = "none",
           Sets(t, s, "armed")
    PROVE  /\ \A x \in Task \ {t} : Owning(x)' = Owning(x)
           /\ Cardinality(Owning(t)') = Cardinality(Owning(t)) + 1
  <1>0. "armed" \in TimerState /\ "armed" \in OwnState /\ "none" \notin OwnState
    BY DEF TimerState, OwnState
  <1>1. /\ timer'[t][s] = "armed"
        /\ \A x \in Task, r \in Seqs : x # t \/ r # s => timer'[x][r] = timer[x][r]
    BY <1>0, SetsEffect
  <1>2. \A x \in Task \ {t} : Owning(x)' = Owning(x)
    BY <1>1, OwningIs, OwningIsNext
  <1>3. Owning(t)' = Owning(t) \cup {s} /\ s \notin Owning(t)
    BY <1>0, <1>1, OwningIs, OwningIsNext
  <1>4. Cardinality(Owning(t) \cup {s}) = Cardinality(Owning(t)) + 1
    <2>1. IsFiniteSet(Owning(t))
      BY OwningFinite
    <2> QED BY <1>3, <2>1, FS_AddElement
  <1> QED BY <1>2, <1>3, <1>4

\* A timer is cancelled or has run.
LEMMA OwningDrop ==
    ASSUME TypeOK, NEW t \in Task, NEW s \in Seqs, NEW v \in TimerState,
           Sets(t, s, v), v \notin OwnState, timer[t][s] \in OwnState
    PROVE  /\ \A x \in Task \ {t} : Owning(x)' = Owning(x)
           /\ Cardinality(Owning(t)') = Cardinality(Owning(t)) - 1
  <1>1. /\ timer'[t][s] = v
        /\ \A x \in Task, r \in Seqs : x # t \/ r # s => timer'[x][r] = timer[x][r]
    BY SetsEffect
  <1>2. \A x \in Task \ {t} : Owning(x)' = Owning(x)
    BY <1>1, OwningIs, OwningIsNext
  <1>3. Owning(t)' = Owning(t) \ {s} /\ s \in Owning(t)
    BY <1>1, OwningIs, OwningIsNext
  <1>4. Cardinality(Owning(t) \ {s}) = Cardinality(Owning(t)) - 1
    <2>1. IsFiniteSet(Owning(t))
      BY OwningFinite
    <2> QED BY <1>3, <2>1, FS_RemoveElement
  <1> QED BY <1>2, <1>3, <1>4

\* A queue holds task t.
Queued(t) == InQueue(t) \/ pc[t] = "runnable"

\* The references of task t stay as they are.
RefSame(t) == /\ reference_'[t] = reference_[t]
              /\ pc'[t] = "done" <=> pc[t] = "done"
              /\ Queued(t)' <=> Queued(t)
              /\ Owning(t)' = Owning(t)

\* The count of task t changes by d, and so does the number of references.
RefMoves(t, d) ==
    /\ reference_'[t] = reference_[t] + d
    /\ (IF pc'[t] = "done" THEN 0 ELSE 1) + (IF Queued(t)' THEN 1 ELSE 0)
         + Cardinality(Owning(t)')
       = (IF pc[t] = "done" THEN 0 ELSE 1) + (IF Queued(t) THEN 1 ELSE 0)
         + Cardinality(Owning(t)) + d

RefOf(t) == reference_[t] = (IF pc[t] = "done" THEN 0 ELSE 1)
                             + (IF Queued(t) THEN 1 ELSE 0) + Cardinality(Owning(t))

LEMMA RefExactIs == RefExact <=> \A t \in Task : RefOf(t)
  BY DEF RefExact, RefOf, Ref, Queued

LEMMA RefExactIsNext == RefExact' <=> \A t \in Task : RefOf(t)'
  BY DEF RefExact, RefOf, Ref, Queued

LEMMA AllSame == ASSUME RefExact, \A x \in Task : RefSame(x) PROVE RefExact'
  <1>1. \A x \in Task : RefOf(x)'
    BY RefExactIs DEF RefOf, RefSame
  <1> QED BY <1>1, RefExactIsNext

LEMMA OneMoves ==
    ASSUME RefExact, NEW t \in Task, NEW d \in Int, RefMoves(t, d),
           \A x \in Task \ {t} : RefSame(x)
    PROVE  RefExact'
  <1>1. \A x \in Task \ {t} : RefOf(x)'
    BY RefExactIs DEF RefOf, RefSame
  <1>2. RefOf(t)'
    BY RefExactIs DEF RefOf, RefMoves
  <1> QED BY <1>1, <1>2, RefExactIsNext

\* Steps of task t with the timers left alone: the others keep their references.
LEMMA TaskAlone ==
    ASSUME NEW t \in Task, timer' = timer,
           \A x \in Task \ {t} : /\ pc'[x] = pc[x] /\ reference_'[x] = reference_[x]
                                 /\ InQueue(x)' <=> InQueue(x)
    PROVE  /\ \A x \in Task \ {t} : RefSame(x)
           /\ Owning(t)' = Owning(t)
  <1>1. \A x \in Task : Owning(x)' = Owning(x)
    BY OwningIs, OwningIsNext
  <1> QED BY <1>1 DEF RefSame, Queued

LEMMA StartWaitRef ==
    ASSUME IInv, RefExact, NEW t \in Task,
           StartWait(t) \/ BlockYield(t) \/ Return(t) PROVE RefExact'
  <1>1. /\ timer' = timer /\ wait_queue_' = wait_queue_ /\ reference_' = reference_
        /\ \A x \in Task \ {t} : pc'[x] = pc[x]
        /\ pc[t] \notin {"waiting", "runnable", "done"} /\ pc'[t] \notin {"waiting", "runnable", "done"}
    <2>1. CASE StartWait(t)
      BY <2>1 DEF StartWait, CoBlockWait, IInv, TypeOK
    <2>2. CASE BlockYield(t) \/ Return(t)
      BY <2>2 DEF BlockYield, Return, IInv, TypeOK
    <2> QED BY <2>1, <2>2
  <1>2. \A x : InQueue(x)' <=> InQueue(x)
    BY <1>1 DEF InQueue
  <1>3. (\A x \in Task \ {t} : RefSame(x)) /\ Owning(t)' = Owning(t)
    BY <1>1, <1>2, TaskAlone
  <1>4. RefSame(t)
    BY <1>1, <1>2, <1>3 DEF RefSame, Queued
  <1> QED BY <1>3, <1>4, AllSame

LEMMA ResumeRef ==
    ASSUME IInv, RefExact, NEW t \in Task, Resume(t) \/ TaskDone(t) PROVE RefExact'
  <1>1. /\ timer' = timer /\ wait_queue_' = wait_queue_
        /\ \A x \in Task \ {t} : pc'[x] = pc[x] /\ reference_'[x] = reference_[x]
        /\ reference_'[t] = reference_[t] + (-1)
        /\ \/ pc[t] = "runnable" /\ pc'[t] \in {"ret_true", "ret_false"}
           \/ pc[t] = "run" /\ pc'[t] = "done"
    BY DEF Resume, TaskDone, IInv, TypeOK
  <1>2. \A x : InQueue(x)' <=> InQueue(x)
    BY <1>1 DEF InQueue
  <1>3. (\A x \in Task \ {t} : RefSame(x)) /\ Owning(t)' = Owning(t)
    BY <1>1, <1>2, TaskAlone
  <1>4. ~InQueue(t)
    BY <1>1 DEF IInv, WokenOnce
  <1>5. Cardinality(Owning(t)) \in Nat
    BY OwningFinite
  <1>6. RefMoves(t, -1)
    BY <1>1, <1>2, <1>3, <1>4, <1>5 DEF RefMoves, Queued
  <1> QED BY <1>3, <1>6, OneMoves

LEMMA AddWaitTaskRef ==
    ASSUME IInv, RefExact, NEW t \in Task, AddWaitTask(t) PROVE RefExact'
  <1>0. /\ pc[t] = "sys_block" /\ pc \in [Task -> TaskPc] /\ reference_ \in [Task -> Int]
        /\ ~InQueue(t) /\ wait_queue_ \in Seq(Task) /\ NoDup(wait_queue_) /\ TypeOK
    BY DEF AddWaitTask, IInv, TypeOK, WokenOnce
  <1>1. Cardinality(Owning(t)) \in Nat
    BY OwningFinite
  <1>2. CASE wakeup_ > 0
    <2>1. /\ timer' = timer /\ wait_queue_' = wait_queue_
          /\ pc' = [pc EXCEPT ![t] = "runnable"] /\ reference_' = [reference_ EXCEPT ![t] = @ + 1]
      BY <1>2 DEF AddWaitTask, IInv, TypeOK
    <2>2. /\ \A x \in Task \ {t} : pc'[x] = pc[x] /\ reference_'[x] = reference_[x]
          /\ pc'[t] = "runnable" /\ reference_'[t] = reference_[t] + 1
      BY <1>0, <2>1
    <2>3. \A x : InQueue(x)' <=> InQueue(x)
      BY <2>1 DEF InQueue
    <2>4. (\A x \in Task \ {t} : RefSame(x)) /\ Owning(t)' = Owning(t)
      BY <2>1, <2>2, <2>3, TaskAlone
    <2>5. RefMoves(t, 1)
      BY <1>0, <1>1, <2>2, <2>3, <2>4 DEF RefMoves, Queued
    <2> QED BY <2>4, <2>5, OneMoves
  <1>3. CASE wakeup_ = 0
    <2>1. /\ wait_queue_' = Append(wait_queue_, t) /\ pc' = [pc EXCEPT ![t] = "waiting"]
      BY <1>3 DEF AddWaitTask, IInv, TypeOK
    <2>2. \A x : InQueue(x)' <=> InQueue(x) \/ x = t
      BY <1>0, <2>1, QueueAppend DEF InQueue
    <2>3. pc'[t] = "waiting" /\ \A x \in Task \ {t} : pc'[x] = pc[x]
      BY <1>0, <2>1
    <2>4. CASE block_timeout_[t] = 0
      <3>1. timer' = timer /\ reference_' = [reference_ EXCEPT ![t] = @ + 1]
        BY <1>3, <2>4 DEF AddWaitTask, IInv, TypeOK
      <3>2. reference_'[t] = reference_[t] + 1 /\ \A x \in Task \ {t} : reference_'[x] = reference_[x]
        BY <1>0, <3>1
      <3>3. (\A x \in Task \ {t} : RefSame(x)) /\ Owning(t)' = Owning(t)
        BY <2>2, <2>3, <3>1, <3>2, TaskAlone
      <3>4. RefMoves(t, 1)
        BY <1>0, <1>1, <2>2, <2>3, <3>2, <3>3 DEF RefMoves, Queued
      <3> QED BY <3>3, <3>4, OneMoves
    <2>5. CASE block_timeout_[t] # 0
      <3> DEFINE s == block_sequence_[t]
      <3>1. Sets(t, s, "armed") /\ reference_' = [reference_ EXCEPT ![t] = @ + 2]
        BY <1>3, <2>5 DEF AddWaitTask, Sets, IInv, TypeOK
      <3>2. reference_'[t] = reference_[t] + 2 /\ \A x \in Task \ {t} : reference_'[x] = reference_[x]
        BY <1>0, <3>1
      <3>3. s \in Seqs /\ timer[t][s] = "none"
        BY <1>0, ConstAssumption DEF IInv, TypeOK, SeqInv, TimerInv, Seqs
      <3> HIDE DEF s
      <3>4. /\ \A x \in Task \ {t} : Owning(x)' = Owning(x)
            /\ Cardinality(Owning(t)') = Cardinality(Owning(t)) + 1
        BY <1>0, <3>1, <3>3, OwningAdd
      <3>5. \A x \in Task \ {t} : RefSame(x)
        BY <2>2, <2>3, <3>2, <3>4 DEF RefSame, Queued
      <3>6. RefMoves(t, 2)
        BY <1>0, <1>1, <2>2, <2>3, <3>2, <3>4 DEF RefMoves, Queued
      <3> QED BY <3>5, <3>6, OneMoves
    <2> QED BY <2>4, <2>5
  <1> QED BY <1>2, <1>3 DEF AddWaitTask

LEMMA WakeupRef == ASSUME IInv, RefExact, NEW w \in Waker, Wakeup(w) PROVE RefExact'
  <1>0. timer' = timer /\ pc' = pc
    BY DEF Wakeup
  <1>1. CASE wait_queue_ = <<>>
    <2>1. wait_queue_' = wait_queue_ /\ reference_' = reference_
      BY <1>1 DEF Wakeup
    <2>2. \A x \in Task : RefSame(x)
      BY <1>0, <2>1 DEF RefSame, Queued, InQueue, Owning, Active, FnLocked
    <2> QED BY <2>2, AllSame
  <1>2. CASE wait_queue_ # <<>>
    <2>0. wait_queue_ \in Seq(Task) /\ NoDup(wait_queue_) /\ reference_ \in [Task -> Int]
      BY DEF IInv, TypeOK, WokenOnce
    <2>a. PICK t \in Task : t = Head(wait_queue_)
      BY <1>2, <2>0, QueueTail
    <2>1. wait_queue_' = Tail(wait_queue_) /\ reference_' = [reference_ EXCEPT ![t] = @ - 1]
      BY <1>2, <2>a DEF Wakeup
    <2>2. InQueue(t) /\ \A x : InQueue(x)' <=> InQueue(x) /\ x # t
      BY <1>2, <2>0, <2>1, <2>a, QueueTail DEF InQueue
    <2>3. reference_'[t] = reference_[t] + (-1) /\ \A x \in Task \ {t} : reference_'[x] = reference_[x]
      BY <2>0, <2>1
    <2>4. pc[t] = "waiting" /\ pc'[t] = "waiting"
      BY <1>0, <2>2 DEF IInv, WokenOnce
    <2>5. (\A x \in Task \ {t} : RefSame(x)) /\ Owning(t)' = Owning(t)
      <3>1. \A x \in Task \ {t} : /\ pc'[x] = pc[x] /\ reference_'[x] = reference_[x]
                                  /\ InQueue(x)' <=> InQueue(x)
        BY <1>0, <2>2, <2>3
      <3>2. timer' = timer
        BY <1>0
      <3> QED BY <3>1, <3>2, TaskAlone
    <2>6. Cardinality(Owning(t)) \in Nat
      BY OwningFinite
    <2>7. RefMoves(t, -1)
      BY <2>2, <2>3, <2>4, <2>5, <2>6 DEF RefMoves, Queued
    <2> QED BY <2>2, <2>5, <2>7, OneMoves
  <1> QED BY <1>1, <1>2

LEMMA WakeupCancelRef ==
    ASSUME IInv, RefExact, NEW w \in Waker, WakeupCancel(w) PROVE RefExact'
  <1>0. pc' = pc /\ wait_queue_' = wait_queue_ /\ wtk[w] \in Task /\ TypeOK
    BY HeldTask DEF WakeupCancel, IInv
  <1>a. PICK t \in Task : t = wtk[w]
    BY <1>0
  <1>b. PICK s \in 0..MaxSeq : s = block_timer_[t]
    BY <1>0 DEF TypeOK
  <1>1. CASE timer' = timer /\ reference_' = reference_
    <2>1. \A x \in Task : RefSame(x)
      BY <1>0, <1>1 DEF RefSame, Queued, InQueue, Owning, Active, FnLocked
    <2> QED BY <2>1, AllSame
  <1>2. CASE /\ s # 0 /\ Active(t, s) /\ timer' = [timer EXCEPT ![t][s] = "cancelled"]
             /\ reference_' = [reference_ EXCEPT ![t] = @ - 1]
    <2>1. /\ s \in Seqs /\ Sets(t, s, "cancelled") /\ timer[t][s] \in OwnState
          /\ "cancelled" \in TimerState /\ "cancelled" \notin OwnState
      BY <1>0, <1>2, ConstAssumption DEF TypeOK, Seqs, Sets, Active, OwnState, TimerState
    <2>2. reference_'[t] = reference_[t] + (-1) /\ \A x \in Task \ {t} : reference_'[x] = reference_[x]
      BY <1>0, <1>2 DEF TypeOK
    <2>3. /\ \A x \in Task \ {t} : Owning(x)' = Owning(x)
          /\ Cardinality(Owning(t)') = Cardinality(Owning(t)) - 1
      BY <1>0, <2>1, OwningDrop
    <2>4. \A x \in Task : (Queued(x)' <=> Queued(x)) /\ pc'[x] = pc[x]
      BY <1>0 DEF Queued, InQueue
    <2>5. \A x \in Task \ {t} : RefSame(x)
      BY <2>2, <2>3, <2>4 DEF RefSame
    <2>6. Cardinality(Owning(t)) \in Nat
      BY OwningFinite
    <2>7. RefMoves(t, -1)
      BY <1>0, <2>2, <2>3, <2>4, <2>6 DEF RefMoves
    <2> QED BY <1>0, <2>5, <2>7, OneMoves
  <1> QED BY <1>1, <1>2, <1>a, <1>b DEF WakeupCancel

LEMMA WakeupReadyRef ==
    ASSUME IInv, RefExact, NEW w \in Waker, WakeupReady(w) PROVE RefExact'
  <1>a. PICK t \in Task : t = wtk[w]
    BY HeldTask DEF WakeupReady
  <1>0. pc[t] = "waiting" /\ ~InQueue(t)
    BY <1>a, HeldTask DEF WakeupReady
  <1>1. /\ timer' = timer /\ wait_queue_' = wait_queue_
        /\ pc' = [pc EXCEPT ![t] = "runnable"] /\ reference_' = [reference_ EXCEPT ![t] = @ + 1]
    BY <1>a DEF WakeupReady
  <1>2. /\ \A x \in Task \ {t} : pc'[x] = pc[x] /\ reference_'[x] = reference_[x]
        /\ pc'[t] = "runnable" /\ reference_'[t] = reference_[t] + 1
    BY <1>0, <1>1 DEF IInv, TypeOK
  <1>3. \A x : InQueue(x)' <=> InQueue(x)
    BY <1>1 DEF InQueue
  <1>4. (\A x \in Task \ {t} : RefSame(x)) /\ Owning(t)' = Owning(t)
    BY <1>0, <1>1, <1>2, <1>3, TaskAlone
  <1>5. Cardinality(Owning(t)) \in Nat
    BY OwningFinite
  <1>6. RefMoves(t, 1)
    BY <1>0, <1>2, <1>3, <1>4, <1>5 DEF RefMoves, Queued
  <1> QED BY <1>0, <1>4, <1>6, OneMoves

\* The steps of a callback, but for the ones that queue or drop the task.
LEMMA TimerMovesRef ==
    ASSUME IInv, RefExact, NEW t \in Task, NEW s \in Seqs,
           TimerExpire(t, s) \/ TimerFire(t, s) \/ TimerCheck(t, s) \/ CancelMark(t, s)
    PROVE  RefExact'
  <1>1. pc' = pc /\ wait_queue_' = wait_queue_ /\ reference_' = reference_
    BY DEF TimerExpire, TimerFire, TimerCheck, CancelMark
  <1>2. PICK v \in OwnState : Sets(t, s, v) /\ timer[t][s] \in OwnState
    BY DEF TimerExpire, TimerFire, TimerCheck, CancelMark, SetTimer, Sets, OwnState
  <1>3. v \in TimerState /\ TypeOK
    BY DEF OwnState, TimerState, IInv
  <1>4. \A x \in Task : Owning(x)' = Owning(x)
    BY <1>2, <1>3, OwningSame
  <1>5. \A x \in Task : RefSame(x)
    BY <1>1, <1>4 DEF RefSame, Queued, InQueue
  <1> QED BY <1>5, AllSame

LEMMA CancelWaitRef ==
    ASSUME IInv, RefExact, NEW t \in Task, NEW s \in Seqs, CancelWait(t, s) PROVE RefExact'
  <1>0. /\ pc' = pc /\ TypeOK /\ wait_queue_ \in Seq(Task) /\ NoDup(wait_queue_)
        /\ "tail" \in TimerState /\ "erased" \in TimerState
        /\ "tail" \in OwnState /\ "erased" \in OwnState
    BY DEF CancelWait, IInv, TypeOK, WokenOnce, TimerState, OwnState
  <1>1. CASE wait_queue_' = wait_queue_ /\ reference_' = reference_ /\ SetTimer(t, s, "cancel", "tail")
    <2>1. Sets(t, s, "tail") /\ timer[t][s] \in OwnState
      BY <1>1 DEF SetTimer, Sets, OwnState
    <2>2. \A x \in Task : Owning(x)' = Owning(x)
      BY <1>0, <2>1, OwningSame
    <2>3. \A x \in Task : RefSame(x)
      BY <1>0, <1>1, <2>2 DEF RefSame, Queued, InQueue
    <2> QED BY <2>3, AllSame
  <1>2. ASSUME NEW k \in 1..Len(wait_queue_), wait_queue_[k] = t,
               wait_queue_' = Without(wait_queue_, k), SetTimer(t, s, "cancel", "erased"),
               reference_' = [reference_ EXCEPT ![t] = @ - 1]
        PROVE  RefExact'
    <2>1. Sets(t, s, "erased") /\ timer[t][s] \in OwnState
      BY <1>2 DEF SetTimer, Sets, OwnState
    <2>2. \A x \in Task : Owning(x)' = Owning(x)
      BY <1>0, <2>1, OwningSame
    <2>3. InQueue(t) /\ \A x : InQueue(x)' <=> InQueue(x) /\ x # t
      <3>1. InQueue(t)
        BY <1>2 DEF InQueue, Member
      <3> QED BY <1>0, <1>2, <3>1, QueueWithout DEF InQueue
    <2>4. reference_'[t] = reference_[t] + (-1) /\ \A x \in Task \ {t} : reference_'[x] = reference_[x]
      BY <1>0, <1>2 DEF TypeOK
    <2>5. pc[t] = "waiting" /\ pc'[t] = "waiting" /\ \A x \in Task : pc'[x] = pc[x]
      BY <1>0, <2>3 DEF IInv, WokenOnce
    <2>6. \A x \in Task \ {t} : RefSame(x)
      BY <2>2, <2>3, <2>4, <2>5 DEF RefSame, Queued
    <2>7. Cardinality(Owning(t)) \in Nat
      BY OwningFinite
    <2>8. RefMoves(t, -1)
      BY <2>2, <2>3, <2>4, <2>5, <2>7 DEF RefMoves, Queued
    <2> QED BY <2>6, <2>8, OneMoves
  <1> QED BY <1>1, <1>2 DEF CancelWait

LEMMA CancelReadyRef ==
    ASSUME IInv, RefExact, NEW t \in Task, NEW s \in Seqs, CancelReady(t, s) PROVE RefExact'
  <1>0. /\ wait_queue_' = wait_queue_ /\ TypeOK /\ timer[t][s] = "marked"
        /\ Sets(t, s, "tail") /\ timer[t][s] \in OwnState
        /\ "tail" \in TimerState /\ "tail" \in OwnState
    BY DEF CancelReady, IInv, SetTimer, Sets, TimerState, OwnState
  <1>1. \A x \in Task : Owning(x)' = Owning(x)
    BY <1>0, OwningSame
  <1>2. pc[t] = "waiting" /\ ~InQueue(t)
    BY <1>0 DEF IInv, WokenOnce, HeldByTimer
  <1>3. /\ \A x \in Task \ {t} : pc'[x] = pc[x] /\ reference_'[x] = reference_[x]
        /\ pc'[t] = "runnable" /\ reference_'[t] = reference_[t] + 1
    BY <1>0 DEF CancelReady, TypeOK
  <1>4. \A x : InQueue(x)' <=> InQueue(x)
    BY <1>0 DEF InQueue
  <1>5. \A x \in Task \ {t} : RefSame(x)
    BY <1>1, <1>3, <1>4 DEF RefSame, Queued
  <1>6. Cardinality(Owning(t)) \in Nat
    BY OwningFinite
  <1>7. RefMoves(t, 1)
    BY <1>1, <1>2, <1>3, <1>4, <1>6 DEF RefMoves, Queued
  <1> QED BY <1>5, <1>7, OneMoves

LEMMA TimerTailRef ==
    ASSUME IInv, RefExact, NEW t \in Task, NEW s \in Seqs, TimerTail(t, s) PROVE RefExact'
  <1>0. /\ wait_queue_' = wait_queue_ /\ pc' = pc /\ TypeOK
        /\ Sets(t, s, "over") /\ timer[t][s] \in OwnState
        /\ "over" \in TimerState /\ "over" \notin OwnState
    BY DEF TimerTail, IInv, SetTimer, Sets, TimerState, OwnState
  <1>1. /\ \A x \in Task \ {t} : Owning(x)' = Owning(x)
        /\ Cardinality(Owning(t)') = Cardinality(Owning(t)) - 1
    BY <1>0, OwningDrop
  <1>2. reference_'[t] = reference_[t] + (-1) /\ \A x \in Task \ {t} : reference_'[x] = reference_[x]
    BY <1>0 DEF TimerTail, TypeOK
  <1>3. \A x \in Task : (Queued(x)' <=> Queued(x)) /\ pc'[x] = pc[x]
    BY <1>0 DEF Queued, InQueue
  <1>4. \A x \in Task \ {t} : RefSame(x)
    BY <1>1, <1>2, <1>3 DEF RefSame
  <1>5. Cardinality(Owning(t)) \in Nat
    BY OwningFinite
  <1>6. RefMoves(t, -1)
    BY <1>1, <1>2, <1>3, <1>5 DEF RefMoves
  <1> QED BY <1>4, <1>6, OneMoves

\* What touches neither tasks nor timers.
LEMMA StillRef ==
    ASSUME RefExact, wait_queue_' = wait_queue_, pc' = pc, reference_' = reference_,
           timer' = timer
    PROVE  RefExact'
  <1>1. \A x \in Task : RefSame(x)
    BY DEF RefSame, Queued, InQueue, Owning, Active, FnLocked
  <1> QED BY <1>1, AllSame

LEMMA NextRef == IInv /\ RefExact /\ [Next]_vars => RefExact'
  <1> SUFFICES ASSUME IInv, RefExact, [Next]_vars PROVE RefExact'
    OBVIOUS
  <1>1. ASSUME NEW t \in Task, StartWait(t) \/ TaskStep(t) \/ TaskDone(t) PROVE RefExact'
    BY <1>1, StartWaitRef, ResumeRef, AddWaitTaskRef DEF TaskStep
  <1>2. ASSUME NEW w \in Waker, WakeupClear(w) PROVE RefExact'
    BY <1>2, StillRef DEF WakeupClear
  <1>3. ASSUME NEW w \in Waker, Wakeup(w) \/ WakerStep(w) PROVE RefExact'
    BY <1>2, <1>3, WakeupRef, WakeupCancelRef, WakeupReadyRef DEF WakerStep
  <1>4. ASSUME NEW t \in Task, NEW s \in Seqs, TimerStep(t, s) PROVE RefExact'
    BY <1>4, TimerMovesRef, CancelWaitRef, CancelReadyRef, TimerTailRef DEF TimerStep
  <1>5. ASSUME NEW p \in Thread, ThreadStep(p) PROVE RefExact'
    BY <1>5, StillRef DEF ThreadStep, TryBlockWait, ThreadWait, ThreadPoll,
                       ThreadWaitTimed, ThreadPollTimed, ThreadTimedReturn, taskVars
  <1>6. CASE vars' = vars
    BY <1>6, StillRef DEF vars, taskVars
  <1> QED BY <1>1, <1>3, <1>4, <1>5, <1>6 DEF Next

LEMMA InitRef == Init => RefExact
  <1> SUFFICES ASSUME Init PROVE \A t \in Task : RefOf(t)
    BY RefExactIs
  <1>1. \A t \in Task : Owning(t) = {}
    BY DEF Init, Owning, Active, FnLocked
  <1>2. \A t : ~InQueue(t)
    BY DEF Init, InQueue, Member
  <1>3. \A t \in Task : pc[t] = "run" /\ reference_[t] = 1
    BY DEF Init
  <1>4. Cardinality({}) = 0
    BY FS_EmptySet
  <1> QED BY <1>1, <1>2, <1>3, <1>4 DEF RefOf, Queued

\* A task's reference count is what its holders own, at every step of Wakeup,
\* of the callback and of the scheduler: it is freed neither under a callback
\* nor never.
THEOREM BlockObjectRefExact == Spec => []RefExact
  <1> QED BY InitIInv, NextIInv, InitRef, NextRef, PTL DEF Spec
-----------------------------------------------------------------------------
(* BlockObject implements Semaphore: Spec => Sem!Spec.                      *)

\* No flag is up and no timer marked at the start.
LEMMA InitFlag == Init => FlagInv
  BY DEF Init, FlagInv

\* Only these steps touch the flag, or the states it is compared with.
LEMMA NextFlag == IInv /\ FlagInv /\ [Next]_vars => FlagInv'
  <1> SUFFICES ASSUME IInv, FlagInv, [Next]_vars PROVE FlagInv'
    OBVIOUS
  <1> USE DEF wakerVars, threadVars, taskVars
  <1>0. /\ pc \in [Task -> TaskPc]
        /\ is_block_timeout_ \in [Task -> BOOLEAN]
        /\ timer \in [Task -> [Seqs -> TimerState]]
        /\ TypeOK
    BY DEF IInv, TypeOK
  \* A sufficient condition, task by task.
  <1>a. ASSUME \A x \in Task : pc'[x] \in {"sys_block", "waiting"}
                  => /\ pc[x] \in {"sys_block", "waiting"}
                     /\ is_block_timeout_'[x] = is_block_timeout_[x]
                     /\ \A s \in Seqs : timer'[x][s] = "marked"
                                           <=> timer[x][s] = "marked"
        PROVE  FlagInv'
    BY <1>a DEF FlagInv
  <1>1. ASSUME NEW t \in Task, StartWait(t) \/ Resume(t) \/ Return(t) \/ TaskDone(t)
        PROVE  FlagInv'
    <2>1. UNCHANGED <<timer, is_block_timeout_>>
      BY <1>1 DEF StartWait, CoBlockWait, Resume, Return, TaskDone
    <2>2. \E v : pc' = [pc EXCEPT ![t] = v] /\ v \notin {"sys_block", "waiting"}
      <3>1. CASE Resume(t)
        <4>1. (IF is_block_timeout_[t] THEN "ret_false" ELSE "ret_true")
                 \notin {"sys_block", "waiting"}
          OBVIOUS
        <4> QED BY <3>1, <4>1 DEF Resume
      <3>2. CASE StartWait(t)
        BY <3>2 DEF StartWait, CoBlockWait
      <3>3. CASE Return(t) \/ TaskDone(t)
        BY <3>3 DEF Return, TaskDone
      <3> QED BY <1>1, <3>1, <3>2, <3>3
    <2> QED BY <1>0, <1>a, <2>1, <2>2
  <1>2. ASSUME NEW t \in Task, BlockYield(t) PROVE FlagInv'
    <2>1. \A s \in Seqs : timer[t][s] # "marked"
      BY <1>2 DEF BlockYield, IInv, TimerInv, LiveTimer
    <2>2. /\ timer' = timer
          /\ is_block_timeout_'[t] = FALSE
          /\ \A x \in Task : x # t => /\ is_block_timeout_'[x] = is_block_timeout_[x]
                                      /\ pc'[x] = pc[x]
      BY <1>0, <1>2 DEF BlockYield
    <2> QED BY <2>1, <2>2 DEF FlagInv
  <1>3. ASSUME NEW t \in Task, AddWaitTask(t) PROVE FlagInv'
    <2>1. /\ is_block_timeout_' = is_block_timeout_
          /\ pc[t] = "sys_block"
          /\ \A x \in Task : x # t => pc'[x] = pc[x]
      BY <1>0, <1>3 DEF AddWaitTask
    <2>2. \A x \in Task, s \in Seqs :
             timer'[x][s] = "marked" <=> timer[x][s] = "marked"
      <3>1. CASE timer' = timer
        BY <3>1
      <3>2. CASE timer' = [timer EXCEPT ![t][block_sequence_[t]] = "armed"]
        <4> DEFINE s == block_sequence_[t]
        <4>1. s \in Seqs /\ timer[t][s] = "none"
          BY <2>1, ConstAssumption DEF IInv, TypeOK, SeqInv, TimerInv, Seqs
        <4>2. timer' = [timer EXCEPT ![t][s] = "armed"] /\ "armed" \in TimerState
          BY <3>2 DEF TimerState
        <4> HIDE DEF s
        <4> QED BY <1>0, <4>1, <4>2, TimerUpdate
      <3> QED BY <1>3, <3>1, <3>2 DEF AddWaitTask
    <2> QED BY <1>a, <2>1, <2>2
  <1>4. ASSUME NEW w \in Waker, Wakeup(w) \/ WakeupClear(w) PROVE FlagInv'
    BY <1>4, <1>a DEF Wakeup, WakeupClear
  <1>5. ASSUME NEW w \in Waker, WakeupCancel(w) PROVE FlagInv'
    <2> DEFINE t == wtk[w]
               s == block_timer_[t]
    <2>1. UNCHANGED <<pc, is_block_timeout_>>
      BY <1>5 DEF WakeupCancel
    <2>2. CASE timer' = timer
      BY <1>a, <2>1, <2>2
    <2>3. CASE /\ s # 0 /\ Active(t, s)
               /\ timer' = [timer EXCEPT ![t][s] = "cancelled"]
      <3>1. t \in Task
        BY <1>5, HeldTask DEF WakeupCancel
      <3>2. s \in Seqs
        BY <2>3, <3>1, ConstAssumption DEF IInv, TypeOK, Seqs
      <3>3. timer[t][s] # "marked"
        BY <2>3 DEF Active
      <3>4. \A x \in Task, r \in Seqs :
               timer'[x][r] = "marked" <=> timer[x][r] = "marked"
        <4>1. /\ timer' = [timer EXCEPT ![t][s] = "cancelled"]
              /\ "cancelled" \in TimerState
          BY <2>3 DEF TimerState
        <4> HIDE DEF t, s
        <4> QED BY <1>0, <3>1, <3>2, <3>3, <4>1, TimerUpdate
      <3> QED BY <1>a, <2>1, <3>4
    <2> QED BY <1>5, <2>2, <2>3 DEF WakeupCancel
  <1>6. ASSUME NEW w \in Waker, WakeupReady(w) PROVE FlagInv'
    <2>1. wtk[w] \in Task
      BY <1>6, HeldTask DEF WakeupReady
    <2> QED BY <1>0, <1>6, <1>a, <2>1 DEF WakeupReady
  <1>7. ASSUME NEW t \in Task, NEW s \in Seqs,
               \/ TimerExpire(t, s) \/ TimerFire(t, s) \/ TimerCheck(t, s)
               \/ CancelWait(t, s) \/ TimerTail(t, s)
        PROVE  FlagInv'
    <2>1. /\ UNCHANGED <<pc, is_block_timeout_>>
          /\ timer[t][s] # "marked"
          /\ \E v \in TimerState : /\ v # "marked"
                                   /\ timer' = [timer EXCEPT ![t][s] = v]
      BY <1>7 DEF TimerExpire, TimerFire, TimerCheck, CancelWait, TimerTail,
                  SetTimer, TimerState
    <2>2. \A x \in Task, r \in Seqs :
             timer'[x][r] = "marked" <=> timer[x][r] = "marked"
      BY <1>0, <2>1, TimerUpdate
    <2> QED BY <1>a, <2>1, <2>2
  <1>8. ASSUME NEW t \in Task, NEW s \in Seqs, CancelMark(t, s) PROVE FlagInv'
    <2>1. /\ timer'[t][s] = "marked"
          /\ \A x \in Task, r \in Seqs : x # t => timer'[x][r] = timer[x][r]
      BY <1>0, <1>8, TimerUpdate DEF CancelMark, SetTimer, TimerState
    <2>2. /\ pc' = pc
          /\ is_block_timeout_'[t] = TRUE
          /\ \A x \in Task : x # t => is_block_timeout_'[x] = is_block_timeout_[x]
      BY <1>0, <1>8 DEF CancelMark
    <2> QED BY <2>1, <2>2 DEF FlagInv
  <1>9. ASSUME NEW t \in Task, NEW s \in Seqs, CancelReady(t, s) PROVE FlagInv'
    <2>1. \A x \in Task, r \in Seqs : x # t => timer'[x][r] = timer[x][r]
      BY <1>0, <1>9, TimerUpdate DEF CancelReady, SetTimer, TimerState
    <2>2. /\ is_block_timeout_' = is_block_timeout_
          /\ pc'[t] = "runnable"
          /\ \A x \in Task : x # t => pc'[x] = pc[x]
      BY <1>0, <1>9 DEF CancelReady
    <2> QED BY <1>a, <2>1, <2>2
  <1>10. ASSUME NEW p \in Thread, ThreadStep(p) PROVE FlagInv'
    BY <1>10, <1>a DEF ThreadStep, TryBlockWait, ThreadWait, ThreadPoll,
                       ThreadWaitTimed, ThreadPollTimed, ThreadTimedReturn
  <1>11. CASE UNCHANGED vars
    BY <1>11, <1>a DEF vars
  <1> QED BY <1>1, <1>2, <1>3, <1>4, <1>5, <1>6, <1>7, <1>8, <1>9, <1>10, <1>11
          DEF Next, TaskStep, WakerStep, TimerStep
-----------------------------------------------------------------------------
(* How a step changes what the semaphore shows of a task.                  *)

SameView(x) == /\ Granted(x)' <=> Granted(x)
               /\ TimedOut(x)' <=> TimedOut(x)
               /\ pc'[x] = "waiting" <=> pc[x] = "waiting"

\* The view of every task is unchanged when what it is read from is.
LEMMA ViewSame ==
    ASSUME \A x \in Task : SameView(x) PROVE stBar' = stBar
  BY DEF SameView, stBar, View

\* The view changes at one task only.
LEMMA ViewUpdate ==
    ASSUME NEW t \in Task, NEW v, View(t)' = v,
           \A x \in Task : x # t => SameView(x)
    PROVE  stBar' = [stBar EXCEPT ![t] = v]
  <1>1. \A x \in Task : View(x)' = IF x = t THEN v ELSE View(x)
    BY DEF SameView, View
  <1> HIDE DEF View
  <1> QED BY <1>1 DEF stBar

\* The view of a task, by where it is.
LEMMA ViewOf ==
    ASSUME IInv, NEW t \in Task
    PROVE  /\ pc[t] \in {"run", "checked", "sys_block", "done"} => View(t) = "idle"
           /\ pc[t] = "ret_true" => View(t) = "granted"
           /\ pc[t] = "ret_false" => View(t) = "timedout"
           /\ InQueue(t) => View(t) = "waiting"
           /\ HeldByWaker(t) => View(t) = "granted"
           /\ HeldByTimer(t) => View(t) = "timedout"
           /\ pc[t] = "runnable" /\ ~is_block_timeout_[t] => View(t) = "granted"
           /\ pc[t] = "runnable" /\ is_block_timeout_[t] => View(t) = "timedout"
  <1>1. /\ pc[t] # "waiting" => ~HeldByWaker(t) /\ ~HeldByTimer(t)
        /\ InQueue(t) => pc[t] = "waiting" /\ ~HeldByWaker(t) /\ ~HeldByTimer(t)
        /\ HeldByWaker(t) => pc[t] = "waiting" /\ ~HeldByTimer(t)
        /\ HeldByTimer(t) => pc[t] = "waiting"
    BY DEF IInv, WokenOnce
  <1> QED BY <1>1 DEF View, Granted, TimedOut

\* Steps that leave the signals and the queue alone and every view as it is.
LEMMA Stutter ==
    ASSUME UNCHANGED <<wakeup_, wait_queue_>>, \A x \in Task : View(x)' = View(x)
    PROVE  UNCHANGED Sem!semVars
  BY DEF Sem!semVars, stBar

\* A step of one task: the views of the others do not change.
LEMMA OtherTasks ==
    ASSUME NEW t \in Task, UNCHANGED <<wtk, timer>>,
           \A x \in Task : x # t => /\ pc'[x] = pc[x]
                                    /\ is_block_timeout_'[x] = is_block_timeout_[x]
    PROVE  \A x \in Task : x # t => SameView(x)
  BY DEF SameView, Granted, TimedOut, HeldByWaker, HeldByTimer

SemStep == [Sem!Next]_(Sem!semVars)

\* The abstract action of each kind of step, from what it does to the view.
LEMMA AsWait ==
    ASSUME NEW t \in Task, View(t) = "idle",
           \/ /\ wakeup_ > 0 /\ wakeup_' = wakeup_ - 1
              /\ wait_queue_' = wait_queue_
              /\ View(t)' = "granted"
           \/ /\ wakeup_ = 0 /\ wakeup_' = wakeup_
              /\ wait_queue_' = Append(wait_queue_, t)
              /\ View(t)' = "waiting",
           \A x \in Task : x # t => SameView(x)
    PROVE  Sem!Next
  <1>1. stBar[t] = "idle"
    BY DEF stBar
  <1>2. stBar' = [stBar EXCEPT ![t] = View(t)']
    BY ViewUpdate
  <1>3. Sem!Wait(t)
    BY <1>1, <1>2 DEF Sem!Wait
  <1> QED BY <1>3 DEF Sem!Next

\* CoBlockWait is a granted Wait, or invisible.
LEMMA CoBlockWaitSim ==
    ASSUME IInv, IInv', NEW t \in Task, NEW kind, NEW timeo,
           CoBlockWait(t, kind, timeo)
    PROVE  SemStep
  <1>0. /\ pc[t] = "run"
        /\ UNCHANGED <<wait_queue_, is_block_timeout_, timer, wtk>>
        /\ \A x \in Task : x # t => pc'[x] = pc[x]
    BY DEF CoBlockWait, wakerVars, IInv, TypeOK
  <1>1. View(t) = "idle"
    BY <1>0, ViewOf
  <1>2. \A x \in Task : x # t => SameView(x)
    BY <1>0, OtherTasks
  <1>3. CASE wakeup_ > 0
    <2>1. wakeup_' = wakeup_ - 1 /\ pc'[t] = "ret_true"
      BY <1>3 DEF CoBlockWait, IInv, TypeOK
    <2>2. View(t)' = "granted"
      BY <2>1 DEF View, Granted
    <2> QED BY <1>0, <1>1, <1>2, <1>3, <2>1, <2>2, AsWait DEF SemStep
  <1>4. CASE wakeup_ = 0
    <2>1. wakeup_' = wakeup_ /\ pc'[t] = "checked"
      BY <1>4 DEF CoBlockWait, IInv, TypeOK
    <2>2. SameView(t)
      BY <1>0, <2>1
         DEF SameView, Granted, TimedOut, HeldByWaker, HeldByTimer
    <2>3. stBar' = stBar
      BY <1>2, <2>2, ViewSame
    <2> QED BY <1>0, <2>1, <2>3 DEF SemStep, Sem!semVars
  <1> QED BY <1>3, <1>4 DEF CoBlockWait

\* BlockYield is invisible: the task has not joined the queue yet.
LEMMA BlockYieldSim ==
    ASSUME IInv, NEW t \in Task, BlockYield(t)
    PROVE  SemStep
  <1>0. /\ pc[t] = "checked" /\ pc'[t] = "sys_block"
        /\ UNCHANGED <<wakeup_, wait_queue_, timer, wtk>>
        /\ \A x \in Task : x # t => /\ pc'[x] = pc[x]
                                    /\ is_block_timeout_'[x] = is_block_timeout_[x]
    BY DEF BlockYield, wakerVars, IInv, TypeOK
  <1>1. \A x \in Task : x # t => SameView(x)
    BY <1>0, OtherTasks
  <1>2. SameView(t)
    BY <1>0 DEF SameView, Granted, TimedOut, HeldByWaker, HeldByTimer
  <1>3. stBar' = stBar
    BY <1>1, <1>2, ViewSame
  <1> QED BY <1>0, <1>3 DEF SemStep, Sem!semVars

\* AddWaitTask is the Wait of the semaphore.
LEMMA AddWaitTaskSim ==
    ASSUME IInv, IInv', FlagInv, NEW t \in Task, AddWaitTask(t)
    PROVE  SemStep
  <1>0. /\ pc[t] = "sys_block"
        /\ UNCHANGED <<is_block_timeout_, wtk>>
        /\ \A x \in Task : x # t => pc'[x] = pc[x]
    BY DEF AddWaitTask, wakerVars, IInv, TypeOK
  <1>1. View(t) = "idle"
    BY <1>0, ViewOf
  <1>2. \A x \in Task, s \in Seqs :
           timer'[x][s] \in {"erased", "marked"}
              <=> timer[x][s] \in {"erased", "marked"}
    <2>1. CASE timer' = timer
      BY <2>1
    <2>2. CASE timer' = [timer EXCEPT ![t][block_sequence_[t]] = "armed"]
      <3> DEFINE s == block_sequence_[t]
      <3>0. TypeOK
        BY DEF IInv
      <3>1. s \in Seqs /\ timer[t][s] = "none"
        BY <1>0, ConstAssumption DEF IInv, TypeOK, SeqInv, TimerInv, Seqs
      <3>2. timer' = [timer EXCEPT ![t][s] = "armed"] /\ "armed" \in TimerState
        BY <2>2 DEF TimerState
      <3> HIDE DEF s
      <3> QED BY <3>0, <3>1, <3>2, TimerUpdate
    <2> QED BY <2>1, <2>2 DEF AddWaitTask
  <1>3. \A x \in Task : x # t => SameView(x)
    BY <1>0, <1>2 DEF SameView, Granted, TimedOut, HeldByWaker, HeldByTimer
  <1>4. CASE wakeup_ > 0
    <2>1. /\ wakeup_' = wakeup_ - 1 /\ pc'[t] = "runnable"
          /\ wait_queue_' = wait_queue_
      BY <1>4 DEF AddWaitTask, IInv, TypeOK
    <2>2. ~is_block_timeout_[t]
      BY <1>0 DEF IInv, TimerInv, LiveTimer, FlagInv
    <2>3. View(t)' = "granted"
      BY <1>0, <2>1, <2>2 DEF View, Granted
    <2> QED BY <1>1, <1>3, <1>4, <2>1, <2>3, AsWait DEF SemStep
  <1>5. CASE wakeup_ = 0
    <2>1. /\ wakeup_' = wakeup_ /\ pc'[t] = "waiting"
          /\ wait_queue_' = Append(wait_queue_, t)
      BY <1>5 DEF AddWaitTask, IInv, TypeOK
    <2>2. ~HeldByWaker(t)' /\ ~HeldByTimer(t)'
      BY <1>0, <1>2 DEF IInv, WokenOnce, HeldByWaker, HeldByTimer
    <2>3. View(t)' = "waiting"
      BY <2>1, <2>2 DEF View, Granted, TimedOut
    <2> QED BY <1>1, <1>3, <1>5, <2>1, <2>3, AsWait DEF SemStep
  <1> QED BY <1>4, <1>5 DEF AddWaitTask

\* Resume and TaskDone are invisible; Return is the Return of the semaphore.
LEMMA RunSim ==
    ASSUME IInv, IInv', NEW t \in Task, Resume(t) \/ Return(t) \/ TaskDone(t)
    PROVE  SemStep
  <1>0. /\ UNCHANGED <<wakeup_, wait_queue_, is_block_timeout_, timer, wtk>>
        /\ \A x \in Task : x # t => pc'[x] = pc[x]
    BY DEF Resume, Return, TaskDone, wakerVars, IInv, TypeOK
  <1>1. \A x \in Task : x # t => SameView(x)
    BY <1>0, OtherTasks
  <1>2. CASE Resume(t)
    <2>1. /\ pc[t] = "runnable"
          /\ is_block_timeout_[t] => pc'[t] = "ret_false"
          /\ ~is_block_timeout_[t] => pc'[t] = "ret_true"
      BY <1>2 DEF Resume, IInv, TypeOK
    <2>2. ~HeldByWaker(t) /\ ~HeldByTimer(t)
      BY <2>1 DEF IInv, WokenOnce
    <2>3. ~HeldByWaker(t)' /\ ~HeldByTimer(t)'
      BY <1>0, <2>2 DEF HeldByWaker, HeldByTimer
    <2>4. SameView(t)
      BY <1>0, <2>1, <2>2, <2>3 DEF SameView, Granted, TimedOut
    <2>5. stBar' = stBar
      BY <1>1, <2>4, ViewSame
    <2> QED BY <1>0, <2>5 DEF SemStep, Sem!semVars
  <1>3. CASE Return(t)
    <2>1. pc[t] \in {"ret_true", "ret_false"} /\ pc'[t] = "run"
      BY <1>3 DEF Return, IInv, TypeOK
    <2>2. View(t) \in {"granted", "timedout"}
      BY <2>1, ViewOf
    <2>3. ~HeldByWaker(t)' /\ ~HeldByTimer(t)'
      BY <1>0, <2>1 DEF IInv, WokenOnce, HeldByWaker, HeldByTimer
    <2>4. View(t)' = "idle"
      BY <2>1, <2>3 DEF View, Granted, TimedOut
    <2>5. stBar' = [stBar EXCEPT ![t] = "idle"] /\ stBar[t] = View(t)
      BY <1>1, <2>4, ViewUpdate DEF stBar
    <2>6. Sem!Return(t)
      BY <1>0, <2>2, <2>5 DEF Sem!Return
    <2> QED BY <2>6 DEF SemStep, Sem!Next
  <1>4. CASE TaskDone(t)
    <2>1. pc[t] = "run" /\ pc'[t] = "done"
      BY <1>4 DEF TaskDone, IInv, TypeOK
    <2>2. SameView(t)
      BY <1>0, <2>1 DEF SameView, Granted, TimedOut, HeldByWaker, HeldByTimer
    <2>3. stBar' = stBar
      BY <1>1, <2>2, ViewSame
    <2> QED BY <1>0, <2>3 DEF SemStep, Sem!semVars
  <1> QED BY <1>2, <1>3, <1>4

\* The locked section of Wakeup is Grant, Store or Refuse.
LEMMA WakeupSim ==
    ASSUME IInv, IInv', NEW w \in Waker, Wakeup(w)
    PROVE  SemStep
  <1>0. UNCHANGED <<pc, is_block_timeout_, timer>>
    BY DEF Wakeup, taskVars
  <1>1. CASE wait_queue_ = <<>>
    <2>1. /\ wakeup_' = IF wakeup_ >= MaxWakeup THEN wakeup_ ELSE wakeup_ + 1
          /\ UNCHANGED <<wait_queue_, wtk>>
      BY <1>1 DEF Wakeup, wakerVars
    <2>2. stBar' = stBar
      BY <1>0, <2>1 DEF stBar, View, Granted, TimedOut, HeldByWaker, HeldByTimer
    <2>3. wakeup_ \in Nat /\ MaxWakeup \in Nat
      BY ConstAssumption DEF IInv, TypeOK
    <2>4. CASE wakeup_ >= MaxWakeup
      BY <2>1, <2>2, <2>4 DEF SemStep, Sem!semVars
    <2>5. CASE wakeup_ < MaxWakeup
      <3>1. Sem!Store
        BY <1>1, <2>1, <2>2, <2>3, <2>5 DEF Sem!Store
      <3> QED BY <3>1 DEF SemStep, Sem!Next, Sem!Signal
    <2> QED BY <2>3, <2>4, <2>5
  <1>2. CASE wait_queue_ # <<>>
    <2>0. Head(wait_queue_) \in Task
      BY <1>2, QueueTail DEF IInv, TypeOK, WokenOnce
    <2>2. PICK t \in Task : t = Head(wait_queue_)
      BY <2>0
    <2>1. /\ wait_queue_' = Tail(wait_queue_)
          /\ wtk' = [wtk EXCEPT ![w] = t]
          /\ wakeup_' = wakeup_
          /\ wpc[w] = "idle"
      BY <1>2, <2>2 DEF Wakeup
    <2>3. wtk[w] = NoTask
      BY <2>1 DEF IInv, WakerInv
    <2>4. wtk'[w] = t /\ \A v \in Waker : v # w => wtk'[v] = wtk[v]
      BY <2>1 DEF IInv, TypeOK
    <2>5. View(t)' = "granted"
      BY <2>4 DEF View, Granted, HeldByWaker
    <2>6. \A x \in Task : x # t => SameView(x)
      <3>1. \A x \in Task : x # t => (HeldByWaker(x)' <=> HeldByWaker(x))
        BY <2>3, <2>4, ConstAssumption DEF HeldByWaker
      <3>2. \A x \in Task : HeldByTimer(x)' <=> HeldByTimer(x)
        BY <1>0 DEF HeldByTimer
      <3> QED BY <1>0, <3>1, <3>2 DEF SameView, Granted, TimedOut
    <2>7. stBar' = [stBar EXCEPT ![t] = "granted"]
      BY <2>2, <2>5, <2>6, ViewUpdate
    <2>8. Sem!Grant
      BY <1>2, <2>1, <2>2, <2>7 DEF Sem!Grant
    <2> QED BY <2>8 DEF SemStep, Sem!Next, Sem!Signal
  <1> QED BY <1>1, <1>2

\* The rest of Wakeup is invisible: the task was granted when it was popped.
LEMMA WakerStepSim ==
    ASSUME IInv, IInv', FlagInv, NEW w \in Waker, WakerStep(w)
    PROVE  SemStep
  <1>0. UNCHANGED <<wakeup_, wait_queue_, is_block_timeout_>>
    BY DEF WakerStep, WakeupClear, WakeupCancel, WakeupReady
  <1>1. CASE WakeupClear(w)
    <2>1. stBar' = stBar
      BY <1>1 DEF WakeupClear, stBar, View, Granted, TimedOut, HeldByWaker,
                  HeldByTimer
    <2> QED BY <1>0, <2>1 DEF SemStep, Sem!semVars
  <1>2. CASE WakeupCancel(w)
    <2> DEFINE t == wtk[w]
               s == block_timer_[t]
    <2>1. UNCHANGED <<pc, wtk>>
      BY <1>2 DEF WakeupCancel
    <2>2. \A x \in Task, r \in Seqs :
             timer'[x][r] \in {"erased", "marked"}
                <=> timer[x][r] \in {"erased", "marked"}
      <3>1. CASE timer' = timer
        BY <3>1
      <3>2. CASE /\ s # 0 /\ Active(t, s)
                 /\ timer' = [timer EXCEPT ![t][s] = "cancelled"]
        <4>1. t \in Task
          BY <1>2, HeldTask DEF WakeupCancel
        <4>2. s \in Seqs
          BY <3>2, <4>1, ConstAssumption DEF IInv, TypeOK, Seqs
        <4>3. timer[t][s] \notin {"erased", "marked"}
          BY <3>2 DEF Active
        <4>4. /\ timer' = [timer EXCEPT ![t][s] = "cancelled"]
              /\ "cancelled" \in TimerState
          BY <3>2 DEF TimerState
        <4>5. TypeOK
          BY DEF IInv
        <4> HIDE DEF t, s
        <4> QED BY <4>1, <4>2, <4>3, <4>4, <4>5, TimerUpdate
      <3> QED BY <1>2, <3>1, <3>2 DEF WakeupCancel
    <2>3. \A x \in Task : SameView(x)
      BY <1>0, <2>1, <2>2
         DEF SameView, Granted, TimedOut, HeldByWaker, HeldByTimer
    <2> QED BY <1>0, <2>3, ViewSame DEF SemStep, Sem!semVars
  <1>3. CASE WakeupReady(w)
    <2>0. wtk[w] \in Task
      BY <1>3, HeldTask DEF WakeupReady
    <2>3. PICK t \in Task : t = wtk[w]
      BY <2>0
    <2>1. /\ wpc[w] = "ready"
          /\ wtk' = [wtk EXCEPT ![w] = NoTask]
          /\ timer' = timer
          /\ pc' = [pc EXCEPT ![t] = "runnable"]
      BY <1>3, <2>3 DEF WakeupReady
    <2>2. /\ HeldByWaker(t) /\ ~HeldByTimer(t)
          /\ pc[t] = "waiting"
          /\ \A v \in Waker : wtk[v] = t => v = w
      BY <2>1, <2>3, HeldTask
    <2>4. /\ wtk'[w] = NoTask /\ \A v \in Waker : v # w => wtk'[v] = wtk[v]
          /\ pc'[t] = "runnable" /\ \A x \in Task : x # t => pc'[x] = pc[x]
      BY <2>1, <2>2 DEF IInv, TypeOK
    <2>5. ~is_block_timeout_[t]
      BY <2>2 DEF FlagInv, HeldByTimer
    <2>6. View(t) = "granted" /\ View(t)' = "granted"
      BY <1>0, <2>2, <2>4, <2>5 DEF View, Granted
    <2>7. \A x \in Task : x # t => SameView(x)
      <3>1. \A x \in Task : x # t => (HeldByWaker(x)' <=> HeldByWaker(x))
        BY <2>3, <2>4, ConstAssumption DEF HeldByWaker
      <3>2. \A x \in Task : HeldByTimer(x)' <=> HeldByTimer(x)
        BY <2>1 DEF HeldByTimer
      <3> QED BY <1>0, <2>4, <3>1, <3>2 DEF SameView, Granted, TimedOut
    <2>8. \A x \in Task : View(x)' = View(x)
      BY <2>6, <2>7 DEF SameView, View
    <2> QED BY <1>0, <2>8, Stutter DEF SemStep
  <1> QED BY <1>1, <1>2, <1>3 DEF WakerStep

\* CancelWait's erase is the Timeout; the other timer steps are invisible.
LEMMA TimerStepSim ==
    ASSUME IInv, IInv', FlagInv, NEW t \in Task, NEW s \in Seqs, TimerStep(t, s)
    PROVE  SemStep
  <1> USE DEF SetTimer, wakerVars
  <1>0. TypeOK /\ UNCHANGED <<wakeup_, wtk>>
    BY DEF IInv, TimerStep, TimerExpire, TimerFire, TimerCheck, CancelWait,
           CancelMark, CancelReady, TimerTail
  \* A callback that does not take its task changes no view.
  <1>a. ASSUME NEW v \in TimerState,
               timer' = [timer EXCEPT ![t][s] = v],
               v \in {"erased", "marked"} <=> timer[t][s] \in {"erased", "marked"},
               UNCHANGED <<pc, wait_queue_>>,
               \A x \in Task : pc[x] = "runnable"
                  => is_block_timeout_'[x] = is_block_timeout_[x]
        PROVE  SemStep
    <2>1. \A x \in Task, r \in Seqs :
             timer'[x][r] \in {"erased", "marked"}
                <=> timer[x][r] \in {"erased", "marked"}
      BY <1>0, <1>a, TimerUpdate
    <2>2. \A x \in Task : SameView(x)
      BY <1>0, <1>a, <2>1
         DEF SameView, Granted, TimedOut, HeldByWaker, HeldByTimer
    <2> QED BY <1>0, <1>a, <2>2, ViewSame DEF SemStep, Sem!semVars
  <1>1. CASE TimerExpire(t, s)
    BY <1>1, <1>a DEF TimerExpire, TimerState
  <1>2. CASE TimerFire(t, s)
    BY <1>2, <1>a DEF TimerFire, TimerState
  <1>3. CASE TimerCheck(t, s)
    <2> DEFINE v == IF block_sequence_[t] = s THEN "cancel" ELSE "tail"
    <2>1. v \in {"cancel", "tail"}
      OBVIOUS
    <2>2. timer[t][s] = "check" /\ timer' = [timer EXCEPT ![t][s] = v]
      BY <1>3 DEF TimerCheck
    <2> HIDE DEF v
    <2> QED BY <1>3, <1>a, <2>1, <2>2 DEF TimerCheck, TimerState
  <1>4. CASE TimerTail(t, s)
    BY <1>4, <1>a DEF TimerTail, TimerState
  <1>5. CASE CancelMark(t, s)
    <2>1. pc[t] = "waiting"
      BY <1>5 DEF CancelMark, IInv, TimerInv, LiveTimer
    <2>2. \A x \in Task : x # t => is_block_timeout_'[x] = is_block_timeout_[x]
      BY <1>5 DEF CancelMark, IInv, TypeOK
    <2> QED BY <1>5, <1>a, <2>1, <2>2 DEF CancelMark, TimerState
  <1>6. CASE CancelReady(t, s)
    <2>1. /\ timer'[t][s] = "tail"
          /\ \A x \in Task, r \in Seqs :
                x # t \/ r # s => timer'[x][r] = timer[x][r]
      BY <1>0, <1>6, TimerUpdate DEF CancelReady, TimerState
    <2>2. /\ UNCHANGED <<wait_queue_, is_block_timeout_>>
          /\ timer[t][s] = "marked"
          /\ pc'[t] = "runnable" /\ \A x \in Task : x # t => pc'[x] = pc[x]
      BY <1>6 DEF CancelReady, IInv, TypeOK
    <2>3. pc[t] = "waiting" /\ is_block_timeout_[t] /\ HeldByTimer(t)
      BY <2>2 DEF IInv, TimerInv, LiveTimer, FlagInv, HeldByTimer
    <2>4. View(t) = "timedout"
      BY <2>3, ViewOf
    <2>5. ~HeldByWaker(t)'
      BY <1>0, <2>3 DEF IInv, WokenOnce, HeldByWaker
    <2>6. View(t)' = "timedout"
      BY <2>2, <2>3, <2>5 DEF View, Granted, TimedOut
    <2>7. \A x \in Task : x # t => SameView(x)
      BY <1>0, <2>1, <2>2
         DEF SameView, Granted, TimedOut, HeldByWaker, HeldByTimer
    <2>8. \A x \in Task : View(x)' = View(x)
      BY <2>4, <2>6, <2>7 DEF SameView, View
    <2> QED BY <1>0, <2>2, <2>8, Stutter DEF SemStep
  <1>7. CASE CancelWait(t, s)
    <2>0. UNCHANGED <<pc, is_block_timeout_>> /\ timer[t][s] = "cancel"
      BY <1>7 DEF CancelWait
    <2>1. CASE UNCHANGED wait_queue_ /\ timer' = [timer EXCEPT ![t][s] = "tail"]
      BY <1>a, <2>0, <2>1 DEF TimerState
    <2>2. ASSUME NEW k \in 1..Len(wait_queue_), wait_queue_[k] = t,
                 wait_queue_' = Without(wait_queue_, k),
                 timer' = [timer EXCEPT ![t][s] = "erased"]
          PROVE  SemStep
      <3>1. /\ timer'[t][s] = "erased"
            /\ \A x \in Task, r \in Seqs :
                  x # t \/ r # s => timer'[x][r] = timer[x][r]
        BY <1>0, <2>2, TimerUpdate DEF TimerState
      <3>2. HeldByTimer(t)'
        BY <3>1 DEF HeldByTimer
      <3>3. pc[t] = "waiting" /\ ~HeldByWaker(t)'
        BY <1>0, <2>2 DEF IInv, WokenOnce, HeldByWaker, InQueue, Member
      <3>4. View(t)' = "timedout"
        BY <2>0, <3>2, <3>3 DEF View, Granted, TimedOut
      <3>5. \A x \in Task : x # t => SameView(x)
        BY <1>0, <2>0, <3>1
           DEF SameView, Granted, TimedOut, HeldByWaker, HeldByTimer
      <3>6. stBar' = [stBar EXCEPT ![t] = "timedout"]
        BY <3>4, <3>5, ViewUpdate
      <3>7. Sem!Timeout(t)
        BY <1>0, <2>2, <3>6 DEF Sem!Timeout, Sem!Without, Without
      <3> QED BY <3>7 DEF SemStep, Sem!Next
    <2> QED BY <1>7, <2>1, <2>2 DEF CancelWait
  <1> QED BY <1>1, <1>2, <1>3, <1>4, <1>5, <1>6, <1>7 DEF TimerStep

\* A successful poll of a thread is a Take.
LEMMA ThreadStepSim ==
    ASSUME IInv, NEW p \in Thread, ThreadStep(p)
    PROVE  SemStep
  <1>1. /\ UNCHANGED <<wait_queue_, pc, is_block_timeout_, timer, wtk>>
        /\ wakeup_' = wakeup_ \/ (wakeup_ > 0 /\ wakeup_' = wakeup_ - 1)
    BY DEF ThreadStep, TryBlockWait, ThreadWait, ThreadPoll, ThreadWaitTimed,
           ThreadPollTimed, ThreadTimedReturn, taskVars, wakerVars
  <1>2. stBar' = stBar
    BY <1>1 DEF stBar, View, Granted, TimedOut, HeldByWaker, HeldByTimer
  <1>3. wakeup_ > 0 /\ wakeup_' = wakeup_ - 1 => Sem!Take
    BY <1>1, <1>2 DEF Sem!Take
  <1> QED BY <1>1, <1>2, <1>3 DEF SemStep, Sem!Next, Sem!semVars

\* BlockObject implements the counting semaphore with FIFO waiters: every
\* interleaving of its locked sections, timers and wakers is, seen through
\* stBar, a behaviour of Semaphore.
THEOREM BlockObjectImplementsSemaphore == Spec => ImplementsSemaphore
  <1>1. Init => Sem!Init
    <2> SUFFICES ASSUME Init PROVE Sem!Init
      OBVIOUS
    <2>1. IInv
      BY InitIInv
    <2>2. \A t \in Task : View(t) = "idle"
      BY <2>1, ViewOf DEF Init
    <2> QED BY <2>2 DEF Init, Sem!Init, stBar
  <1>2. IInv /\ IInv' /\ FlagInv /\ [Next]_vars => [Sem!Next]_(Sem!semVars)
    <2> SUFFICES ASSUME IInv, IInv', FlagInv, [Next]_vars PROVE SemStep
      BY DEF SemStep
    <2>1. ASSUME NEW t \in Task, StartWait(t) PROVE SemStep
      BY <2>1, CoBlockWaitSim DEF StartWait
    <2>2. ASSUME NEW t \in Task, TaskStep(t) \/ TaskDone(t) PROVE SemStep
      BY <2>2, BlockYieldSim, AddWaitTaskSim, RunSim DEF TaskStep
    <2>3. ASSUME NEW w \in Waker, Wakeup(w) \/ WakerStep(w) PROVE SemStep
      BY <2>3, WakeupSim, WakerStepSim
    <2>4. ASSUME NEW t \in Task, NEW s \in Seqs, TimerStep(t, s) PROVE SemStep
      BY <2>4, TimerStepSim
    <2>5. ASSUME NEW p \in Thread, ThreadStep(p) PROVE SemStep
      BY <2>5, ThreadStepSim
    <2>6. CASE UNCHANGED vars
      BY <2>6 DEF vars, taskVars, wakerVars, SemStep, Sem!semVars, stBar, View,
                  Granted, TimedOut, HeldByWaker, HeldByTimer
    <2> QED BY <2>1, <2>2, <2>3, <2>4, <2>5, <2>6 DEF Next
  <1>3. Spec => [](IInv /\ FlagInv)
    BY InitIInv, NextIInv, InitFlag, NextFlag, PTL DEF Spec
  <1> QED BY <1>1, <1>2, <1>3, PTL DEF Spec, ImplementsSemaphore, Sem!Spec
=============================================================================
