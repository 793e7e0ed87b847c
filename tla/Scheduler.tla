------------------------------ MODULE Scheduler ------------------------------
(***************************************************************************)
(* co::Scheduler and co::Processer (libgo/scheduler.cpp, processer.cpp)    *)
(* with SleepWait (sleep_wait.cpp): tasks are created, dispatched to the   *)
(* run queue of a Processer, run by the thread that owns it, stolen by     *)
(* idle threads, put to sleep, blocked and woken, and counted.             *)
(*                                                                         *)
(* Each operation of TSQueue is one step (it holds the queue's lock);      *)
(* whatever happens between two of them is interleaved.  A run queue, once *)
(* a list and a count, is a sequence.  A blocked task (sys_block, io_block)*)
(* waits in a BlockObject or in IoWait, which have their own modules: here *)
(* somebody eventually makes it runnable.  When a sleep ends is left open; *)
(* module CoTimerMgr has the clock.                                        *)
(*                                                                         *)
(* The position of a scheduler thread, in the order of the code:           *)
(*   start, size, pop, in (a task is running), spawn (it creates another), *)
(*   out, settle, catch, victim, loot, share, sleepers, wake, returned.    *)
(***************************************************************************)
EXTENDS Integers, FiniteSets, Queues

CONSTANTS Task, Thread,
          Looper,        \* threads that call RunLoop; the others RunUntilNoTask
          Main,          \* the thread that creates tasks from outside
          MaxProc,       \* bound: Processers that may come to exist
          Dispatch,      \* the dispatch modes CreateTask is called with
          EnableSteal,   \* CoroutineOptions::enable_work_steal
          MaxSwitch,     \* bound: times one task gives up the processor
          NoTask

ASSUME ConstAssumption == /\ MaxProc \in Nat \ {0}
                          /\ MaxSwitch \in Nat
                          /\ EnableSteal \in BOOLEAN
                          /\ IsFiniteSet(Thread) /\ Cardinality(Thread) <= MaxProc
                          /\ Looper \subseteq Thread
                          /\ Main \notin Thread
                          /\ NoTask \notin Task
                          /\ Dispatch \subseteq {"robin", "local", "index"}

VARIABLES procs,         \* run_proc_list_.size()
          thread_id_,    \* the next thread id
          tid,           \* ThreadLocalInfo::thread_id, -1 before the first Run
          queue,         \* runnable_list_ of each Processer
          state_,        \* Task::state_; "new" and "lost" are no task at all
          proc_,         \* Task::proc_, -1 for null
          switches,      \* times a task gave up the processor
          eptr_,         \* Task::eptr_ is set
          task_count_,   \* the counter IsEmpty and RunUntilNoTask read
          kid,           \* a task counted by its creator, not yet dispatched
          blocked,       \* tasks waiting in a BlockObject or in IoWait
          wait_tasks_,   \* SleepWait::wait_tasks_
          sleepers,      \* tasks whose wakeup timer SleepWait's manager holds
          pc,            \* position of each scheduler thread
          cur,           \* Processer::current_task_
          c, done_count, \* Processer::Run's counters
          allow_steal,   \* DoRunnable's argument
          r, want,       \* the victim and how many tasks to take
          tasks,         \* StealHalf's list, in no queue
          timers         \* WaitLoop's list of expired timers

queueVars == <<queue, state_, proc_>>
taskVars == <<switches, eptr_>>
waitVars == <<blocked, wait_tasks_, sleepers>>
idVars == <<procs, thread_id_, tid>>
stealVars == <<allow_steal, r, want, tasks>>
vars == <<idVars, queueVars, taskVars, task_count_, kid, waitVars, pc, cur, c,
          done_count, stealVars, timers>>

Proc == 0..(MaxProc - 1)
Creator == Thread \cup {Main}
Created == {t \in Task : state_[t] # "new"}
Living == {t \in Task : state_[t] \notin {"new", "done", "lost"}}

ThreadPc == {"start", "size", "pop", "in", "spawn", "out", "settle", "catch",
             "victim", "loot", "share", "sleepers", "wake", "returned"}

Init == /\ procs = 0
        /\ thread_id_ = 0
        /\ tid = [h \in Thread |-> -1]
        /\ queue = [p \in Proc |-> <<>>]
        /\ state_ = [t \in Task |-> "new"]
        /\ proc_ = [t \in Task |-> -1]
        /\ switches = [t \in Task |-> 0]
        /\ eptr_ = [t \in Task |-> FALSE]
        /\ task_count_ = 0
        /\ kid = [m \in Creator |-> NoTask]
        /\ blocked = {} /\ wait_tasks_ = {} /\ sleepers = {}
        /\ pc = [h \in Thread |-> "start"]
        /\ cur = [h \in Thread |-> NoTask]
        /\ c = [h \in Thread |-> 0]
        /\ done_count = [h \in Thread |-> 0]
        /\ allow_steal = [h \in Thread |-> EnableSteal]
        /\ r = [h \in Thread |-> 0]
        /\ want = [h \in Thread |-> 0]
        /\ tasks = [h \in Thread |-> <<>>]
        /\ timers = [h \in Thread |-> <<>>]

Goto(h, l) == pc' = [pc EXCEPT ![h] = l]
-----------------------------------------------------------------------------
(* Creating and dispatching a task.                                        *)

\* The Processers that a dispatch mode may choose for a task created by m.
\* Random and robin choose among the existing ones (the robin counter is
\* shared with tasks outside the model); an explicit index may name a
\* Processer that does not exist yet.
Targets(m, d) ==
    CASE d = "robin" -> 0..(IF procs = 0 THEN 0 ELSE procs - 1)
      [] d = "local" -> {IF m \in Thread THEN tid[m] ELSE 0}
      [] d = "index" -> Proc

\* GetProcesser: the list is extended up to the index.
GetProcesser(p) == procs' = IF procs > p THEN procs ELSE p + 1

\* Processer::AddTaskRunnable
AddTo(p, t) == /\ state_' = [state_ EXCEPT ![t] = "runnable"]
               /\ queue' = [queue EXCEPT ![p] = Append(@, t)]

\* CreateTask: the task is counted before anybody can run it.
CreateTask(m, t) ==
    /\ state_[t] = "new"
    /\ kid[m] = NoTask
    /\ \/ m = Main /\ UNCHANGED pc
       \/ m # Main /\ pc[m] = "in" /\ Goto(m, "spawn")
    /\ state_' = [state_ EXCEPT ![t] = "init"]
    /\ kid' = [kid EXCEPT ![m] = t]
    /\ task_count_' = task_count_ + 1
    /\ UNCHANGED <<idVars, queue, proc_, taskVars, waitVars, cur, c,
                   done_count, stealVars, timers>>

\* Scheduler::AddTaskRunnable of a task that has no Processer yet.
DispatchTask(m) ==
    /\ kid[m] # NoTask
    /\ \E d \in Dispatch : \E p \in Targets(m, d) :
          GetProcesser(p) /\ AddTo(p, kid[m])
    /\ kid' = [kid EXCEPT ![m] = NoTask]
    /\ IF m = Main THEN UNCHANGED pc ELSE Goto(m, "in")
    /\ UNCHANGED <<thread_id_, tid, proc_, taskVars, task_count_, waitVars, cur,
                   c, done_count, stealVars, timers>>
-----------------------------------------------------------------------------
(* One cycle of Scheduler::Run.                                            *)

\* The first call gives the thread an id and the Processer of that id.
Enter(h) ==
    /\ pc[h] = "start"
    /\ tid' = [tid EXCEPT ![h] = thread_id_]
    /\ thread_id_' = thread_id_ + 1
    /\ GetProcesser(thread_id_)
    /\ Goto(h, "size")
    /\ UNCHANGED <<queueVars, taskVars, task_count_, kid, waitVars, cur, c,
                   done_count, stealVars, timers>>

\* The loop ends after as many tasks as the queue has now.
ReadSize(h) ==
    /\ pc[h] = "size"
    /\ Goto(h, IF c[h] >= Len(queue[tid[h]]) THEN "settle" ELSE "pop")
    /\ UNCHANGED <<idVars, queueVars, taskVars, task_count_, kid, waitVars, cur,
                   c, done_count, stealVars, timers>>

\* The pop finds the queue empty when a thief came first.
PopTask(h) ==
    /\ pc[h] = "pop"
    /\ LET q == queue[tid[h]]
       IN  \/ /\ q = <<>>
              /\ Goto(h, "settle")
              /\ UNCHANGED <<queue, cur, c>>
           \/ /\ q # <<>>
              /\ queue' = [queue EXCEPT ![tid[h]] = Tail(q)]
              /\ cur' = [cur EXCEPT ![h] = Head(q)]
              /\ c' = [c EXCEPT ![h] = @ + 1]
              /\ Goto(h, "in")
    /\ UNCHANGED <<idVars, state_, proc_, taskVars, task_count_, kid, waitVars,
                   done_count, stealVars, timers>>

\* The context switch fails: the task is dropped and the exception leaves
\* Run, done_count unchanged.
SwapInFails(h) ==
    /\ pc[h] = "in"
    /\ state_' = [state_ EXCEPT ![cur[h]] = "lost"]
    /\ cur' = [cur EXCEPT ![h] = NoTask]
    /\ Goto(h, "catch")
    /\ UNCHANGED <<idVars, queue, proc_, taskVars, task_count_, kid, waitVars,
                   c, done_count, stealVars, timers>>

\* The running task calls CoYield with a state of its choice: it yields,
\* sleeps or blocks.  It remembers the Processer it ran on.
CoYield(h, s) ==
    /\ pc[h] = "in"
    /\ s \in {"runnable", "sleep", "sys_block"}
    /\ switches[cur[h]] < MaxSwitch
    /\ switches' = [switches EXCEPT ![cur[h]] = @ + 1]
    /\ state_' = [state_ EXCEPT ![cur[h]] = s]
    /\ proc_' = [proc_ EXCEPT ![cur[h]] = tid[h]]
    /\ Goto(h, "out")
    /\ UNCHANGED <<idVars, queue, eptr_, task_count_, kid, waitVars, cur, c,
                   done_count, stealVars, timers>>

\* The task's function returns or throws; with delay_rethrow the exception
\* is kept in eptr_.
Finish(h, threw) ==
    /\ pc[h] = "in"
    /\ state_' = [state_ EXCEPT ![cur[h]] = "done"]
    /\ eptr_' = [eptr_ EXCEPT ![cur[h]] = threw]
    /\ proc_' = [proc_ EXCEPT ![cur[h]] = tid[h]]
    /\ Goto(h, "out")
    /\ UNCHANGED <<idVars, queue, switches, task_count_, kid, waitVars, cur, c,
                   done_count, stealVars, timers>>

\* Processer::Run's switch on the state the task left with.
LeaveRunnable(h) ==
    /\ state_[cur[h]] = "runnable"
    /\ queue' = [queue EXCEPT ![tid[h]] = Append(@, cur[h])]
    /\ Goto(h, "size")
    /\ UNCHANGED <<state_, waitVars, done_count>>

LeaveSleep(h) ==
    /\ state_[cur[h]] = "sleep"
    /\ wait_tasks_' = wait_tasks_ \cup {cur[h]}
    /\ sleepers' = sleepers \cup {cur[h]}
    /\ Goto(h, "size")
    /\ UNCHANGED <<queue, state_, blocked, done_count>>

\* AddWaitTask either takes the task or finds the signal already there.
LeaveBlock(h) ==
    /\ state_[cur[h]] = "sys_block"
    /\ \/ blocked' = blocked \cup {cur[h]} /\ UNCHANGED <<queue, state_>>
       \/ AddTo(tid[h], cur[h]) /\ UNCHANGED blocked
    /\ Goto(h, "size")
    /\ UNCHANGED <<wait_tasks_, sleepers, done_count>>

LeaveDone(h) ==
    /\ state_[cur[h]] = "done"
    /\ done_count' = [done_count EXCEPT ![h] = @ + 1]
    /\ Goto(h, IF eptr_[cur[h]] THEN "catch" ELSE "size")
    /\ UNCHANGED <<queue, state_, waitVars>>

SwitchOut(h) ==
    /\ pc[h] = "out"
    /\ LeaveRunnable(h) \/ LeaveSleep(h) \/ LeaveBlock(h) \/ LeaveDone(h)
    /\ cur' = [cur EXCEPT ![h] = NoTask]
    /\ UNCHANGED <<idVars, proc_, taskVars, task_count_, kid, c, stealVars,
                   timers>>
-----------------------------------------------------------------------------
(* The rest of the cycle: counting, stealing, sleepers, the loop.          *)

\* Mutant: what the second pass of DoRunnable finished is not subtracted.
Settle_FirstPass(h) ==
    /\ pc[h] = "settle"
    /\ task_count_' = task_count_ - (IF allow_steal[h] THEN done_count[h] ELSE 0)
    /\ Goto(h, IF c[h] = 0 /\ done_count[h] = 0 /\ allow_steal[h] /\ procs > 1
               THEN "victim" ELSE "sleepers")
    /\ c' = [c EXCEPT ![h] = 0]
    /\ done_count' = [done_count EXCEPT ![h] = 0]
    /\ allow_steal' = [allow_steal EXCEPT ![h] = EnableSteal]
    /\ UNCHANGED <<idVars, queueVars, taskVars, kid, waitVars, cur, r, want,
                   tasks, timers>>

\* DoRunnable after Processer::Run: the finished tasks leave the count, and
\* a thread that ran nothing goes stealing.
Settle(h) ==
    /\ pc[h] = "settle"
    /\ task_count_' = task_count_ - done_count[h]
    /\ Goto(h, IF c[h] = 0 /\ done_count[h] = 0 /\ allow_steal[h] /\ procs > 1
               THEN "victim" ELSE "sleepers")
    /\ c' = [c EXCEPT ![h] = 0]
    /\ done_count' = [done_count EXCEPT ![h] = 0]
    /\ allow_steal' = [allow_steal EXCEPT ![h] = EnableSteal]
    /\ UNCHANGED <<idVars, queueVars, taskVars, kid, waitVars, cur, r, want,
                   tasks, timers>>

\* Mutant: the handler rethrows without subtracting what was done.
Catch_KeepsCount(h) ==
    /\ pc[h] = "catch"
    /\ UNCHANGED task_count_
    /\ c' = [c EXCEPT ![h] = 0]
    /\ done_count' = [done_count EXCEPT ![h] = 0]
    /\ allow_steal' = [allow_steal EXCEPT ![h] = EnableSteal]
    /\ Goto(h, "size")
    /\ UNCHANGED <<idVars, queueVars, taskVars, kid, waitVars, cur, r, want,
                   tasks, timers>>

\* DoRunnable's handler: the tasks done before the exception are subtracted
\* and it is rethrown to the caller of Run, who may call Run again.
Catch(h) ==
    /\ pc[h] = "catch"
    /\ task_count_' = task_count_ - done_count[h]
    /\ c' = [c EXCEPT ![h] = 0]
    /\ done_count' = [done_count EXCEPT ![h] = 0]
    /\ allow_steal' = [allow_steal EXCEPT ![h] = EnableSteal]
    /\ Goto(h, "size")
    /\ UNCHANGED <<idVars, queueVars, taskVars, kid, waitVars, cur, r, want,
                   tasks, timers>>

\* Mutant: the last Processer is never robbed.
Victims_NotLast(h) == (0..(procs - 2)) \ {tid[h]}

\* A random Processer; the thread's own is replaced by a neighbour.
Victims(h) == (0..(procs - 1)) \ {tid[h]}

\* StealHalf, first half: how many tasks the victim has.
ChooseVictim(h, p) ==
    /\ pc[h] = "victim"
    /\ p \in Victims(h)
    /\ r' = [r EXCEPT ![h] = p]
    /\ want' = [want EXCEPT ![h] = (Len(queue[p]) + 1) \div 2]
    /\ Goto(h, "loot")
    /\ UNCHANGED <<idVars, queueVars, taskVars, task_count_, kid, waitVars, cur,
                   c, done_count, allow_steal, tasks, timers>>

\* TSQueue::pop_back of a queue with at least one task takes at least one,
\* whatever n is: the queue may have changed since its size was read.
PopBack(q, n) == IF n >= Len(q) THEN Len(q) ELSE IF n = 0 THEN 1 ELSE n

\* Mutant: the tasks are copied and stay in the victim's queue.
PopLoot_Copies(h) ==
    /\ pc[h] = "loot"
    /\ LET q == queue[r[h]]
           n == PopBack(q, want[h])
       IN  /\ tasks' = [tasks EXCEPT ![h] = SubSeq(q, Len(q) - n + 1, Len(q))]
           /\ Goto(h, IF q = <<>> THEN "sleepers" ELSE "share")
    /\ r' = [r EXCEPT ![h] = 0] /\ want' = [want EXCEPT ![h] = 0]
    /\ UNCHANGED <<idVars, queueVars, taskVars, task_count_, kid, waitVars,
                   cur, c, done_count, allow_steal, timers>>

\* Second half: the tasks at the tail leave the victim's queue ...
PopLoot(h) ==
    /\ pc[h] = "loot"
    /\ LET q == queue[r[h]]
           n == PopBack(q, want[h])
       IN  /\ tasks' = [tasks EXCEPT ![h] = SubSeq(q, Len(q) - n + 1, Len(q))]
           /\ queue' = [queue EXCEPT ![r[h]] = SubSeq(q, 1, Len(q) - n)]
           /\ Goto(h, IF q = <<>> THEN "sleepers" ELSE "share")
    /\ r' = [r EXCEPT ![h] = 0] /\ want' = [want EXCEPT ![h] = 0]
    /\ UNCHANGED <<idVars, state_, proc_, taskVars, task_count_, kid, waitVars,
                   cur, c, done_count, allow_steal, timers>>

\* ... and enter the thief's, which runs them without stealing again.
PushLoot(h) ==
    /\ pc[h] = "share"
    /\ queue' = [queue EXCEPT ![tid[h]] = @ \o tasks[h]]
    /\ tasks' = [tasks EXCEPT ![h] = <<>>]
    /\ allow_steal' = [allow_steal EXCEPT ![h] = FALSE]
    /\ Goto(h, "size")
    /\ UNCHANGED <<idVars, state_, proc_, taskVars, task_count_, kid, waitVars,
                   cur, c, done_count, r, want, timers>>

\* SleepWait::WaitLoop: the expired timers leave the manager, one by one under
\* its lock, and are then called.
GetExpired(h, t) ==
    /\ pc[h] = "sleepers"
    /\ t \in sleepers
    /\ timers' = [timers EXCEPT ![h] = Append(@, t)]
    /\ sleepers' = sleepers \ {t}
    /\ UNCHANGED <<idVars, queueVars, taskVars, task_count_, kid, blocked,
                   wait_tasks_, pc, cur, c, done_count, stealVars>>

CallTimers(h) ==
    /\ pc[h] = "sleepers"
    /\ timers[h] # <<>>
    /\ Goto(h, "wake")
    /\ UNCHANGED <<idVars, queueVars, taskVars, task_count_, kid, waitVars, cur,
                   c, done_count, stealVars, timers>>

\* SleepWait::Wakeup, once per expired timer: the task goes back to the
\* Processer it last ran on.
Wakeup(h) ==
    /\ pc[h] = "wake"
    /\ LET t == Head(timers[h])
       IN  /\ wait_tasks_' = wait_tasks_ \ {t}
           /\ AddTo(proc_[t], t)
    /\ timers' = [timers EXCEPT ![h] = Tail(@)]
    /\ Goto(h, IF Len(timers[h]) = 1 THEN "sleepers" ELSE "wake")
    /\ UNCHANGED <<idVars, proc_, taskVars, task_count_, kid, blocked, sleepers,
                   cur, c, done_count, stealVars>>

\* Mutant: one living task is as good as none.
Again_OffByOne(h) ==
    /\ pc[h] = "sleepers"
    /\ timers[h] = <<>>
    /\ Goto(h, IF h \in Looper \/ task_count_ > 1 THEN "size" ELSE "returned")
    /\ UNCHANGED <<idVars, queueVars, taskVars, task_count_, kid, waitVars, cur,
                   c, done_count, stealVars, timers>>

\* No timer has expired: RunLoop goes on for ever, RunUntilNoTask while tasks
\* are counted.
Again(h) ==
    /\ pc[h] = "sleepers"
    /\ timers[h] = <<>>
    /\ Goto(h, IF h \in Looper \/ task_count_ > 0 THEN "size" ELSE "returned")
    /\ UNCHANGED <<idVars, queueVars, taskVars, task_count_, kid, waitVars, cur,
                   c, done_count, stealVars, timers>>

\* A BlockObject or IoWait makes a blocked task runnable, on the Processer
\* it last ran on, from whatever thread.
Unblock(t) ==
    /\ t \in blocked
    /\ blocked' = blocked \ {t}
    /\ AddTo(proc_[t], t)
    /\ UNCHANGED <<idVars, proc_, taskVars, task_count_, kid, wait_tasks_,
                   sleepers, pc, cur, c, done_count, stealVars, timers>>
-----------------------------------------------------------------------------
Running(h) == \/ \E s \in {"runnable", "sleep", "sys_block"} : CoYield(h, s)
              \/ \E threw \in BOOLEAN : Finish(h, threw)

Cycle(h) == \/ Enter(h) \/ ReadSize(h) \/ PopTask(h) \/ SwitchOut(h)
            \/ Settle(h) \/ Catch(h) \/ PopLoot(h) \/ PushLoot(h)
            \/ CallTimers(h) \/ Wakeup(h) \/ Again(h)

Next == \/ \E h \in Thread : \/ Cycle(h) \/ Running(h) \/ SwapInFails(h)
                             \/ \E p \in Proc : ChooseVictim(h, p)
                             \/ \E t \in Task : GetExpired(h, t)
        \/ \E m \in Creator : DispatchTask(m) \/ \E t \in Task : CreateTask(m, t)
        \/ \E t \in Task : Unblock(t)

Spec == Init /\ [][Next]_vars

\* A thread that can take a step takes it, tasks do not compute for ever,
\* whoever blocks a task wakes it, a sleep ends at the latest when the timers
\* are looked at over and over, and so does rand() name each victim.
Fairness == /\ \A h \in Thread : /\ WF_vars(Cycle(h))
                                 /\ WF_vars(Running(h))
                                 /\ \A p \in Proc : SF_vars(ChooseVictim(h, p))
                                 /\ \A t \in Task : SF_vars(GetExpired(h, t))
            /\ \A m \in Creator : WF_vars(DispatchTask(m))
            /\ \A t \in Task : WF_vars(Unblock(t))
FairSpec == Spec /\ Fairness
-----------------------------------------------------------------------------
TypeOK == /\ procs \in 0..MaxProc /\ thread_id_ \in Nat
          /\ tid \in [Thread -> -1..(MaxProc - 1)]
          /\ queue \in [Proc -> Seq(Task)]
          /\ state_ \in [Task -> {"new", "init", "runnable", "sleep",
                                  "sys_block", "done", "lost"}]
          /\ proc_ \in [Task -> -1..(MaxProc - 1)]
          /\ switches \in [Task -> Nat] /\ eptr_ \in [Task -> BOOLEAN]
          /\ task_count_ \in Int
          /\ kid \in [Creator -> Task \cup {NoTask}]
          /\ blocked \cup wait_tasks_ \cup sleepers \subseteq Task
          /\ pc \in [Thread -> ThreadPc]
          /\ cur \in [Thread -> Task \cup {NoTask}]
          /\ c \in [Thread -> Nat] /\ done_count \in [Thread -> Nat]
          /\ r \in [Thread -> Proc] /\ want \in [Thread -> Nat]
          /\ tasks \in [Thread -> Seq(Task)]
          /\ timers \in [Thread -> Seq(Task)]

\* Everything that holds task t: the run queues, the threads running it, the
\* lists of stolen tasks, the lists of expired timers, the sleep manager, the
\* blockers, its creator.
Holders(t) == {<<"queue", p>> : p \in {x \in Proc : Member(queue[x], t)}}
              \cup {<<"running", h>> : h \in {x \in Thread : cur[x] = t}}
              \cup {<<"stolen", h>> : h \in {x \in Thread : Member(tasks[x], t)}}
              \cup {<<"expired", h>> : h \in {x \in Thread : Member(timers[x], t)}}
              \cup {<<"created", m>> : m \in {x \in Creator : kid[x] = t}}
              \cup {<<"asleep", u>> : u \in sleepers \cap {t}}
              \cup {<<"blocked", u>> : u \in blocked \cap {t}}

\* A living task is in exactly one place, once; a finished or dropped one in
\* none.  (A task in two run queues would run on two threads at once; one in
\* no place would never run again.)  Processer::Run, StealHalf, SchedulerSwitch
\* and the wakeups hand tasks on without a common lock.
OnePlace ==
    /\ \A p \in Proc : NoDup(queue[p])
    /\ \A h \in Thread : NoDup(tasks[h]) /\ NoDup(timers[h])
    /\ \A t \in Task :
          IF t \in Living THEN \E x \in Holders(t) : Holders(t) = {x}
                          ELSE Holders(t) \subseteq {<<"running", h>> : h \in Thread}

\* How many tasks ended on thread h and are still counted, and all of them.
Unsettled(h) == done_count[h]
                + (IF cur[h] # NoTask /\ state_[cur[h]] = "done" THEN 1 ELSE 0)
AllUnsettled == UNION {{h} \X (1..Unsettled(h)) : h \in Thread}

\* task_count_ is the number of tasks created and not finished, but for those
\* a thread has finished in the cycle it is in, also when an exception ends
\* the cycle; a task whose context switch failed stays counted.
CountExact ==
    task_count_ = Cardinality({t \in Created : state_[t] # "done"})
                  + Cardinality(AllUnsettled)

\* RunUntilNoTask returns only when there is no task left, wherever it is:
\* queued, stolen, asleep, blocked, running elsewhere or about to be queued.
ReturnMeansNoTask ==
    [][\A h \in Thread : pc[h] # "returned" /\ pc'[h] = "returned"
                            => Living = {}]_vars

\* Thieves do not hand tasks around for ever.  Two idle threads can: each may
\* rob the other of its only task between that one's look at the size of its
\* queue and its pop, and nothing in the code but chance ends it.
StealingEnds == <>[](\A h \in Thread : pc[h] # "share")

\* With work stealing, every created task is run to its end, whichever
\* Processer it was dispatched to, one without a thread included.
TasksFinish ==
    StealingEnds =>
       \A t \in Task : state_[t] = "init" ~> state_[t] \in {"done", "lost"}

\* RunUntilNoTask returns once the tasks are gone for good (no task was lost
\* to a failed context switch).
LoopEnds == \A h \in Thread \ Looper :
               <>[](Living = {} /\ \A t \in Task : state_[t] # "lost")
                  => <>(pc[h] = "returned")
-----------------------------------------------------------------------------
(* The strengthening that makes OnePlace and CountExact inductive.         *)

\* What a thread has in hand at each position of its cycle.
ThreadOk(h) ==
    /\ cur[h] # NoTask <=> pc[h] \in {"in", "spawn", "out"}
    /\ pc[h] \in {"in", "spawn"} => state_[cur[h]] # "done"
    /\ kid[h] # NoTask <=> pc[h] = "spawn"
    /\ tasks[h] # <<>> => pc[h] = "share"
    /\ timers[h] # <<>> => pc[h] \in {"sleepers", "wake"}
    /\ pc[h] = "wake" => timers[h] # <<>>
    /\ pc[h] # "start" => tid[h] \in Proc
    /\ pc[h] = "out" => proc_[cur[h]] \in Proc
ThreadInv == \A h \in Thread : ThreadOk(h)

\* Thread ids are given out one by one.
IdInv == thread_id_ = Cardinality({h \in Thread : pc[h] # "start"})

\* A task that somebody will make runnable again has a Processer to go to.
ParkedInv == \A t \in Task : \/ t \in sleepers \cup blocked
                             \/ \E h \in Thread : Member(timers[h], t)
                             => proc_[t] \in Proc

\* A task that is not created yet, or was dropped, is nowhere; one that has
\* finished is still with one thread at most.
EndedInv == \A t \in Task : /\ state_[t] \in {"new", "lost"} => Holders(t) = {}
                            /\ \A x, y \in Holders(t) : x = y

IInv == TypeOK /\ ThreadInv /\ IdInv /\ ParkedInv /\ EndedInv /\ OnePlace /\ CountExact
=============================================================================
