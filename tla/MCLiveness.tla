----------------------------- MODULE MCLiveness -----------------------------
(* The liveness properties of the runtime and all of CoRWMutex, each on a  *)
(* small instance of its own module: Init chooses the scene, and the       *)
(* variables of the other modules stand still.                             *)
(*   rw:    CoRWMutex, three coroutines take the lock in every way;        *)
(*   block: BlockObject, a coroutine waits twice, two activities signal;   *)
(*   sched: Scheduler, one task, a looping thread, one in RunUntilNoTask,  *)
(*          and a Processer that no thread owns;                           *)
(*   io:    IoWait, one coroutine polls one descriptor that may be closed; *)
(*   chan:  Channel, two coroutines meet in a channel without capacity.    *)
EXTENDS CoRWMutex

CONSTANTS t1, w1, w2, h1, h2, Main, c1, f1, k1, k2, None

VARIABLES scene,
          wakeup_, wait_queue_, bpc, op, block_, block_sequence_, block_timeout_,
          block_timer_, is_block_timeout_, reference_, timer, wpc, wtk, thr, tret,
          procs, thread_id_, tid, queue, state_, proc_, switches, eptr_,
          task_count_, kid, blocked, wait_tasks_, sleepers, spc, cur, c,
          done_count, allow_steal, r, want, stolen, timers,
          closed_, pending_events_, tasks, seen, ipc, n, todo, added, hit, watch,
          io_state_, fired, holders, dtor, by, wait_io_sentries_, sched, itimer,
          rpc, batch, rtodo, rheld, rcur, cpc, cfd, ctodo, ccur,
          wcount, wwaiters, wst, rcount, rwaiters, rst, queue_, kpc, kop

blockVars == <<wakeup_, wait_queue_, bpc, op, block_, block_sequence_,
               block_timeout_, block_timer_, is_block_timeout_, reference_,
               timer, wpc, wtk, thr, tret>>
schedVars == <<procs, thread_id_, tid, queue, state_, proc_, switches, eptr_,
               task_count_, kid, blocked, wait_tasks_, sleepers, spc, cur, c,
               done_count, allow_steal, r, want, stolen, timers>>
ioVars == <<closed_, pending_events_, tasks, seen, ipc, n, todo, added, hit,
            watch, io_state_, fired, holders, dtor, by, wait_io_sentries_, sched,
            itimer, rpc, batch, rtodo, rheld, rcur, cpc, cfd, ctodo, ccur>>
chanVars == <<wcount, wwaiters, wst, rcount, rwaiters, rst, queue_, kpc, kop>>
others == <<blockVars, schedVars, ioVars, chanVars>>

B == INSTANCE BlockObject WITH Task <- {t1}, Waker <- {w1, w2}, Thread <- {},
        InitWakeup <- 0, MaxWakeup <- 1, TimeoutValues <- {1}, MaxSeq <- 2,
        NoTask <- None, pc <- bpc
S == INSTANCE Scheduler WITH Task <- {t1}, Thread <- {h1, h2}, Looper <- {h1},
        MaxProc <- 3, Dispatch <- {"robin", "local", "index"},
        EnableSteal <- TRUE, MaxSwitch <- 1, NoTask <- None,
        pc <- spc, tasks <- stolen
I == INSTANCE IoWait WITH Task <- {t1}, Fd <- {f1}, Closer <- {c1},
        PollArgs <- {[f \in {f1} |-> {"IN"}]}, EtFd <- {},
        Reports <- {{"IN"}, {"ERR"}}, MaxPoll <- 1, NoSentry <- None,
        pc <- ipc, timer <- itimer
K == INSTANCE Channel WITH Coroutine <- {k1, k2}, Thread <- {}, Capacity <- 0,
        SizeMax <- 100, pc <- kpc, op <- kop

MCInit == /\ Init /\ B!Init /\ S!Init /\ I!Init /\ K!Init
          /\ scene \in {"rw", "block", "sched", "io", "chan"}

MCNext ==
    /\ \/ scene = "rw" /\ Next /\ UNCHANGED others
       \/ /\ UNCHANGED vars
          /\ \/ scene = "block" /\ B!Next /\ UNCHANGED <<schedVars, ioVars, chanVars>>
             \/ scene = "sched" /\ S!Next /\ UNCHANGED <<blockVars, ioVars, chanVars>>
             \/ scene = "io" /\ I!Next /\ UNCHANGED <<blockVars, schedVars, chanVars>>
             \/ scene = "chan" /\ K!Next /\ UNCHANGED <<blockVars, schedVars, ioVars>>
    /\ UNCHANGED scene

\* The fairness of the modules, asked for in the scene that is played.
MCSpec ==
    /\ MCInit /\ [][MCNext]_<<vars, others, scene>>
    /\ \A x \in Coroutine : WF_vars(scene = "rw" /\ Step(x))
    /\ WF_blockVars(scene = "block" /\ B!TaskStep(t1))
    /\ \A s \in 1..2 : WF_blockVars(scene = "block" /\ B!TimerStep(t1, s))
    /\ \A w \in {w1, w2} : WF_blockVars(scene = "block" /\ B!WakerStep(w))
    /\ \A h \in {h1, h2} :
          /\ WF_schedVars(scene = "sched" /\ S!Cycle(h))
          /\ WF_schedVars(scene = "sched" /\ S!Running(h))
          /\ \A p \in 0..2 : SF_schedVars(scene = "sched" /\ S!ChooseVictim(h, p))
          /\ SF_schedVars(scene = "sched" /\ S!GetExpired(h, t1))
    /\ \A m \in {h1, h2, Main} : WF_schedVars(scene = "sched" /\ S!DispatchTask(m))
    /\ WF_schedVars(scene = "sched" /\ S!Unblock(t1))
    /\ WF_ioVars(scene = "io" /\ I!TaskStep(t1))
    /\ WF_ioVars(scene = "io" /\ I!SentryStep(<<t1, 1>>))
    /\ WF_ioVars(scene = "io" /\ I!TimerStep(<<t1, 1>>))
    /\ WF_ioVars(scene = "io" /\ I!ReactorStep)
    /\ WF_ioVars(scene = "io" /\ I!CloserStep(c1))
    /\ \A k \in {k1, k2} : WF_chanVars(scene = "chan" /\ K!Step(k))

\* See BlockObject: a coroutine that Wakeup has taken from the queue returns.
WokenTaskRuns == B!WokenTaskRuns
\* See BlockObject: a timed wait of a coroutine returns without a signal.
TimedWaitReturns == B!TimedWaitReturns
\* See Scheduler: every created task is run to its end, once thieves stop.
TasksFinish == S!TasksFinish
\* See Scheduler: RunUntilNoTask returns once the tasks are gone.
LoopEnds == scene = "sched" => S!LoopEnds
\* See IoWait: a poll with a timeout returns.
TimedPollReturns == I!TimedPollReturns
\* See Channel: the loop of TryPop and TimedPop ends.
PopLoopEnds == K!PopLoopEnds
=============================================================================
