# A TLA+ verification of the asio_coro_frame server

The repository is a C++ server: HTTP handlers, and coroutines of the vendored
and adapted **libgo** runtime (`src/src/libgo/libgo`), reach a Redis cluster
through a small client library (`src/src/common`) and a threaded connection
pool (`src/src/serverResource.hpp`).  What can go wrong through timing is in the
runtime's blocking primitives, its scheduler and reactor, and in the pools,
connections and pipelines above; these are modelled.

Paths below are relative to `src/src/`; `libgo/` stands for `libgo/libgo/`.

## 1. Inventory

### Coroutine runtime (libgo)

| Part | State | Operations | What makes it correct |
|---|---|---|---|
| `BlockObject` (`block_object.cpp`) | `wakeup_`, `wait_queue_`; in each `Task`: `block_`, `block_sequence_`, `block_timer_`, `block_timeout_`, `is_block_timeout_`, reference count | `CoBlockWait`, `CoBlockWaitTimed`, `TryBlockWait`, `Wakeup`, `AddWaitTask`, `CancelWait` | no lost or doubled wake-up, FIFO, a timeout never reaches a later wait, exact references |
| `Channel` (`channel.h`) | two `BlockObject`s, `queue_` | `<<`, `>>`, `TimedPush`, `TimedPop`, `TryPush`, `TryPop` | no pop from an empty queue, bounded buffer, no lost signal, nobody blocked for nothing |
| `CoMutex`, `CoRWMutex` | one `BlockObject(1,1)`, `readers_c_` | `lock`, `try_lock`, `unlock`, `r_*`, `w_*` | exclusion, exact counts, no double unlock |
| `CoTimerMgr` (`timer.cpp`) | deadline maps, next trigger time | `ExpireAt`, `Cancel`, `BlockCancel`, `GetExpired` | a timer runs at most once and not after a cancel; no oversleeping |
| `Scheduler`, `Processer`, `SleepWait` | run queues, `task_count_`, list of processers, sleepers | `CreateTask`, `AddTaskRunnable`, `Run`, `StealHalf`, `CoSwitch`, `Wakeup` | a task is in one queue, runs on one thread, is counted once, and is run |
| `IoWait`, `FdContext` | per-fd interest and sentries, `wait_io_sentries_`, epoll set | `CoSwitch`, `SchedulerSwitch`, `IOBlockTriggered`, `add_into_reactor`, `reactor_trigger`, `close` | an event, a timeout or a close between registration and switch is not lost; a task is woken once |
| system call hooks | per-number contexts, socket flags and timeouts | `read_write_mode`, `poll`, `close`, `dup`, `fcntl`, `setsockopt`, ... | a call behaves as on a plain socket |

### Around it

| Part | State | Operations | What makes it correct |
|---|---|---|---|
| `ThreadedPool` (`serverResource.hpp`) | map of hosts to bounded pools of connections | `pullConnection`, `pushConnection`, `fillPool`, `insert`, `disconnect`; flow numbers | one user per connection, no forgotten waiter, none lost, fresh numbers |
| Redis cluster client (`common/hirediscommand.h`, `hiredisprocess.h`) | a command | redirections (MOVED, ASK), error paths | the connection goes back whatever happens |
| HTTP server and client (`common/server/*.hpp`) | socket, timers, keep-alive per connection | read head, read content, run, write, timeouts | own answer, own timer, everything ends |
| `redispp` | one socket, list of outstanding replies | commands, results, enumerators, transactions | own answer, no vain wait |
| configuration, logging, MySQL, FastCGI, tools, samples | none of interest | straight-line input and output | |

Interactions: a coroutine that blocks puts itself into a state, yields, and only
then does `Processer::Run`, on the scheduler's stack, enter it into a wait queue;
it is made runnable by another coroutine (`Wakeup`), by a timer callback that
`Scheduler::DoTimer` runs on some scheduler thread, or by the reactor.
`Channel`, `CoMutex` and `CoRWMutex` are built on `BlockObject` alone; the hooks on
`IoWait`.  Plain threads, which have no coroutine, poll instead.  HTTP requests
for flow numbers run on worker threads that share the pools of connections.

Hard behaviours: locks released between two halves of one operation; a
signal racing the timeout of the same wait; callbacks that outlive the wait they
were made for; stealing from a queue its owner is emptying; cached times and
flags that are stale when used; exceptions that pass over a release; answers read
out of the order of their commands.  `PROJECT.json` lists each one under
`hazards`, at the line where it bites, with the property that covers it or
the reason none does.

## 2. Modules

| Module | Models |
|---|---|
| `Queues` | removal from a sequence, membership, absence of duplicates (`TSQueue::erase` and friends) |
| `Semaphore` | abstract: what a `BlockObject` promises its users |
| `BlockObject` | `block_object.cpp` with the parts of `Task`, `Processer::Run`, `CoTimer` and `RefObject` it works on |
| `Channel` | `channel.h` over two instances of `Semaphore` |
| `ChannelCast` | a `Channel` used by some of its clients; the exact account of signals is for channels only coroutines use |
| `CoRWMutex` | `co_rwmutex.cpp` and `co_mutex.cpp` over one instance of `Semaphore` |
| `CoTimerMgr` | `timer.cpp` with `DoTimer` and the wait that ends a scheduler cycle |
| `Scheduler` | `scheduler.cpp`, `processer.cpp`, `sleep_wait.cpp` |
| `IoWait` | `libgo_poll` with `io_wait.cpp` and `fd_context.cpp` |
| `FdHook` | the hooked calls on sockets over the table of contexts (`linux_glibc_hook.cpp`, `FdManager`) |
| `RedisPool` | `serverResource.hpp` with `HiredisCommand::process` |
| `Redispp` | `redispp.cpp` |
| `Http` | `server_http.hpp` and `client_http.hpp` |
| `IdleThreads`, `HookedReads`, `Pipeline` | a `CoTimerMgr`, an `FdHook`, a `Redispp` with variables of its own, to stand beside another module; the runs and the proofs name their properties here |
| `MC*` | what TLC checks; see below |
| `QueueLemmas`, `BlockObjectProofs`, `CoRWMutexProofs`, `ChannelProofs`, `SchedulerProofs`, `IoWaitProofs`, `RedisPoolProofs`, `HttpProofs` | theorems and proofs |

Operators whose comment begins with "Mutant:" are faulty variants of the
definition that follows them.  They are used by no specification; each one shows
that some property would notice that fault.

Several `MC` modules play more than one **scene**: `Init` chooses it, and the
variables of the modules that are not on stage stand still.  `MCUserApi` has
`channel`, `readers`, `numbers`; `MCIoWait` `solo`, `pair`; `MCScheduler` `tasks`,
`timers`; `MCLiveness` `rw`, `block`, `sched`, `io`, `chan`; `MCRedisPool` `pool`,
`pipeline`; `MCHttp` `http`, `flow`.  The scenes of one run share nothing but
the run.

### Granularity

A section under one lock contains no wait and is one step.  Whatever lies
between two sections is a step of its own, so another thread may act in every
gap the code leaves.

**`BlockObject`** gives each wait of a task a timer of its own, numbered by
`block_sequence_`, with the states
`none, armed, expired, check, cancel, erased, marked, tail, over` and
`cancelled`: `armed` is in `CoTimerMgr`, `expired` in `DoTimer`'s local list,
`check` to `tail` inside the callback with `fn_lock_` held.  `pc` is the task's
position, `wpc`/`wtk` that of a call of `Wakeup` and its local `tk`.
`reference_` counts the scheduler's reference, the one of the queue the task is
in and the one of each timer closure.

**`Channel`** keeps the six operations and both kinds of callers; an element is
abstracted to its writer.  `Channel<void>` is the same protocol.

**`CoRWMutex`** has one step per access to `readers_c_` or to the mutex.  Reader
and writer each write one of the two words and then read the other; the steps are
taken to be sequentially consistent, which the code provides: the mutex is read
and written under its `LFLock` only, so of a reader's `is_lock` and a writer's
`lock` one comes first, and the second sees what was written before the first.

**`Scheduler`** has one step per operation on a run queue, since `TSQueue` locks each:
the size that bounds `Processer::Run`'s loop, the pop that may find a thief was
faster, the two halves of `StealHalf` with the loot in no queue between them.  A
task may yield, sleep, block, create another task, return or throw; a thread
loops for ever or calls `RunUntilNoTask`.  Where a blocked task waits is the
business of `BlockObject` and `IoWait`; here somebody makes it runnable.
`SwapInFails` can only happen in the build with `ucontext`; the model lets it
happen whenever a task is inside, so also after the task has created another, which
is more than the code does.

**`CoTimerMgr`** has two clocks, the cached next-trigger time of each, `GetExpired`'s
batches, its `try_lock` that may fail, `DoTimer`'s budget per cycle, and the sleep
of an idle thread limited by `max_sleep_ms`.  A cancel decides under `fn_lock_` and
removes the deadline later, under the manager's lock (`Erase`), so a thread may move
a cancelled timer to its list in between.  Time passes only while every
thread sleeps, so that every delay in the model is one the code asks for.

**`IoWait`** names a sentry `<<t, n>>`, the n-th poll of task `t`.  `holders` is the
set of threads and closures with a shared pointer to it (the polling task, the
scheduler in `SchedulerSwitch`, the timer's closure, the reactor's trigger set,
a `close()`); when the last one goes, `~IoSentry` starts in that thread (`by`)
and visits the descriptors in `dtor`, one locked section each.  `tasks[f][k][t]`
is the entry of task `t` in `i_tasks_`, `o_tasks_` or `io_tasks_`: the number of
the poll whose sentry the weak pointer refers to, or 0.  `pending_events_` is what
epoll is asked for; what the kernel reports is any set in `Reports` it may
report.  The atomic exchange on `io_state_` and the erase from
`wait_io_sentries_` are separate steps for each of the four threads that do them.
`epoll_ctl` may refuse a descriptor at any registration.

**`FdHook`** takes over where `IoWait` ends: registration, report and wake-up of a
poll are one step each.  The end of a poll's sentry is another (`Forget`): a timeout
(`Expire`) ends the call and leaves the entry in the context's set, and
`~IoSentry` comes when its last holder lets go, at once or when the task is
already in its next poll, whose entry it then takes.  `sentries` counts, per task and
number, the sentries that live.  Meanwhile the numbers, the contexts and the kernel's files
live their own lives: close, dup, dup2, a socket opened under an old number, a
change to edge-triggered mode, the user's `O_NONBLOCK` and timeout.  A context lives
as long as a number or a call refers to it, and there are as many as there can be
references.  `asked` is
what the user wants of a file; the properties compare the hooked calls with a
plain kernel that knows it.  Only reading is followed; writing and accepting
go through the same function with the other flag.

**`RedisPool`** follows one key whose commands start on the pool of its slot range
and may be redirected to one other host.  Each exchange with the server is a step
with any of the answers value, error, ASK, MOVED, CLUSTERDOWN, or a failed
connection; `redisGetReply` then leaves the caller's pointer unset, and the
thread goes on with null or, as undefined behaviour, to `"undefined"`.

**`Redispp`** reads one line of the protocol per step, since any of them may
throw.  Commands are told apart by how their answer is read (the tables at the top
of the module: their names say where each command of the client went, and only the
kind of its answer matters to the steps); `wire` holds the answers on their way, each one so many lines of one
kind, and whose they are.  An object is put at the end of the intrusive list and a
copy takes the place of the original, so the list is a set of numbers and its order
theirs.  The server may refuse any line: MULTI (`inMulti = "refused"`), a command at
the time it is queued (EXEC is then refused as well), EXEC and DISCARD.

**`Http`** has one step per asio handler; a message is a head and a sequence of
pieces, of which a read may take any number that have arrived.  Timers expire
at any moment; a handler that is already queued (`late`, the phases of such timers)
cannot be cancelled.  A resource runs in a coroutine on a strand: it may write part
of its answer and wait for that (`Flush`, `OnFlushed`; `out` is what it has written),
return (`RunResource`), throw (`Abandon`), or do none of these for ever.  The handler of
the response timer is wrapped in the same strand, so it runs while the coroutine
waits for a write, never while it is inside the resource.  A connect may fail.

## 3. Runs

| Run | Instance | Shows |
|---|---|---|
| `block_object_safety` | 2 tasks, 2 wakers, 1 polling thread, 2 waits per task, at most 1 stored signal | `NoStrandedWaiter`, `WokenOnce`, `TimerDiesWithWait`, `RefExact`, and that the object implements `Semaphore` |
| `block_object_zero_timeout` | timeout 0, fairness | finding 1 (violation) |
| `user_api` | channel of capacity 1 with 3 coroutines, or 2 and a thread; 2 readers of one number; 1 reader and 2 numbers | `CoTokensExact`, `CoNobodyForgotten`; `ReadBacked` and `Bounded` even with threads, whose timed operations lose signals; `Transparent`, `LevelFlagsCorrected` |
| `fd_hook_edge_triggered` | 2 readers of one number | finding 2 (violation) |
| `io_wait` | 1 task, 2 polls, edge-triggered, `close()`; 2 tasks on one level-triggered descriptor | `WokenOnce`, `NoStrandedTrigger` (the ABBA argument of `io_wait.h`), `NoUseAfterFree`, `UntimedPollSeesEvent`, `InterestKept` |
| `io_wait_destructor` | 1 task, 2 polls, level-triggered | finding 3 (violation) |
| `scheduler` | 3 tasks, a looping thread and one in `RunUntilNoTask`; 3 timers, 2 threads | `OnePlace`, `CountExact`, `ReturnMeansNoTask`; `Punctual`, `CancelTruthful` |
| `runtime_liveness` | one small instance per module, fairness | `Exclusion`, `CountsExact`, `WriterEnters` (3 coroutines); `WokenTaskRuns`, `TimedWaitReturns` although `Wakeup` spins on `fn_lock_`; `TasksFinish`, `LoopEnds`; `TimedPollReturns`; `PopLoopEnds` |
| `redis` | 2 workers, 3 requests, pools of 1; 3 pipelined objects | `Exclusive`, `NoForgottenWaiter`, `FlowNumberFresh`; `AnswersMatch`, `NoVainWait` |
| `redis_close` | 1 worker, 2 requests, fairness | finding 4 (violation) |
| `http` | 2 connections, 2 requests, fairness; 2 workers, 2 requests | `AnswerMatches`, `TimerFollowsPhase`, `ConnectionEnds`, `RequestReturns`; `RequestEnds` |
| `http_content` | content of two lines | finding 5 (violation) |

### Bounds

* `MaxSeq = 2`: a task starts at most two blocking waits.  Two is what is needed
  for a callback of one wait to meet the next wait of the same task.  Once the
  bound is reached a task may only end.
* Two tasks give the queue an order; two wakers compete for one task;
  `MaxWakeup = 1` makes both branches of the limit occur.  The proofs do not
  depend on any of these numbers.
* Three clients of a channel: two that compete for one signal and one that
  produces it.  Capacity 1 has the cases of a buffered channel; the scene `chan`
  of the liveness run has capacity 0.  `SizeMax` stands for the default
  `max_wakeup` (the largest `size_t`) and is never reached.
* Three tasks, two threads and two processers: a victim with more tasks than are
  stolen, and a task that is created by a running one.  The scene `sched` has one task,
  two threads and a third processer that no thread owns, so that the task must be
  stolen to run.  `MaxSwitch = 1`: a task gives up the processor once.
* Timers: delays 1 and 3 around `MaxSleep = 1`, up to `MaxTime = 5`; `Batch = 1` makes `DoTimer` look again
  and `EveryCycle = 2` makes it stop; `MaxBusy = 1` failed `try_lock`.
* Two polls of a task let the late destructor, timer or trigger of the first
  meet the second; two tasks on one descriptor let one's registration depend on
  the other's.  Both at once is beyond TLC's reach here.
* Two numbers and two files: a number used again, and a duplicate.  One piece of
  data waits in a socket.  `MaxSentry = 2`: a task in a poll and the sentry of its
  last one.  The readers of a level-triggered number have at most two living sentries
  between them; in edge-triggered mode, and in the scene `numbers` (one
  reader, level-triggered, no timeouts), a sentry is destroyed as soon as its poll is over.  Nothing is
  followed beyond a lapse.  The proofs have none of these restrictions.
* Pools of one connection: every second user waits, and every lost connection
  empties a pool.  Two workers take each other's connections; three requests let one
  begin after another was answered.
* Three objects of `redispp`: a transaction with a command in it and one before
  or after.  Multi-bulk answers are nil, empty or of two elements.
* Two connections and two requests: the second on a connection kept from the
  first, or after a failure.  An answer is a head and one piece, which may be flushed
  apart.

Symmetry is used only in runs without liveness properties.

### Fairness

Weak fairness is assumed of what a scheduler's loop does in every round (switch
a yielded task, resume a runnable one, run a due timer, go on inside a started
`Wakeup`, `close()` or round of the reactor), of worker threads and of the threads of the
`io_service` (run a handler that is ready, let an armed timer expire).  In the
scene `sched` strong fairness is assumed of two choices the code leaves to
`rand()` and to the order of a list: which processer a thief picks, and which
expired sleeper comes next.  The kernel is never obliged to report an event, nobody is
obliged to start an operation or to send a signal.  A user of the mutex is
assumed to release what it took; a Redis server answers or the connection fails.
That a resource of the HTTP server returns is not assumed.

Six properties name what the code does not promise.  `PopLoopEnds` is for
behaviours in which calls stop arriving.  `WriterEnters` is for behaviours in which
readers stop knocking: a refused reader raises `readers_c_` for a moment on every
retry, and a writer that always looks in that moment never enters.
`TasksFinish` is for behaviours in which stealing ends: two idle threads can
rob each other of a lone task for ever.  `RequestEnds` is for pools that are whole
(see finding 4).  `ConnectionEnds` and `RequestReturns` are for behaviours in which
resources return (`ResourcesReturn`).  The default resource need not: for a flow
number it calls `pullConnection` (`serverResource.hpp:91-105`), which waits without
limit on a thread of the `io_service`, and a pool that `fillPool` left empty is
never filled.  It keeps the strand meanwhile, so the response timer cannot close the
socket, and the client waits as long.

`CHECK_DEADLOCK FALSE` is set wherever the system may really stop: readers of a channel
without writers, an untimed poll without an event, tasks, requests or polls that have
reached their bound.

## 4. Findings

1. **A zero timeout waits for ever** (`libgo/block_object.cpp:172`).
   `AddWaitTask` arms a timer only for a non-zero `block_timeout_`, so
   `CoBlockWaitTimed(0)`, and the overload with a deadline once the deadline has
   passed, blocks until somebody signals.  The header announces a blocking wait with a timeout.
2. **A late reset loses an edge** (`libgo/linux/linux_glibc_hook.cpp:572`).
   After a short read, `read_write_mode` clears `readable_` in a step of its own.
   An edge the reactor reports just before is erased.  In edge-triggered mode the
   next poll makes no `epoll_ctl` (the registration is still there) and waits for an
   edge that has passed.  The header says that poll corrects inexact flags.  In
   level-triggered mode it does: `LevelFlagsCorrected`.
3. **A late destructor removes the next registration**
   (`libgo/linux/fd_context.cpp:285`).  `~IoSentry` finds the entry of a
   descriptor's set by the task, not by the sentry.  A poll that is woken by its
   timer returns while `DoTimer` still holds the closure, and with it the sentry; if
   the task polls the same descriptor again before `DoTimer` drops its list, the
   old sentry's destructor removes the new entry, and with it epoll's interest.
   The second poll then hears of no event; without a timeout it waits for ever.
   The comment next to the erase speaks of the corresponding `weak_ptr`.
4. **disconnect may wait for ever** (`serverResource.hpp:197`).  It pulls
   `poolSize_` connections of every pool, on the assumption that all of them will be released.
   A pool that `fillPool` left short, or a connection over whose release `process()`
   threw (`hirediscommand.h:183, 187, 198, 218`), never is.
5. **Content is put back in another order** (`common/server/server_http.hpp:264`).
   To log the request, the first line behind the head is taken out of the buffer
   and written back at its end, without its line end.  If only the first line came
   with the head, the two lines are joined; if some of the second did too, they are
   also exchanged.  The run finds the shorter case.

### Observed, and claimed by no run

The models keep what follows, as `lapse`s the properties exclude or as states
nothing is said about; no comment or test of the repository says otherwise.

* `close_without_lock` takes a temporary shared pointer to each sentry while
  `FdManager::close` holds the slot lock and `lock_`.  If that pointer becomes the
  last one, `~IoSentry` asks for the same locks in the same thread and spins for
  ever: `IoWait!CloseLeave` is then disabled for good.
* A plain thread's `CoBlockWaitTimed` returns `false` though it took the signal
  (`block_object.cpp:63`); a channel loses it.  `CoTokensExact`, `CoNobodyForgotten` and
  `PopLoopEnds` are therefore about coroutines.
* `FdHook`: a duplicate shares the context of the original, so closing either
  closes the original's number and marks both (the other number leaks); a blocking
  read through a duplicate that had to wait fails with `EAGAIN`, since wake-ups set
  `revents` only for the context's own number; a read woken by a close goes on
  with the number, which may be somebody else's by then; a socket made with
  `SOCK_NONBLOCK` counts as blocking; `dup` onto a slot that is taken is only
  warned about.  Outside `FdHook`, `select` marks every descriptor it was asked about
  (it tests `events`, not `revents`), and a plain thread's blocking read on a
  hooked socket gets `EAGAIN`.
* `RedisPool`: the reply to INCR is not looked at, so after an error GET returns
  an old number; an error text may become the flow number; two concurrent requests may get the
  same number; a broken connection goes back to its pool; `notify_one` after the
  unlock may touch a pool that `disconnect` has deleted.
* `Redispp`: an enumerator that is destroyed or assigned to before its header is
  read leaves its answer on the wire; a destructor that swallows an earlier
  object's error leaves its own; an error answer to an integer or bulk
  command fails the stream for good, and commands written to a failed stream are
  dropped silently; `type()` and `commit()` read without clearing earlier replies;
  `abort()` leaves the queued objects waiting; a nested `Transaction` throws but is
  counted.  When Redis refuses a line of a transaction, `QueuedReply::readResult`
  (`redispp.cpp:1286-1302`) throws there with a good stream and leaves the rest: if
  the first of two commands is refused, its object reads the second's `+QUEUED`; if
  the second is, the first object reads the error of EXEC and the second waits for
  an answer that never comes.
* `Http`: a timer that has expired before its `cancel()` closes the socket under the next
  phase; the socket is used by the timer's handler and by the read handler without a
  strand; a resource that waits for a Redis connection holds a thread and its own
  timer's strand; `Content-Length` minus the bytes already read is unsigned.

## 5. Proofs

All proofs are checked by TLAPS (tlapm 1.4.5 with Z3, Zenon and LS4).

* `BlockObjectProofs!BlockObjectSafe`:
  `Spec => [](TypeOK /\ NoStrandedWaiter /\ WokenOnce /\ TimerDiesWithWait)` for
  any tasks, wakers, threads and bounds that satisfy `ConstAssumption`
  (`BlockObjectNoStrandedWaiter` and `BlockObjectTimerDiesWithWait` state two parts alone).
  These properties are not inductive: that a callback cannot survive its wait
  follows only because `block_timer_` names the live timer when `Wakeup`
  looks, because `BlockCancel` waits for a callback that is already inside, and
  because a sequence number is fresh when its timer is armed.
  `IInv` adds just that (`WakerInv`, `TimerInv`, `SeqInv`).  There is one lemma
  per action; two of them, `MoveTask` and `MoveTimer`, cover the steps that move one
  task or one timer and nothing else.
* `BlockObjectProofs!BlockObjectImplementsSemaphore`:
  `Spec => ImplementsSemaphore`.  The refinement maps a task that a waker
  holds to `granted` and one that a callback holds to `timedout`: the decision
  falls in the locked section, everything after it is invisible.  It needs
  `FlagInv`: the timeout flag of a blocked task is up exactly when the callback has
  marked it.
* `CoRWMutexProofs!CoRWMutexSafe`:
  `Spec => [](TypeOK /\ Exclusion /\ ReadersExact /\ MutexExact)` for any finite
  set of coroutines, and `CoRWMutexCountsExact`, its two counts under one name.
  The strengthening `WaitInv` ties a coroutine's position to
  the semaphore's view of it.  Since the mutex is an instance of `Semaphore`,
  this theorem rests on the refinement above.
* `BlockObjectProofs!BlockObjectRefExact`: `Spec => []RefExact`.  Each step moves
  `reference_` and the set of those that hold the task by the same amount; the
  lemmas count, per task, the timers in `Owning(t)`, which differ by one number
  at most between two states.  That a closure is counted once needs `TimerInv`.
* `ChannelProofs`: `ChannelInductive`, `ChannelReadBacked` and `ChannelBounded`
  for any coroutines and threads and any capacity.  The argument is two sums over
  all clients, `Places` (signals in `write_block_`, writers about to push, queued
  elements, less the readers that have arrived) and `Elements` (the same for
  `read_block_`): every step leaves a sum as it is, or, where a signal is refused or a
  thread's timed wait drops one, lowers it.  `ChannelExact` and `ChannelForgetsNobody`
  are about `CastSpec`: on a channel that only coroutines use, however many threads
  there are besides, no step lowers a sum (`CastInv`), so no signal is lost and nobody is
  blocked in front of what he waits for.  Their hypothesis
  `Capacity + Cardinality(Client) < SizeMax` says that counters do not reach the largest
  `size_t`, where `Wakeup` would refuse a signal.
* `SchedulerProofs`: `SchedulerOnePlace`, `SchedulerCountExact` and the action
  property `SchedulerReturnMeansNoTask`, for any tasks and threads.  `OnePlace` alone is
  not inductive: a thread's position must say what it holds (`ThreadInv`), the number
  the next thread gets must be unused (`IdInv`), a sleeping or blocked task must know
  the processer it returns to (`ParkedInv`), and a task that has ended must be in
  no second place (`EndedInv`).  A step then takes a task from one place and puts
  it in another; the lemmas `Leave`, `Arrive`, `Transfer` and `StayPut` say what
  that does to the places of all tasks.  For the count, `AllUnsettled` has an element for
  each task that has ended and that its thread has still to subtract.  The assumption
  `Cardinality(Thread) <= MaxProc` says that the bound leaves each thread a processer,
  as `Scheduler::Run` makes one for a new thread id.
  For the timers, `TimersPunctual` and the action property `CancelledStays`, for any
  timers, threads, delays and options with at least one thread, a batch that is not
  empty and no negative time (`M!ConstOk`).  That no deadline is passed by more
  than a sleep follows from `TimerInv`: each map is sorted, and a thread that sleeps
  wakes before the limit of every deadline.  `ExpireAt` does not wake
  a sleeper, but what it adds is at `now` or later, and nobody sleeps more than `MaxSleep`
  from `now`; a failed `try_lock` costs one such sleep, which is what `busy` counts.
* `IoWaitProofs`: `WokenOnce`, `NoStrandedTrigger`, `NoUseAfterFree`,
  `InterestKept` and `UntimedPollSeesEvent`, for any tasks, descriptors, polls and
  callers of `close()`.  `IInv` adds what a poll's loop has done so far
  (`PollInv`), the sentry the reactor works on (`ReactorInv`), that every thread that uses a
  sentry holds a pointer to it and that a destructor runs without holders
  (`HolderInv`), and that whoever triggers has seen an event or is the timer
  (`TriggerInv`).  The last is why an untimed poll cannot return 0: `revents` is
  set before `io_state_`.  The assumptions only name things apart
  (`NoSentry` is no sentry, no caller of `close()` is called `"timer"`) and ask for a
  descriptor and an event in every poll.
  For the hooked calls, `HooksTransparent` and `LateFlagsCorrected`, for any finite sets of
  coroutines and numbers (`H!ConstOk`).  `HookInv` says, until the first lapse: the
  context of an open number knows its file and the `O_NONBLOCK` its user asked for; two
  numbers share a context exactly when they share a file; a file without an initialized
  context is a blocking one; a registration in epoll has its context's number and mode; and a waiting
  call is listed and registered at the context of its number.  The last makes a
  cleared `readable_` harmless in level-triggered mode: the next report comes all the
  same.  The converse is not claimed: a context may list tasks whose poll is over
  and whose sentry is still to be destroyed.  A destructor that takes the entry of a
  call that waits (finding 3) is the lapse `late destructor`, and neither theorem says
  anything after it.
* `RedisPoolProofs`: `Exclusive`, `NoForgottenWaiter` and `FlowNumberFresh`, for
  any finite set of workers, pools of any size and any sequence of answers.
  `PoolInv` says where a connection can be and, for the waiters, that a pool
  with somebody waiting has no more free connections than notifications and
  woken threads on their way; `FlowInv` orders the numbers a worker has seen
  (`floor`, `best`, `got`, `value`).
  For the pipelined client, `AnswersTheirOwn` and `NobodyWaitsInVain`, for any number of
  commands and any lengths of answers (`R!ConstOk`).  An answer does not name its
  command, so the invariant (`PipeInv`) keeps client and server in step, until a
  lapse or a failed stream: the lines on their way are sorted by their owners
  (`Sorted`), each belongs to an object that is to read it, of the kind it
  expects (`Owned`), every object that is to read something has its answer there
  (`Sends`), and the lines of a transaction are as many as it will read, at the end
  while it is open and in front once it ends (`Lined`).  Then the first line belongs to
  the object whose turn it is.  A refused MULTI or command is a lapse; a refused EXEC
  is not, since it comes as the last line and reading it as a number fails the stream
  (`ExecRefused`).
* `HttpProofs`: `AnswerMatches` and `TimerFollowsPhase`, for any number of connections
  and requests and any contents.  Nothing in an answer names its request, so the
  invariant must say that no answer is left over when the next request is written:
  a connection is fresh when it is made (`FreshInv`), what reaches the server is one
  message or the rest of one (`FramedInv`, which also makes the subtraction from
  `Content-Length` exact), and the client's position says whether the request or the answer is
  on its way (`TalkInv`).  An answer may be half written: what has arrived and what the
  resource still owes (`Owed`) are together no more than the head announced, and once
  the client has the head the server has begun (`Begun`).  Whatever breaks this sets `socket_error`, and the
  client never reads from that connection again.
* `QueueLemmas`: append, tail, removal, concatenation and splitting keep a queue
  duplicate-free and change membership as they should.

Every safety property of the passing runs is the statement of a theorem.  Only
model-checked are the liveness properties: `WokenTaskRuns`, `TimedWaitReturns`,
`WriterEnters`, `TasksFinish`, `LoopEnds`, `TimedPollReturns`, `PopLoopEnds`,
`RequestEnds`, `ConnectionEnds` and `RequestReturns`.  Fairness is stated with
`ENABLED`, which the prover cannot reason about.

## 6. Not modelled

Left out, and why:

* **System call hooks**: `connect`, `select`, the sleep family and name resolution
  are loops over the modelled poll or timer; the signal set is a bit mask the server does not
  use; interposing the symbols has no state.  Sockets that are not sockets
  (files, pipes) pass through.  The epoll descriptor of the thread that first used a
  context is taken to be one.
* **Redis cluster client**: the asynchronous command is used by no program of the
  repository; the slot hash and the parser of slot ranges are pure functions without a
  reference to compare them with.
* **Contexts, debugger, Windows port**: stack switching has no protocol, the
  Windows port is not built.
* **Configuration, logging, MySQL, FastCGI, tools, tests**: straight input and
  output.  Half of the repository's lines are two copies of a vendored JSON header
  (`common/json_parser`); `xlsxio`, `wkhtmltox` and the report tools make up most of the
  rest.  The repository's own code with a protocol to check is about 11000 lines, and
  `map` in `PROJECT.json` names the ones
  the models stand for, about 3600: a third of that code, a tenth of all lines.
* The destructor of `BlockObject` only reports misuse: the object is assumed to
  outlive its users.  The wrap-around of the 32-bit `block_sequence_` is not
  modelled; `TimerDiesWithWait` makes it harmless, since no live timer ever has
  an old number.  `run_proc_list_`, a `deque` read without its lock, is a data race
  whose outcomes are not states of a model.
* Malformed HTTP heads, chunked answers and TLS; the byte layout of Redis commands.

## 7. Running

In this directory, `tlc -workers 2 -config BlockObject_safety.cfg MCBlockObject`
(and likewise for the other configurations) model-checks, and
`tlapm BlockObjectProofs.tla` checks proofs.
