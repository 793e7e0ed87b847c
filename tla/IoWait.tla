------------------------------- MODULE IoWait -------------------------------
(***************************************************************************)
(* Waiting for sockets: libgo_poll (linux_glibc_hook.cpp), the sentries    *)
(* and file descriptor contexts (fd_context.cpp), IoWait (io_wait.cpp).    *)
(*                                                                         *)
(* A poll makes a sentry, registers it with each descriptor, and yields;   *)
(* the scheduler thread then puts the sentry into wait_io_sentries_.  The  *)
(* reactor thread, the sentry's timer and close() each may trigger it, at  *)
(* any moment since its registration.  Who triggers writes io_state_ and   *)
(* then erases from the list, the scheduler inserts and then reads         *)
(* io_state_ (the ABBA of io_wait.h).                                      *)
(*                                                                         *)
(* A sentry is named <<t, n>>, the n-th poll of task t.  Its destructor    *)
(* runs when the last shared pointer to it goes, wherever that is, and     *)
(* removes the task from the sets of the descriptors.                      *)
(*                                                                         *)
(* The sections under lock_ of a descriptor are single steps, except       *)
(* close(), which holds its locks while it triggers sentry after sentry.   *)
(***************************************************************************)
EXTENDS Integers, FiniteSets

CONSTANTS Task, Fd, Closer,
          PollArgs,     \* what poll is called with: functions fd -> events
          EtFd,         \* descriptors in edge-triggered mode
          Reports,      \* the sets of events the kernel may report
          MaxPoll,      \* bound: polls of one task
          NoSentry

ASSUME IoAssumption ==
    /\ MaxPoll \in Nat
    /\ NoSentry \notin Task \X (1..MaxPoll)
    /\ Fd # {} /\ EtFd \subseteq Fd
    /\ Closer \cap {"none", "task", "sched", "timer", "reactor"} = {}
    /\ Reports \subseteq (SUBSET {"IN", "OUT", "ERR"}) \ {{}}
    /\ \A w \in PollArgs : /\ DOMAIN w \subseteq Fd /\ DOMAIN w # {}
                           /\ \A f \in DOMAIN w : w[f] \subseteq {"IN", "OUT"}
                                                  /\ w[f] # {}

VARIABLES closed_, pending_events_,
          tasks,       \* i_tasks_, o_tasks_, io_tasks_: the task's n, or 0
          seen,        \* readable_ and writable_ (followed in ET mode only,
                       \* where add_into_reactor reads them)
          pc, n, todo, added, hit,   \* a task in libgo_poll
          watch, io_state_, fired,   \* a sentry: watch_fds_, and whose
                                     \* revents is set
          holders, dtor, by,         \* shared pointers; the destructor's work
          wait_io_sentries_,
          sched,       \* the scheduler thread in SchedulerSwitch
          timer,
          rpc, batch, rtodo, rheld, rcur,   \* the reactor in WaitLoop
          cpc, cfd, ctodo, ccur             \* calls of close()

fdVars == <<closed_, pending_events_, tasks, seen>>
pollVars == <<n, todo, added, hit, watch>>
sentryVars == <<io_state_, fired, holders, dtor, by>>
reactorVars == <<rpc, batch, rtodo, rheld, rcur>>
closerVars == <<cpc, cfd, ctodo, ccur>>
vars == <<fdVars, pollVars, sentryVars, pc, wait_io_sentries_,
          sched, timer, reactorVars, closerVars>>

Sentry == Task \X (1..MaxPoll)
Current(t) == <<t, n[t]>>
Events == {"IN", "OUT"}
Kind == {"i", "o", "io"}

\* close() holds the locks of the descriptor.
Locked(f) == \E c \in Closer : cpc[c] \notin {"idle", "done"} /\ cfd[c] = f

\* FileDescriptorCtx::ChooseSet.
ChooseSet(events) == IF events = {"IN"} THEN "i"
                     ELSE IF events = {"OUT"} THEN "o" ELSE "io"

Init == /\ closed_ = [f \in Fd |-> FALSE]
        /\ pending_events_ = [f \in Fd |-> {}]
        /\ tasks = [f \in Fd |-> [k \in Kind |-> [t \in Task |-> 0]]]
        /\ seen = [f \in Fd |-> {}]
        /\ pc = [t \in Task |-> "idle"]
        /\ n = [t \in Task |-> 0]
        /\ todo = [t \in Task |-> {}]
        /\ added = [t \in Task |-> FALSE]
        /\ hit = [t \in Task |-> FALSE]
        /\ watch = [s \in Sentry |-> <<>>]
        /\ io_state_ = [s \in Sentry |-> "pending"]
        /\ fired = [s \in Sentry |-> {}]
        /\ holders = [s \in Sentry |-> {}]
        /\ dtor = [s \in Sentry |-> {}]
        /\ by = [s \in Sentry |-> "none"]
        /\ wait_io_sentries_ = {}
        /\ sched = [s \in Sentry |-> "none"]
        /\ timer = [s \in Sentry |-> "none"]
        /\ rpc = "idle" /\ batch = {} /\ rtodo = {} /\ rheld = {}
        /\ rcur = NoSentry
        /\ cpc = [c \in Closer |-> "idle"]
        /\ cfd = [c \in Closer |-> CHOOSE f \in Fd : TRUE]
        /\ ctodo = [c \in Closer |-> {}]
        /\ ccur = [c \in Closer |-> NoSentry]
-----------------------------------------------------------------------------
(* Sentries.                                                               *)

Hold(s, h) == /\ holders' = [holders EXCEPT ![s] = @ \cup {h}]
              /\ UNCHANGED <<dtor, by>>

\* A shared pointer goes; with the last one ~IoSentry starts in this thread.
Release(s, h) ==
    /\ holders' = [holders EXCEPT ![s] = @ \ {h}]
    /\ IF holders[s] = {h}
       THEN /\ dtor' = [dtor EXCEPT ![s] = DOMAIN watch[s]]
            /\ by' = [by EXCEPT ![s] = h]
       ELSE UNCHANGED <<dtor, by>>

\* The thread of h is not inside the destructor of s.
Left(s, h) == by[s] = h => dtor[s] = {}

\* switch_state_to_triggered: who finds the state pending goes on to erase.
Cas(s) == /\ io_state_[s] = "pending"
          /\ io_state_' = [io_state_ EXCEPT ![s] = "triggered"]
CasFails(s) == io_state_[s] = "triggered" /\ UNCHANGED io_state_

\* Mutant: the task is made runnable whether its sentry was listed or not.
__IOBlockTriggered_NoCheck(s) ==
    /\ wait_io_sentries_' = wait_io_sentries_ \ {s}
    /\ pc' = [pc EXCEPT ![s[1]] = "runnable"]

\* Erase the sentry from the list; who succeeds makes the task runnable.
__IOBlockTriggered(s) ==
    \/ /\ s \in wait_io_sentries_
       /\ wait_io_sentries_' = wait_io_sentries_ \ {s}
       /\ pc' = [pc EXCEPT ![s[1]] = "runnable"]
    \/ /\ s \notin wait_io_sentries_
       /\ UNCHANGED <<wait_io_sentries_, pc>>

\* FileDescriptorCtx::del_events: an ET descriptor keeps its events.
PendingAfter(f, events) == IF f \in EtFd THEN pending_events_[f]
                           ELSE pending_events_[f] \ events

\* Mutant: the events go although tasks that poll for both still wait.
Unneeded_IgnoreIo(k, tk_set) ==
    IF \E t \in Task : tk_set[k][t] # 0 THEN {}
    ELSE IF k = "i" THEN {"IN"} ELSE IF k = "o" THEN {"OUT"} ELSE Events

\* The events nobody waits for once tk_set of kind k has run empty.
Unneeded(k, tk_set) ==
    LET Empty(j) == \A t \in Task : tk_set[j][t] = 0
    IN IF ~Empty(k) THEN {}
       ELSE {e \in Events : IF k = "io" THEN Empty(IF e = "IN" THEN "i" ELSE "o")
                            ELSE Empty("io") /\ k = IF e = "IN" THEN "i" ELSE "o"}

\* ~IoSentry, one descriptor: del_from_reactor finds the entry by the task,
\* whichever sentry it is that the entry refers to.
Destroy(s, f) ==
    LET k == ChooseSet(watch[s][f])
        left == [tasks[f] EXCEPT ![k][s[1]] = 0]
    IN /\ f \in dtor[s] /\ ~Locked(f)
       /\ dtor' = [dtor EXCEPT ![s] = @ \ {f}]
       /\ \/ /\ closed_[f] \/ pending_events_[f] = {} \/ tasks[f][k][s[1]] = 0
             /\ UNCHANGED <<tasks, pending_events_>>
          \/ /\ ~closed_[f] /\ pending_events_[f] # {} /\ tasks[f][k][s[1]] # 0
             /\ tasks' = [tasks EXCEPT ![f] = left]
             /\ pending_events_' = [pending_events_ EXCEPT
                                      ![f] = PendingAfter(f, Unneeded(k, left))]
       /\ UNCHANGED <<closed_, seen, pollVars, io_state_, fired,
                      holders, by, pc, wait_io_sentries_, sched, timer,
                      reactorVars, closerVars>>
-----------------------------------------------------------------------------
(* The polling coroutine: libgo_poll.                                      *)

\* A sentry for the descriptors and events of w.  (A poll that finds an
\* event at once, or has a zero timeout, changes nothing.)
libgo_poll(t, w) ==
    LET s == <<t, n[t] + 1>>
    IN /\ pc[t] = "idle" /\ n[t] < MaxPoll
       /\ n' = [n EXCEPT ![t] = @ + 1]
       /\ pc' = [pc EXCEPT ![t] = "add"]
       /\ todo' = [todo EXCEPT ![t] = DOMAIN w]
       /\ added' = [added EXCEPT ![t] = FALSE]
       /\ hit' = [hit EXCEPT ![t] = FALSE]
       /\ watch' = [watch EXCEPT ![s] = w]
       /\ Hold(s, "task")
       /\ UNCHANGED <<fdVars, io_state_, fired, wait_io_sentries_,
                      sched, timer, reactorVars, closerVars>>

\* add_into_reactor for one descriptor: failed (closed, or epoll_ctl refuses
\* it, as it does plain files), complete or progress.
add_into_reactor(t, f) ==
    LET s == Current(t)
        want == watch[s][f]
        complete == f \in EtFd /\ seen[f] \cap want # {}
    IN /\ pc[t] = "add" /\ f \in todo[t] /\ ~Locked(f)
       /\ todo' = [todo EXCEPT ![t] = @ \ {f}]
       /\ \/ /\ closed_[f] \/ (~complete /\ ~(want \subseteq pending_events_[f]))
             /\ fired' = [fired EXCEPT ![s] = @ \cup {f}]
             /\ UNCHANGED <<added, hit, tasks, pending_events_>>
          \/ /\ ~closed_[f] /\ complete
             /\ fired' = [fired EXCEPT ![s] = @ \cup {f}]
             /\ added' = [added EXCEPT ![t] = TRUE]
             /\ hit' = [hit EXCEPT ![t] = TRUE]
             /\ UNCHANGED <<tasks, pending_events_>>
          \/ /\ ~closed_[f] /\ ~complete
             /\ added' = [added EXCEPT ![t] = TRUE]
             /\ tasks' = [tasks EXCEPT ![f][ChooseSet(want)][t] = n[t]]
             /\ pending_events_' = [pending_events_ EXCEPT ![f] = @ \cup want]
             /\ UNCHANGED <<hit, fired>>
       /\ UNCHANGED <<closed_, seen, n, watch, pc, io_state_, holders,
                      dtor, by, wait_io_sentries_, sched, timer, reactorVars,
                      closerVars>>

\* All descriptors are done: nothing to wait for, or set the timer and yield.
CoSwitch(t, timed) ==
    LET s == Current(t)
        wait == added[t] /\ ~hit[t]
    IN /\ pc[t] = "add" /\ todo[t] = {}
       /\ pc' = [pc EXCEPT ![t] = IF wait THEN "yield" ELSE "ret"]
       /\ IF wait /\ timed
          THEN timer' = [timer EXCEPT ![s] = "armed"] /\ Hold(s, "timer")
          ELSE UNCHANGED <<timer, holders, dtor, by>>
       /\ UNCHANGED <<fdVars, pollVars, io_state_, fired,
                      wait_io_sentries_, sched, reactorVars, closerVars>>

\* Resumed: CancelTimer.  A timer that DoTimer has in its list is only
\* deactivated, a running callback is left alone.
PollResume(t) ==
    LET s == Current(t)
    IN /\ pc[t] = "runnable"
       /\ pc' = [pc EXCEPT ![t] = "ret"]
       /\ \/ /\ timer[s] = "armed"
             /\ timer' = [timer EXCEPT ![s] = "gone"]
             /\ holders' = [holders EXCEPT ![s] = @ \ {"timer"}]
          \/ /\ timer[s] \in {"armed", "listed"}
             /\ timer' = [timer EXCEPT ![s] = "dead"]
             /\ UNCHANGED holders
          \/ /\ timer[s] \notin {"armed", "listed"}
             /\ UNCHANGED <<timer, holders>>
       /\ UNCHANGED <<fdVars, pollVars, io_state_, fired, dtor, by,
                      wait_io_sentries_, sched, reactorVars, closerVars>>

\* The result is read off the sentry, and the local pointer to it goes.
PollReturn(t) ==
    /\ pc[t] = "ret"
    /\ pc' = [pc EXCEPT ![t] = "leave"]
    /\ Release(Current(t), "task")
    /\ UNCHANGED <<fdVars, pollVars, io_state_, fired,
                   wait_io_sentries_, sched, timer, reactorVars, closerVars>>

PollLeave(t) ==
    /\ pc[t] = "leave" /\ Left(Current(t), "task")
    /\ pc' = [pc EXCEPT ![t] = "idle"]
    /\ UNCHANGED <<fdVars, pollVars, sentryVars, wait_io_sentries_,
                   sched, timer, reactorVars, closerVars>>
-----------------------------------------------------------------------------
(* The scheduler thread: SchedulerSwitch.                                  *)

\* Mutant: SchedulerSwitch works with a plain pointer to the sentry.
SwitchPush_NoRef(t) ==
    LET s == Current(t)
    IN /\ pc[t] = "yield"
       /\ pc' = [pc EXCEPT ![t] = "blocked"]
       /\ wait_io_sentries_' = wait_io_sentries_ \cup {s}
       /\ sched' = [sched EXCEPT ![s] = "check"]
       /\ UNCHANGED <<fdVars, pollVars, sentryVars, timer, reactorVars, closerVars>>

\* A of SchedulerSwitch.
SwitchPush(t) ==
    LET s == Current(t)
    IN /\ pc[t] = "yield"
       /\ pc' = [pc EXCEPT ![t] = "blocked"]
       /\ wait_io_sentries_' = wait_io_sentries_ \cup {s}
       /\ sched' = [sched EXCEPT ![s] = "check"]
       /\ Hold(s, "sched")
       /\ UNCHANGED <<fdVars, pollVars, io_state_, fired, timer,
                      reactorVars, closerVars>>

\* Mutant: the state is not read again.
SwitchCheck_Skip(s) ==
    /\ sched[s] = "check"
    /\ sched' = [sched EXCEPT ![s] = "release"]
    /\ UNCHANGED <<fdVars, pollVars, sentryVars, pc, timer,
                   wait_io_sentries_, reactorVars, closerVars>>

\* B of SchedulerSwitch.
SwitchCheck(s) ==
    /\ sched[s] = "check"
    /\ sched' = [sched EXCEPT ![s] = IF io_state_[s] = "triggered" THEN "erase"
                                     ELSE "release"]
    /\ UNCHANGED <<fdVars, pollVars, sentryVars, pc, timer,
                   wait_io_sentries_, reactorVars, closerVars>>

SwitchErase(s) ==
    /\ sched[s] = "erase"
    /\ __IOBlockTriggered(s)
    /\ sched' = [sched EXCEPT ![s] = "release"]
    /\ UNCHANGED <<fdVars, pollVars, sentryVars, timer, reactorVars,
                   closerVars>>

SwitchRelease(s) ==
    /\ sched[s] = "release"
    /\ Release(s, "sched")
    /\ sched' = [sched EXCEPT ![s] = "none"]
    /\ UNCHANGED <<fdVars, pollVars, io_state_, fired, pc, timer,
                   wait_io_sentries_, reactorVars, closerVars>>
-----------------------------------------------------------------------------
(* The timer of a sentry, run by Scheduler::DoTimer.                       *)

TimerList(s) ==
    /\ timer[s] = "armed"
    /\ timer' = [timer EXCEPT ![s] = "listed"]
    /\ UNCHANGED <<fdVars, pollVars, sentryVars, pc, sched,
                   wait_io_sentries_, reactorVars, closerVars>>

TimerFire(s) ==
    /\ timer[s] = "listed"
    /\ \/ Cas(s) /\ timer' = [timer EXCEPT ![s] = "erase"]
       \/ CasFails(s) /\ timer' = [timer EXCEPT ![s] = "dead"]
    /\ UNCHANGED <<fdVars, pollVars, fired, holders, dtor, by, pc,
                   sched, wait_io_sentries_, reactorVars, closerVars>>

TimerErase(s) ==
    /\ timer[s] = "erase"
    /\ __IOBlockTriggered(s)
    /\ timer' = [timer EXCEPT ![s] = "dead"]
    /\ UNCHANGED <<fdVars, pollVars, sentryVars, sched, reactorVars,
                   closerVars>>

\* DoTimer's list goes, and with it the closure.
TimerDrop(s) ==
    /\ timer[s] = "dead"
    /\ timer' = [timer EXCEPT ![s] = "gone"]
    /\ Release(s, "timer")
    /\ UNCHANGED <<fdVars, pollVars, io_state_, fired, pc, sched,
                   wait_io_sentries_, reactorVars, closerVars>>
-----------------------------------------------------------------------------
(* The reactor thread: WaitLoop.                                           *)

\* epoll_wait: errors are always reported, the rest if it was asked for.
CanReport(f, events) ==
    /\ ~closed_[f] /\ pending_events_[f] # {}
    /\ events \subseteq pending_events_[f] \cup {"ERR"}

EpollWait(f, events) ==
    /\ rpc = "idle" \/ (rpc = "collect" /\ rheld = {} /\ \A b \in batch : b[1] # f)
    /\ CanReport(f, events)
    /\ rpc' = "collect"
    /\ batch' = batch \cup {<<f, events>>}
    /\ UNCHANGED <<fdVars, pollVars, sentryVars, pc, wait_io_sentries_, sched,
                   timer, rtodo, rheld, rcur, closerVars>>

\* The sets a report reaches.
Reached(events) == IF "ERR" \in events THEN Kind
                   ELSE UNION {IF e = "IN" THEN {"i", "io"} ELSE {"o", "io"} :
                               e \in events}
\* The sentries in them that are still alive (weak_ptr::lock).
Registered(f, kinds) ==
    {s \in Sentry : holders[s] # {} /\ \E k \in kinds : tasks[f][k][s[1]] = s[2]}

\* Mutant: revents is left for the poll to find out.
TriggerRevents_None(found, f) == fired

\* trigger_task_list: revents of the sentries found.
TriggerRevents(found, f) ==
    [s \in Sentry |-> IF s \in found THEN fired[s] \cup {f} ELSE fired[s]]

\* set_readable(true), set_writable(true).
SeenAfter(f, events) == IF f \in EtFd THEN seen[f] \cup (events \cap Events)
                        ELSE seen[f]

\* reactor_trigger for one reported descriptor: note what is readable, take
\* the waiting sentries out of the sets, stop asking for these events.
reactor_trigger(f, events) ==
    LET kinds == Reached(events)
        found == Registered(f, kinds)
    IN /\ rpc = "collect" /\ <<f, events>> \in batch /\ ~Locked(f)
       /\ batch' = batch \ {<<f, events>>}
       /\ \/ /\ closed_[f]
             /\ UNCHANGED <<seen, tasks, pending_events_, fired, holders, rtodo,
                            rheld>>
          \/ /\ ~closed_[f]
             /\ seen' = [seen EXCEPT ![f] = SeenAfter(f, events)]
             /\ tasks' = [tasks EXCEPT ![f] =
                            [k \in Kind |-> IF k \in kinds THEN [t \in Task |-> 0]
                                            ELSE @[k]]]
             /\ fired' = TriggerRevents(found, f)
             /\ holders' = [s \in Sentry |-> IF s \in found
                                             THEN holders[s] \cup {"reactor"}
                                             ELSE holders[s]]
             /\ rtodo' = rtodo \cup found
             /\ rheld' = rheld \cup found
             /\ pending_events_' =
                  [pending_events_ EXCEPT
                     ![f] = PendingAfter(f, IF "ERR" \in events THEN Events
                                            ELSE events)]
       /\ UNCHANGED <<closed_, pollVars, io_state_, dtor, by, pc,
                      wait_io_sentries_, sched, timer, rpc, rcur, closerVars>>

\* IOBlockTriggered for each sentry collected.
ReactorFire(s) ==
    /\ rpc = "collect" /\ batch = {} /\ s \in rtodo
    /\ rtodo' = rtodo \ {s}
    /\ \/ Cas(s) /\ rpc' = "erase" /\ rcur' = s
       \/ CasFails(s) /\ UNCHANGED <<rpc, rcur>>
    /\ UNCHANGED <<fdVars, pollVars, fired, holders, dtor, by, pc,
                   wait_io_sentries_, sched, timer, batch, rheld, closerVars>>

ReactorErase ==
    /\ rpc = "erase"
    /\ __IOBlockTriggered(rcur)
    /\ rpc' = "collect" /\ rcur' = NoSentry
    /\ UNCHANGED <<fdVars, pollVars, sentryVars, sched, timer, batch,
                   rtodo, rheld, closerVars>>

\* The trigger set goes, sentry by sentry.
ReactorRelease(s) ==
    /\ rpc = "collect" /\ batch = {} /\ rtodo = {} /\ s \in rheld
    /\ \A z \in Sentry : Left(z, "reactor")
    /\ rheld' = rheld \ {s}
    /\ Release(s, "reactor")
    /\ UNCHANGED <<fdVars, pollVars, io_state_, fired, pc,
                   wait_io_sentries_, sched, timer, rpc, batch, rtodo, rcur,
                   closerVars>>

ReactorDone ==
    /\ rpc = "collect" /\ batch = {} /\ rheld = {}
    /\ \A z \in Sentry : Left(z, "reactor")
    /\ rpc' = "idle"
    /\ UNCHANGED <<fdVars, pollVars, sentryVars, pc,
                   wait_io_sentries_, sched, timer, batch, rtodo, rheld, rcur,
                   closerVars>>
-----------------------------------------------------------------------------
(* FdManager::close, with FileDescriptorCtx::close_without_lock.           *)

Close(c, f) ==
    /\ cpc[c] = "idle" /\ ~closed_[f]
    /\ cpc' = [cpc EXCEPT ![c] = "next"]
    /\ cfd' = [cfd EXCEPT ![c] = f]
    /\ ctodo' = [ctodo EXCEPT ![c] = {s \in Sentry : \E k \in Kind :
                                                     tasks[f][k][s[1]] = s[2]}]
    /\ closed_' = [closed_ EXCEPT ![f] = TRUE]
    /\ pending_events_' = [pending_events_ EXCEPT ![f] = {}]
    /\ seen' = [seen EXCEPT ![f] = {}]
    /\ UNCHANGED <<tasks, pollVars, sentryVars, pc,
                   wait_io_sentries_, sched, timer, reactorVars, ccur>>

\* The next sentry of the sets, if it is alive; revents becomes POLLNVAL.
CloseTake(c, s) ==
    /\ cpc[c] = "next" /\ s \in ctodo[c]
    /\ ctodo' = [ctodo EXCEPT ![c] = @ \ {s}]
    /\ \/ /\ holders[s] # {}
          /\ Hold(s, c)
          /\ fired' = [fired EXCEPT ![s] = @ \cup {cfd[c]}]
          /\ cpc' = [cpc EXCEPT ![c] = "fire"]
          /\ ccur' = [ccur EXCEPT ![c] = s]
       \/ /\ holders[s] = {}
          /\ UNCHANGED <<holders, dtor, by, fired, cpc, ccur>>
    /\ UNCHANGED <<fdVars, pollVars, io_state_, pc, timer,
                   wait_io_sentries_, sched, reactorVars, cfd>>

CloseFire(c) ==
    /\ cpc[c] = "fire"
    /\ \/ Cas(ccur[c]) /\ cpc' = [cpc EXCEPT ![c] = "erase"]
       \/ CasFails(ccur[c]) /\ cpc' = [cpc EXCEPT ![c] = "release"]
    /\ UNCHANGED <<fdVars, pollVars, fired, holders, dtor, by, pc,
                   wait_io_sentries_, sched, timer, reactorVars, cfd, ctodo, ccur>>

CloseErase(c) ==
    /\ cpc[c] = "erase"
    /\ __IOBlockTriggered(ccur[c])
    /\ cpc' = [cpc EXCEPT ![c] = "release"]
    /\ UNCHANGED <<fdVars, pollVars, sentryVars, sched, timer,
                   reactorVars, cfd, ctodo, ccur>>

CloseRelease(c) ==
    /\ cpc[c] = "release"
    /\ Release(ccur[c], c)
    /\ cpc' = [cpc EXCEPT ![c] = "leave"]
    /\ UNCHANGED <<fdVars, pollVars, io_state_, fired, pc,
                   wait_io_sentries_, sched, timer, reactorVars, cfd, ctodo, ccur>>

\* Should the pointer have been the last one, close() is inside ~IoSentry
\* now, which asks for the locks close() holds.
CloseLeave(c) ==
    /\ cpc[c] = "leave" /\ Left(ccur[c], c)
    /\ cpc' = [cpc EXCEPT ![c] = "next"]
    /\ UNCHANGED <<fdVars, pollVars, sentryVars, pc,
                   wait_io_sentries_, sched, timer, reactorVars, cfd, ctodo, ccur>>

CloseDone(c) ==
    /\ cpc[c] = "next" /\ ctodo[c] = {}
    /\ cpc' = [cpc EXCEPT ![c] = "done"]
    /\ tasks' = [tasks EXCEPT ![cfd[c]] = [k \in Kind |-> [t \in Task |-> 0]]]
    /\ UNCHANGED <<closed_, pending_events_, seen, pollVars,
                   sentryVars, pc, wait_io_sentries_, sched, timer, reactorVars,
                   cfd, ctodo, ccur>>
-----------------------------------------------------------------------------
(* The users of the descriptor.                                            *)

\* reset_readable, reset_writable, and set_readable(false) after a read that
\* emptied the socket.
ResetSeen(f, e) ==
    /\ e \in seen[f]
    /\ seen' = [seen EXCEPT ![f] = @ \ {e}]
    /\ UNCHANGED <<closed_, pending_events_, tasks, pollVars, sentryVars, pc,
                   wait_io_sentries_, sched, timer, reactorVars, closerVars>>
-----------------------------------------------------------------------------
TaskStep(t) == \/ \E f \in Fd : add_into_reactor(t, f)
               \/ \E timed \in BOOLEAN : CoSwitch(t, timed)
               \/ PollResume(t) \/ PollReturn(t) \/ PollLeave(t)
               \/ SwitchPush(t)
SentryStep(s) == \/ SwitchCheck(s) \/ SwitchErase(s) \/ SwitchRelease(s)
                 \/ \E f \in Fd : Destroy(s, f)
TimerStep(s) == TimerList(s) \/ TimerFire(s) \/ TimerErase(s) \/ TimerDrop(s)
ReactorStep == \/ \E b \in batch : reactor_trigger(b[1], b[2])
               \/ \E s \in Sentry : ReactorFire(s) \/ ReactorRelease(s)
               \/ ReactorErase \/ ReactorDone
CloserStep(c) == \/ \E s \in Sentry : CloseTake(c, s)
                 \/ CloseFire(c) \/ CloseErase(c) \/ CloseRelease(c)
                 \/ CloseLeave(c) \/ CloseDone(c)
Next == \/ \E t \in Task : \/ \E w \in PollArgs : libgo_poll(t, w)
                           \/ TaskStep(t)
        \/ \E s \in Sentry : SentryStep(s) \/ TimerStep(s)
        \/ ReactorStep
        \/ \E c \in Closer : CloserStep(c) \/ \E f \in Fd : Close(c, f)
        \/ \E f \in Fd : \/ \E events \in Reports : EpollWait(f, events)
                         \/ \E e \in Events : ResetSeen(f, e)

Spec == Init /\ [][Next]_vars

\* Scheduler threads, the reactor and due timers keep running.
Fairness == /\ \A t \in Task : WF_vars(TaskStep(t))
            /\ \A s \in Sentry : WF_vars(SentryStep(s)) /\ WF_vars(TimerStep(s))
            /\ WF_vars(ReactorStep)
            /\ \A c \in Closer : WF_vars(CloserStep(c))

FairSpec == Spec /\ Fairness
-----------------------------------------------------------------------------
(* Properties.                                                             *)

\* Who may have a shared pointer to a sentry.
Holder == {"task", "sched", "timer", "reactor"} \cup Closer

TypeOK ==
    /\ closed_ \in [Fd -> BOOLEAN]
    /\ pending_events_ \in [Fd -> SUBSET Events]
    /\ tasks \in [Fd -> [Kind -> [Task -> 0..MaxPoll]]]
    /\ seen \in [Fd -> SUBSET Events]
    /\ pc \in [Task -> {"idle", "add", "yield", "blocked", "runnable", "ret", "leave"}]
    /\ n \in [Task -> 0..MaxPoll]
    /\ todo \in [Task -> SUBSET Fd]
    /\ watch \in [Sentry -> PollArgs \cup {<<>>}]
    /\ added \in [Task -> BOOLEAN] /\ hit \in [Task -> BOOLEAN]
    /\ io_state_ \in [Sentry -> {"pending", "triggered"}]
    /\ fired \in [Sentry -> SUBSET Fd]
    /\ holders \in [Sentry -> SUBSET Holder]
    /\ dtor \in [Sentry -> SUBSET Fd]
    /\ by \in [Sentry -> Holder \cup {"none"}]
    /\ wait_io_sentries_ \subseteq Sentry
    /\ sched \in [Sentry -> {"none", "check", "erase", "release"}]
    /\ timer \in [Sentry -> {"none", "armed", "listed", "erase", "dead", "gone"}]
    /\ rpc \in {"idle", "collect", "erase"}
    /\ batch \subseteq Fd \X Reports
    /\ rtodo \subseteq rheld /\ rheld \subseteq Sentry
    /\ rcur \in Sentry \cup {NoSentry}
    /\ cpc \in [Closer -> {"idle", "next", "fire", "erase", "release", "leave", "done"}]
    /\ cfd \in [Closer -> Fd] /\ ctodo \in [Closer -> SUBSET Sentry]
    /\ ccur \in [Closer -> Sentry \cup {NoSentry}]

\* A task is made runnable once per wait, by whoever erased its sentry: the
\* list holds exactly the sentries of the tasks that are blocked.
WokenOnce == wait_io_sentries_ = {Current(t) : t \in {u \in Task : pc[u] = "blocked"}}

\* Somebody is on his way to erase s from the list.
Eraser(s) == \/ sched[s] \in {"check", "erase"}
             \/ timer[s] = "erase"
             \/ rcur = s
             \/ \E c \in Closer : cpc[c] = "erase" /\ ccur[c] = s

\* The ABBA of io_wait.h loses no trigger: a triggered sentry that is in the
\* list always has somebody who will still take it out.
NoStrandedTrigger == \A s \in wait_io_sentries_ :
                        io_state_[s] = "triggered" => Eraser(s)

\* A sentry that is listed or in anybody's hands has not been destroyed.
NoUseAfterFree ==
    \A s \in Sentry :
       by[s] # "none" => /\ holders[s] = {}
                         /\ s \notin wait_io_sentries_ \cup rheld
                         /\ ~Eraser(s)
                         /\ timer[s] \in {"none", "gone"}

\* As long as a set of an open descriptor names a task, epoll is asked for the
\* events of that set, however triggers, new polls and late destructors of
\* other tasks interleave.
InterestKept ==
    \A f \in Fd, t \in Task :
       ~closed_[f] =>
          /\ tasks[f]["i"][t] # 0 \/ tasks[f]["io"][t] # 0 => "IN" \in pending_events_[f]
          /\ tasks[f]["o"][t] # 0 \/ tasks[f]["io"][t] # 0 => "OUT" \in pending_events_[f]

\* A poll without a timeout never returns 0, which read_write_mode would take
\* for the end of the time: whoever triggers has set revents before.
UntimedPollSeesEvent ==
    \A t \in Task : pc[t] = "ret" /\ timer[Current(t)] = "none"
                       => fired[Current(t)] # {}

\* A poll with a timeout returns although no event ever comes and whoever else
\* triggers or closes at the same time.
TimedPollReturns ==
    \A t \in Task :
       pc[t] \in {"yield", "blocked"} /\ timer[Current(t)] # "none" ~> pc[t] = "ret"

\* "~IoSentry deletes the corresponding weak_ptr" (fd_context.cpp): the
\* destructor of an old sentry leaves the entry of the current one alone.
OwnEntryOnly ==
    [][\A f \in Fd, k \in Kind, s \in Sentry :
          tasks[f][k][s[1]] # 0 /\ tasks'[f][k][s[1]] = 0 /\ dtor'[s] # dtor[s]
             => tasks[f][k][s[1]] = s[2]]_vars
-----------------------------------------------------------------------------
(* The strengthening that makes the invariants inductive.                  *)

\* A poll: its sentry, the descriptors it still has to register, and what the
\* ones it has registered told it.
PollInv ==
    \A t \in Task :
       /\ pc[t] # "idle" => n[t] # 0
       /\ pc[t] = "add" =>
             /\ watch[Current(t)] \in PollArgs
             /\ todo[t] \subseteq DOMAIN watch[Current(t)]
             /\ hit[t] => fired[Current(t)] # {}
             /\ ~added[t] => DOMAIN watch[Current(t)] \ todo[t] \subseteq fired[Current(t)]
       /\ pc[t] = "runnable" => io_state_[Current(t)] = "triggered"

\* The reactor is at a sentry only between its switch_state_to_triggered and
\* the erasure that follows.
ReactorInv == /\ rpc # "erase" <=> rcur = NoSentry
              /\ rcur # NoSentry => rcur \in rheld

\* h works with s: the task in its poll, the scheduler thread in
\* SchedulerSwitch, the timer, the reactor's trigger set, a close().
Uses(s, h) ==
    \/ h = "task" /\ pc[s[1]] \notin {"idle", "leave"} /\ s = Current(s[1])
    \/ h = "sched" /\ sched[s] # "none"
    \/ h = "timer" /\ timer[s] \notin {"none", "gone"}
    \/ h = "reactor" /\ s \in rheld
    \/ h \in Closer /\ cpc[h] \in {"fire", "erase", "release"} /\ ccur[h] = s

\* Whoever works with a sentry has a shared pointer to it; one without pointers
\* and one that is not made yet are in nobody's hands.
HolderInv ==
    /\ \A s \in Sentry :
          /\ \A h \in Holder : Uses(s, h) => h \in holders[s]
          /\ by[s] # "none" => holders[s] = {}
          /\ s[2] > n[s[1]] => holders[s] = {} /\ by[s] = "none"
    /\ \A c \in Closer : cpc[c] \in {"fire", "erase", "release"} => ccur[c] \in Sentry

\* Nobody triggers a sentry before its revents is set, except its timer, and
\* nobody but the scheduler thread erases one that he did not trigger.
TriggerInv ==
    /\ \A s \in Sentry :
          /\ io_state_[s] = "triggered" => fired[s] # {} \/ timer[s] # "none"
          /\ s \in rtodo => fired[s] # {}
          /\ sched[s] = "erase" \/ timer[s] = "erase" \/ rcur = s
                => io_state_[s] = "triggered"
    /\ \A c \in Closer : /\ cpc[c] = "fire" => fired[ccur[c]] # {}
                         /\ cpc[c] = "erase" => io_state_[ccur[c]] = "triggered"

IInv == /\ TypeOK /\ WokenOnce /\ PollInv /\ ReactorInv /\ HolderInv /\ TriggerInv
        /\ NoStrandedTrigger /\ InterestKept /\ UntimedPollSeesEvent
=============================================================================
