---------------------------- MODULE IoWaitProofs ----------------------------
(***************************************************************************)
(* Proofs about IoWait, for any tasks, descriptors, callers of close(),    *)
(* arguments of poll, reports of epoll and number of polls.                *)
(***************************************************************************)
EXTENDS IoWait, HookedReads, TLAPS, FiniteSetTheorems

-----------------------------------------------------------------------------
(* Sentries and the steps that actions share.                              *)

\* Sentries are pairs of a task and the number of its poll.
LEMMA SentryPair ==
    /\ \A s \in Sentry : s[1] \in Task /\ s[2] \in 1..MaxPoll /\ s = <<s[1], s[2]>>
    /\ \A t \in Task, i \in 1..MaxPoll : <<t, i>> \in Sentry
    /\ NoSentry \notin Sentry
  BY IoAssumption DEF Sentry

\* The sentry of a poll in progress.
LEMMA CurrentSentry ==
    ASSUME TypeOK, PollInv, NEW t \in Task, pc[t] # "idle"
    PROVE  Current(t) \in Sentry /\ Current(t)[1] = t /\ Current(t)[2] = n[t]
  <1>1. n[t] \in 0..MaxPoll /\ n[t] # 0
    BY DEF TypeOK, PollInv
  <1>2. n[t] \in 1..MaxPoll
    BY <1>1, IoAssumption
  <1> QED BY <1>2 DEF Current, Sentry

\* A descriptor that a sentry watches is one of Fd.
LEMMA WatchFd == ASSUME TypeOK, NEW s \in Sentry PROVE DOMAIN watch[s] \subseteq Fd
  <1>1. watch[s] \in PollArgs \/ watch[s] = <<>>
    BY DEF TypeOK
  <1>2. CASE watch[s] \in PollArgs
    BY <1>2, IoAssumption
  <1>3. CASE watch[s] = <<>>
    <2>1. DOMAIN watch[s] = {}
      BY <1>3
    <2> QED BY <2>1
  <1> QED BY <1>1, <1>2, <1>3

\* A shared pointer comes or goes.
LEMMA HoldType ==
    ASSUME TypeOK, NEW s \in Sentry, NEW h \in Holder, Hold(s, h) \/ Release(s, h)
    PROVE  /\ holders' \in [Sentry -> SUBSET Holder] /\ dtor' \in [Sentry -> SUBSET Fd]
           /\ by' \in [Sentry -> Holder \cup {"none"}]
  <1>t. /\ holders \in [Sentry -> SUBSET Holder] /\ dtor \in [Sentry -> SUBSET Fd]
        /\ by \in [Sentry -> Holder \cup {"none"}] /\ DOMAIN watch[s] \subseteq Fd
    BY WatchFd DEF TypeOK
  <1>1. CASE Hold(s, h)
    BY <1>1, <1>t DEF Hold
  <1>2. CASE Release(s, h)
    BY <1>2, <1>t DEF Release
  <1> QED BY <1>1, <1>2

\* The erasure, and whoever it makes runnable.
LEMMA EraseType ==
    ASSUME TypeOK, NEW s \in Sentry, __IOBlockTriggered(s)
    PROVE  /\ pc' \in [Task -> {"idle", "add", "yield", "blocked", "runnable", "ret", "leave"}]
           /\ wait_io_sentries_' \subseteq Sentry
  <1>t. /\ pc \in [Task -> {"idle", "add", "yield", "blocked", "runnable", "ret", "leave"}]
        /\ wait_io_sentries_ \subseteq Sentry
    BY DEF TypeOK
  <1> QED BY <1>t DEF __IOBlockTriggered

\* The switch to "triggered".
LEMMA CasType ==
    ASSUME TypeOK, NEW s \in Sentry, Cas(s) \/ CasFails(s)
    PROVE  /\ io_state_' \in [Sentry -> {"pending", "triggered"}]
           /\ io_state_'[s] = "triggered"
           /\ \A z \in Sentry : io_state_[z] = "triggered" => io_state_'[z] = "triggered"
           /\ \A z \in Sentry : z # s => io_state_'[z] = io_state_[z]
  <1>t. io_state_ \in [Sentry -> {"pending", "triggered"}]
    BY DEF TypeOK
  <1> QED BY <1>t DEF Cas, CasFails

\* One entry of a descriptor's sets is written.
WritesEntry(f, k, t, v) == tasks' = [tasks EXCEPT ![f][k][t] = v]

\* What that does to the others: nothing.
LEMMA SetEntry ==
    ASSUME TypeOK, NEW f \in Fd, NEW k \in Kind, NEW t \in Task, NEW v \in 0..MaxPoll,
           WritesEntry(f, k, t, v)
    PROVE  /\ tasks' \in [Fd -> [Kind -> [Task -> 0..MaxPoll]]]
           /\ \A g \in Fd, j \in Kind, u \in Task :
                 tasks'[g][j][u] = IF g = f /\ j = k /\ u = t THEN v ELSE tasks[g][j][u]
  <1> DEFINE row == [tasks[f][k] EXCEPT ![t] = v]
             sets == [tasks[f] EXCEPT ![k] = row]
  <1>1. tasks \in [Fd -> [Kind -> [Task -> 0..MaxPoll]]]
    BY DEF TypeOK
  <1>2. /\ tasks[f] \in [Kind -> [Task -> 0..MaxPoll]]
        /\ row \in [Task -> 0..MaxPoll]
        /\ \A u \in Task : row[u] = IF u = t THEN v ELSE tasks[f][k][u]
    BY <1>1
  <1>3. tasks' = [tasks EXCEPT ![f] = sets]
    BY DEF WritesEntry
  <1> HIDE DEF row
  <1>4. /\ sets \in [Kind -> [Task -> 0..MaxPoll]]
        /\ \A j \in Kind : sets[j] = IF j = k THEN row ELSE tasks[f][j]
    BY <1>2
  <1> HIDE DEF sets
  <1>5. /\ tasks' \in [Fd -> [Kind -> [Task -> 0..MaxPoll]]]
        /\ \A g \in Fd : tasks'[g] = IF g = f THEN sets ELSE tasks[g]
    BY <1>1, <1>3, <1>4
  <1> QED BY <1>2, <1>4, <1>5
-----------------------------------------------------------------------------
(* Types.                                                                  *)

\* The initial state has the right types.
LEMMA InitType == Init => TypeOK
  <1> SUFFICES ASSUME Init PROVE TypeOK
    OBVIOUS
  <1>1. (CHOOSE f \in Fd : TRUE) \in Fd
    BY IoAssumption
  <1>2. cfd \in [Closer -> Fd]
    BY <1>1 DEF Init
  <1>3. tasks \in [Fd -> [Kind -> [Task -> 0..MaxPoll]]] /\ n \in [Task -> 0..MaxPoll]
    BY IoAssumption DEF Init
  <1>4. watch \in [Sentry -> PollArgs \cup {<<>>}]
    BY DEF Init
  <1>5. /\ todo \in [Task -> SUBSET Fd] /\ added \in [Task -> BOOLEAN] /\ hit \in [Task -> BOOLEAN]
        /\ pc \in [Task -> {"idle", "add", "yield", "blocked", "runnable", "ret", "leave"}]
    BY DEF Init
  <1>6. /\ closed_ \in [Fd -> BOOLEAN] /\ pending_events_ \in [Fd -> SUBSET Events]
        /\ seen \in [Fd -> SUBSET Events]
    BY DEF Init
  <1>7. /\ io_state_ \in [Sentry -> {"pending", "triggered"}] /\ fired \in [Sentry -> SUBSET Fd]
        /\ holders \in [Sentry -> SUBSET Holder] /\ dtor \in [Sentry -> SUBSET Fd]
        /\ by \in [Sentry -> Holder \cup {"none"}]
    BY DEF Init
  <1>8. /\ sched \in [Sentry -> {"none", "check", "erase", "release"}]
        /\ timer \in [Sentry -> {"none", "armed", "listed", "erase", "dead", "gone"}]
        /\ wait_io_sentries_ \subseteq Sentry
    BY DEF Init
  <1>9. /\ rpc \in {"idle", "collect", "erase"} /\ batch \subseteq Fd \X Reports
        /\ rtodo \subseteq rheld /\ rheld \subseteq Sentry /\ rcur \in Sentry \cup {NoSentry}
    BY DEF Init
  <1>10. /\ cpc \in [Closer -> {"idle", "next", "fire", "erase", "release", "leave", "done"}]
         /\ ctodo \in [Closer -> SUBSET Sentry] /\ ccur \in [Closer -> Sentry \cup {NoSentry}]
    BY DEF Init
  <1> QED BY <1>2, <1>3, <1>4, <1>5, <1>6, <1>7, <1>8, <1>9, <1>10 DEF TypeOK

\* The steps of a polling task.
LEMMA TaskType ==
    ASSUME TypeOK, PollInv, NEW t \in Task,
           TaskStep(t) \/ \E w \in PollArgs : libgo_poll(t, w)
    PROVE  TypeOK'
  <1> USE DEF fdVars, pollVars, sentryVars, reactorVars, closerVars
  <1>p. pc \in [Task -> {"idle", "add", "yield", "blocked", "runnable", "ret", "leave"}]
    BY DEF TypeOK
  <1>n. n \in [Task -> 0..MaxPoll] /\ n[t] \in 0..MaxPoll
    BY DEF TypeOK
  <1>o. /\ todo \in [Task -> SUBSET Fd] /\ added \in [Task -> BOOLEAN] /\ hit \in [Task -> BOOLEAN]
    BY DEF TypeOK
  <1>w. watch \in [Sentry -> PollArgs \cup {<<>>}]
    BY DEF TypeOK
  <1>r. timer \in [Sentry -> {"none", "armed", "listed", "erase", "dead", "gone"}]
    BY DEF TypeOK
  <1>h. {"task", "sched", "timer"} \subseteq Holder
    BY DEF Holder
  <1>c. pc[t] # "idle" => Current(t) \in Sentry
    BY CurrentSentry
  <1>1. ASSUME NEW w \in PollArgs, libgo_poll(t, w) PROVE TypeOK'
    <2> DEFINE s == <<t, n[t] + 1>>
    <2>1. s \in Sentry /\ n[t] + 1 \in 0..MaxPoll
      BY <1>1, <1>n, IoAssumption DEF libgo_poll, Sentry
    <2>2. DOMAIN w \subseteq Fd
      BY IoAssumption
    <2> HIDE DEF s
    <2>3. n' \in [Task -> 0..MaxPoll]
      BY <1>1, <1>n, <2>1 DEF libgo_poll
    <2>4. pc' \in [Task -> {"idle", "add", "yield", "blocked", "runnable", "ret", "leave"}]
      BY <1>1, <1>p DEF libgo_poll
    <2>5. /\ todo' \in [Task -> SUBSET Fd] /\ added' \in [Task -> BOOLEAN]
          /\ hit' \in [Task -> BOOLEAN]
      BY <1>1, <1>o, <2>2 DEF libgo_poll
    <2>6. watch' \in [Sentry -> PollArgs \cup {<<>>}]
      BY <1>1, <1>w, <2>1 DEF libgo_poll, s
    <2>7. /\ holders' \in [Sentry -> SUBSET Holder] /\ dtor' \in [Sentry -> SUBSET Fd]
          /\ by' \in [Sentry -> Holder \cup {"none"}]
      BY <1>1, <1>h, <2>1, HoldType DEF libgo_poll, s
    <2>8. UNCHANGED <<fdVars, io_state_, fired, wait_io_sentries_, sched, timer,
                      reactorVars, closerVars>>
      BY <1>1 DEF libgo_poll
    <2> QED BY <2>3, <2>4, <2>5, <2>6, <2>7, <2>8 DEF TypeOK
  <1>2. ASSUME NEW f \in Fd, add_into_reactor(t, f) PROVE TypeOK'
    <2> DEFINE s == Current(t)
    <2>1. s \in Sentry /\ n[t] \in 0..MaxPoll
      BY <1>2, <1>c, <1>n DEF add_into_reactor
    <2>2. watch[s][f] \subseteq Events /\ ChooseSet(watch[s][f]) \in Kind
      <3>1. pc[t] = "add" /\ f \in todo[t]
        BY <1>2 DEF add_into_reactor
      <3>2. watch[s] \in PollArgs /\ f \in DOMAIN watch[s]
        BY <3>1 DEF PollInv
      <3> QED BY <3>2, IoAssumption DEF Events, ChooseSet, Kind
    <2> HIDE DEF s
    <2>3. /\ todo' \in [Task -> SUBSET Fd] /\ added' \in [Task -> BOOLEAN]
          /\ hit' \in [Task -> BOOLEAN]
      BY <1>2, <1>o DEF add_into_reactor
    <2>4. fired' \in [Sentry -> SUBSET Fd]
      <3>1. fired \in [Sentry -> SUBSET Fd]
        BY DEF TypeOK
      <3> QED BY <1>2, <3>1, <2>1 DEF add_into_reactor, s
    <2>5. pending_events_' \in [Fd -> SUBSET Events]
      <3>1. pending_events_ \in [Fd -> SUBSET Events]
        BY DEF TypeOK
      <3> QED BY <1>2, <3>1, <2>2 DEF add_into_reactor, s
    <2>6. tasks' \in [Fd -> [Kind -> [Task -> 0..MaxPoll]]]
      <3>1. tasks \in [Fd -> [Kind -> [Task -> 0..MaxPoll]]]
        BY DEF TypeOK
      <3> DEFINE k == ChooseSet(watch[s][f])
      <3>2. tasks' = tasks \/ WritesEntry(f, k, t, n[t])
        BY <1>2 DEF add_into_reactor, s, WritesEntry
      <3>3. k \in Kind
        BY <2>2
      <3> HIDE DEF k
      <3> QED BY <2>1, <3>1, <3>2, <3>3, SetEntry
    <2>7. UNCHANGED <<closed_, seen, n, watch, pc, io_state_, holders, dtor, by,
                      wait_io_sentries_, sched, timer, reactorVars, closerVars>>
      BY <1>2 DEF add_into_reactor
    <2> QED BY <2>3, <2>4, <2>5, <2>6, <2>7 DEF TypeOK
  <1>3. ASSUME NEW timed \in BOOLEAN, CoSwitch(t, timed) PROVE TypeOK'
    <2>1. Current(t) \in Sentry
      BY <1>3, <1>c DEF CoSwitch
    <2>2. pc' \in [Task -> {"idle", "add", "yield", "blocked", "runnable", "ret", "leave"}]
      BY <1>3, <1>p DEF CoSwitch
    <2>3. timer' \in [Sentry -> {"none", "armed", "listed", "erase", "dead", "gone"}]
      BY <1>3, <1>r, <2>1 DEF CoSwitch
    <2>4. Hold(Current(t), "timer") \/ UNCHANGED <<holders, dtor, by>>
      BY <1>3 DEF CoSwitch
    <2>5. /\ holders' \in [Sentry -> SUBSET Holder] /\ dtor' \in [Sentry -> SUBSET Fd]
          /\ by' \in [Sentry -> Holder \cup {"none"}]
      <3>1. CASE Hold(Current(t), "timer")
        BY <3>1, <1>h, <2>1, HoldType
      <3>2. CASE UNCHANGED <<holders, dtor, by>>
        BY <3>2 DEF TypeOK
      <3> QED BY <2>4, <3>1, <3>2
    <2>6. UNCHANGED <<fdVars, pollVars, io_state_, fired, wait_io_sentries_, sched,
                      reactorVars, closerVars>>
      BY <1>3 DEF CoSwitch
    <2> QED BY <2>2, <2>3, <2>5, <2>6 DEF TypeOK
  <1>4. CASE PollResume(t)
    <2>1. Current(t) \in Sentry
      BY <1>4, <1>c DEF PollResume
    <2>2. pc' \in [Task -> {"idle", "add", "yield", "blocked", "runnable", "ret", "leave"}]
      BY <1>4, <1>p DEF PollResume
    <2>3. timer' \in [Sentry -> {"none", "armed", "listed", "erase", "dead", "gone"}]
      BY <1>4, <1>r, <2>1 DEF PollResume
    <2>4. holders' \in [Sentry -> SUBSET Holder]
      <3>1. holders \in [Sentry -> SUBSET Holder]
        BY DEF TypeOK
      <3> QED BY <1>4, <2>1, <3>1 DEF PollResume
    <2>5. UNCHANGED <<fdVars, pollVars, io_state_, fired, dtor, by,
                      wait_io_sentries_, sched, reactorVars, closerVars>>
      BY <1>4 DEF PollResume
    <2> QED BY <2>2, <2>3, <2>4, <2>5 DEF TypeOK
  <1>5. CASE PollReturn(t)
    <2>1. Current(t) \in Sentry
      BY <1>5, <1>c DEF PollReturn
    <2>2. pc' \in [Task -> {"idle", "add", "yield", "blocked", "runnable", "ret", "leave"}]
      BY <1>5, <1>p DEF PollReturn
    <2>3. /\ holders' \in [Sentry -> SUBSET Holder] /\ dtor' \in [Sentry -> SUBSET Fd]
          /\ by' \in [Sentry -> Holder \cup {"none"}]
      BY <1>5, <1>h, <2>1, HoldType DEF PollReturn
    <2>4. UNCHANGED <<fdVars, pollVars, io_state_, fired, wait_io_sentries_, sched, timer,
                      reactorVars, closerVars>>
      BY <1>5 DEF PollReturn
    <2> QED BY <2>2, <2>3, <2>4 DEF TypeOK
  <1>6. CASE PollLeave(t)
    <2>1. pc' \in [Task -> {"idle", "add", "yield", "blocked", "runnable", "ret", "leave"}]
      BY <1>6, <1>p DEF PollLeave
    <2>2. UNCHANGED <<fdVars, pollVars, sentryVars, wait_io_sentries_, sched, timer,
                      reactorVars, closerVars>>
      BY <1>6 DEF PollLeave
    <2> QED BY <2>1, <2>2 DEF TypeOK
  <1>7. CASE SwitchPush(t)
    <2>1. Current(t) \in Sentry
      BY <1>7, <1>c DEF SwitchPush
    <2>2. pc' \in [Task -> {"idle", "add", "yield", "blocked", "runnable", "ret", "leave"}]
      BY <1>7, <1>p DEF SwitchPush
    <2>3. sched' \in [Sentry -> {"none", "check", "erase", "release"}]
      BY <1>7, <2>1 DEF SwitchPush, TypeOK
    <2>4. wait_io_sentries_' \subseteq Sentry
      BY <1>7, <2>1 DEF SwitchPush, TypeOK
    <2>5. /\ holders' \in [Sentry -> SUBSET Holder] /\ dtor' \in [Sentry -> SUBSET Fd]
          /\ by' \in [Sentry -> Holder \cup {"none"}]
      BY <1>7, <1>h, <2>1, HoldType DEF SwitchPush
    <2>6. UNCHANGED <<fdVars, pollVars, io_state_, fired, timer, reactorVars, closerVars>>
      BY <1>7 DEF SwitchPush
    <2> QED BY <2>2, <2>3, <2>4, <2>5, <2>6 DEF TypeOK
  <1> QED BY <1>1, <1>2, <1>3, <1>4, <1>5, <1>6, <1>7 DEF TaskStep

\* The steps of the scheduler thread and of destructors.
LEMMA SentryType ==
    ASSUME TypeOK, NEW s \in Sentry, SentryStep(s) PROVE TypeOK'
  <1> USE DEF fdVars, pollVars, sentryVars, reactorVars, closerVars
  <1>s. sched \in [Sentry -> {"none", "check", "erase", "release"}]
    BY DEF TypeOK
  <1>1. CASE SwitchCheck(s)
    <2>1. sched' \in [Sentry -> {"none", "check", "erase", "release"}]
      BY <1>1, <1>s DEF SwitchCheck
    <2>2. UNCHANGED <<fdVars, pollVars, sentryVars, pc, timer, wait_io_sentries_,
                      reactorVars, closerVars>>
      BY <1>1 DEF SwitchCheck
    <2> QED BY <2>1, <2>2 DEF TypeOK
  <1>2. CASE SwitchErase(s)
    <2>1. sched' \in [Sentry -> {"none", "check", "erase", "release"}]
      BY <1>2, <1>s DEF SwitchErase
    <2>2. /\ pc' \in [Task -> {"idle", "add", "yield", "blocked", "runnable", "ret", "leave"}]
          /\ wait_io_sentries_' \subseteq Sentry
      BY <1>2, EraseType DEF SwitchErase
    <2>3. UNCHANGED <<fdVars, pollVars, sentryVars, timer, reactorVars, closerVars>>
      BY <1>2 DEF SwitchErase
    <2> QED BY <2>1, <2>2, <2>3 DEF TypeOK
  <1>3. CASE SwitchRelease(s)
    <2>1. sched' \in [Sentry -> {"none", "check", "erase", "release"}]
      BY <1>3, <1>s DEF SwitchRelease
    <2>2. /\ holders' \in [Sentry -> SUBSET Holder] /\ dtor' \in [Sentry -> SUBSET Fd]
          /\ by' \in [Sentry -> Holder \cup {"none"}]
      BY <1>3, HoldType DEF SwitchRelease, Holder
    <2>3. UNCHANGED <<fdVars, pollVars, io_state_, fired, pc, timer,
                      wait_io_sentries_, reactorVars, closerVars>>
      BY <1>3 DEF SwitchRelease
    <2> QED BY <2>1, <2>2, <2>3 DEF TypeOK
  <1>4. ASSUME NEW f \in Fd, Destroy(s, f) PROVE TypeOK'
    <2> DEFINE k == ChooseSet(watch[s][f])
               left == [tasks[f] EXCEPT ![k][s[1]] = 0]
    <2>1. k \in Kind /\ s[1] \in Task
      BY SentryPair DEF ChooseSet, Kind
    <2>2. dtor' \in [Sentry -> SUBSET Fd]
      <3>1. dtor \in [Sentry -> SUBSET Fd]
        BY DEF TypeOK
      <3> QED BY <1>4, <3>1 DEF Destroy
    <2>3. pending_events_' \in [Fd -> SUBSET Events]
      <3>1. pending_events_ \in [Fd -> SUBSET Events]
        BY DEF TypeOK
      <3>2. \A e : PendingAfter(f, e) \subseteq Events
        BY <3>1 DEF PendingAfter
      <3>3. \/ pending_events_' = pending_events_
            \/ pending_events_' = [pending_events_ EXCEPT ![f] = PendingAfter(f, Unneeded(k, left))]
        BY <1>4 DEF Destroy
      <3> QED BY <3>1, <3>2, <3>3
    <2>4. tasks' \in [Fd -> [Kind -> [Task -> 0..MaxPoll]]]
      <3>1. tasks \in [Fd -> [Kind -> [Task -> 0..MaxPoll]]] /\ 0 \in 0..MaxPoll
        BY IoAssumption DEF TypeOK
      <3>2. tasks' = tasks \/ tasks' = [tasks EXCEPT ![f] = left]
        BY <1>4 DEF Destroy
      <3>3. left \in [Kind -> [Task -> 0..MaxPoll]]
        BY <2>1, <3>1
      <3> HIDE DEF left
      <3> QED BY <3>1, <3>2, <3>3
    <2>5. UNCHANGED <<closed_, seen, pollVars, io_state_, fired, holders, by, pc,
                      wait_io_sentries_, sched, timer, reactorVars, closerVars>>
      BY <1>4 DEF Destroy
    <2> QED BY <2>2, <2>3, <2>4, <2>5 DEF TypeOK
  <1> QED BY <1>1, <1>2, <1>3, <1>4 DEF SentryStep

\* The steps of timers.
LEMMA TimerType ==
    ASSUME TypeOK, NEW s \in Sentry, TimerStep(s) PROVE TypeOK'
  <1> USE DEF fdVars, pollVars, sentryVars, reactorVars, closerVars
  <1>r. timer \in [Sentry -> {"none", "armed", "listed", "erase", "dead", "gone"}]
    BY DEF TypeOK
  <1>1. CASE TimerList(s)
    <2>1. timer' \in [Sentry -> {"none", "armed", "listed", "erase", "dead", "gone"}]
      BY <1>1, <1>r DEF TimerList
    <2>2. UNCHANGED <<fdVars, pollVars, sentryVars, pc, sched, wait_io_sentries_,
                      reactorVars, closerVars>>
      BY <1>1 DEF TimerList
    <2> QED BY <2>1, <2>2 DEF TypeOK
  <1>2. CASE TimerFire(s)
    <2>1. timer' \in [Sentry -> {"none", "armed", "listed", "erase", "dead", "gone"}]
      BY <1>2, <1>r DEF TimerFire
    <2>2. io_state_' \in [Sentry -> {"pending", "triggered"}]
      BY <1>2, CasType DEF TimerFire
    <2>3. UNCHANGED <<fdVars, pollVars, fired, holders, dtor, by, pc, sched,
                      wait_io_sentries_, reactorVars, closerVars>>
      BY <1>2 DEF TimerFire
    <2> QED BY <2>1, <2>2, <2>3 DEF TypeOK
  <1>3. CASE TimerErase(s)
    <2>1. timer' \in [Sentry -> {"none", "armed", "listed", "erase", "dead", "gone"}]
      BY <1>3, <1>r DEF TimerErase
    <2>2. /\ pc' \in [Task -> {"idle", "add", "yield", "blocked", "runnable", "ret", "leave"}]
          /\ wait_io_sentries_' \subseteq Sentry
      BY <1>3, EraseType DEF TimerErase
    <2>3. UNCHANGED <<fdVars, pollVars, sentryVars, sched, reactorVars, closerVars>>
      BY <1>3 DEF TimerErase
    <2> QED BY <2>1, <2>2, <2>3 DEF TypeOK
  <1>4. CASE TimerDrop(s)
    <2>1. timer' \in [Sentry -> {"none", "armed", "listed", "erase", "dead", "gone"}]
      BY <1>4, <1>r DEF TimerDrop
    <2>2. /\ holders' \in [Sentry -> SUBSET Holder] /\ dtor' \in [Sentry -> SUBSET Fd]
          /\ by' \in [Sentry -> Holder \cup {"none"}]
      BY <1>4, HoldType DEF TimerDrop, Holder
    <2>3. UNCHANGED <<fdVars, pollVars, io_state_, fired, pc, sched, wait_io_sentries_,
                      reactorVars, closerVars>>
      BY <1>4 DEF TimerDrop
    <2> QED BY <2>1, <2>2, <2>3 DEF TypeOK
  <1> QED BY <1>1, <1>2, <1>3, <1>4 DEF TimerStep

\* The steps of the reactor and of the kernel it asks.
LEMMA ReactorType ==
    ASSUME TypeOK, ReactorInv,
           ReactorStep \/ \E f \in Fd, events \in Reports : EpollWait(f, events)
    PROVE  TypeOK'
  <1> USE DEF fdVars, pollVars, sentryVars, reactorVars, closerVars
  <1>r. /\ batch \subseteq Fd \X Reports /\ rtodo \subseteq rheld /\ rheld \subseteq Sentry
        /\ rpc \in {"idle", "collect", "erase"} /\ rcur \in Sentry \cup {NoSentry}
    BY DEF TypeOK
  <1>1. ASSUME NEW f \in Fd, NEW events \in Reports, EpollWait(f, events) PROVE TypeOK'
    <2>1. batch' \subseteq Fd \X Reports /\ rpc' = "collect"
      BY <1>1, <1>r DEF EpollWait
    <2>2. UNCHANGED <<fdVars, pollVars, sentryVars, pc, wait_io_sentries_, sched, timer,
                      rtodo, rheld, rcur, closerVars>>
      BY <1>1 DEF EpollWait
    <2> QED BY <2>1, <2>2 DEF TypeOK
  <1>2. ASSUME NEW b \in batch, reactor_trigger(b[1], b[2]) PROVE TypeOK'
    <2> DEFINE f == b[1]
               events == b[2]
               kinds == Reached(events)
               found == Registered(f, kinds)
    <2>1. f \in Fd /\ found \subseteq Sentry
      BY <1>r DEF Registered
    <2> HIDE DEF f, events, kinds, found
    <2>2. /\ batch' \subseteq batch
          /\ UNCHANGED <<closed_, pollVars, io_state_, dtor, by, pc, wait_io_sentries_, sched,
                         timer, rpc, rcur, closerVars>>
      BY <1>2 DEF reactor_trigger, f, events
    <2>3. CASE UNCHANGED <<seen, tasks, pending_events_, fired, holders, rtodo, rheld>>
      <3>1. batch' \subseteq Fd \X Reports
        BY <1>r, <2>2
      <3> QED BY <2>2, <2>3, <3>1 DEF TypeOK
    <2>4. CASE /\ seen' = [seen EXCEPT ![f] = SeenAfter(f, events)]
               /\ tasks' = [tasks EXCEPT ![f] =
                              [k \in Kind |-> IF k \in kinds THEN [t \in Task |-> 0] ELSE @[k]]]
               /\ fired' = TriggerRevents(found, f)
               /\ holders' = [s \in Sentry |-> IF s \in found
                                               THEN holders[s] \cup {"reactor"}
                                               ELSE holders[s]]
               /\ rtodo' = rtodo \cup found
               /\ rheld' = rheld \cup found
               /\ pending_events_' =
                    [pending_events_ EXCEPT
                       ![f] = PendingAfter(f, IF "ERR" \in events THEN Events ELSE events)]
      <3>1. batch' \subseteq Fd \X Reports
        BY <1>r, <2>2
      <3>2. seen' \in [Fd -> SUBSET Events]
        <4>1. seen \in [Fd -> SUBSET Events]
          BY DEF TypeOK
        <4>2. SeenAfter(f, events) \subseteq Events
          BY <2>1, <4>1 DEF SeenAfter
        <4> QED BY <2>1, <2>4, <4>1, <4>2
      <3>3. tasks' \in [Fd -> [Kind -> [Task -> 0..MaxPoll]]]
        <4>1. tasks \in [Fd -> [Kind -> [Task -> 0..MaxPoll]]] /\ 0 \in 0..MaxPoll
          BY IoAssumption DEF TypeOK
        <4> QED BY <2>1, <2>4, <4>1
      <3>4. fired' \in [Sentry -> SUBSET Fd]
        <4>1. fired \in [Sentry -> SUBSET Fd]
          BY DEF TypeOK
        <4> QED BY <2>1, <2>4, <4>1 DEF TriggerRevents
      <3>5. holders' \in [Sentry -> SUBSET Holder]
        <4>1. holders \in [Sentry -> SUBSET Holder] /\ "reactor" \in Holder
          BY DEF TypeOK, Holder
        <4> QED BY <2>4, <4>1
      <3>6. pending_events_' \in [Fd -> SUBSET Events]
        <4>1. pending_events_ \in [Fd -> SUBSET Events]
          BY DEF TypeOK
        <4>2. \A e : PendingAfter(f, e) \subseteq Events
          BY <2>1, <4>1 DEF PendingAfter
        <4> QED BY <2>1, <2>4, <4>1, <4>2
      <3>7. rtodo' \subseteq rheld' /\ rheld' \subseteq Sentry
        BY <1>r, <2>1, <2>4
      <3> QED BY <2>2, <3>1, <3>2, <3>3, <3>4, <3>5, <3>6, <3>7 DEF TypeOK
    <2> QED BY <1>2, <2>3, <2>4 DEF reactor_trigger, f, events, kinds, found
  <1>3. ASSUME NEW s \in Sentry, ReactorFire(s) PROVE TypeOK'
    <2>1. /\ rtodo' \subseteq rheld /\ rpc' \in {"collect", "erase"}
          /\ rcur' \in Sentry \cup {NoSentry}
      BY <1>3, <1>r DEF ReactorFire
    <2>2. io_state_' \in [Sentry -> {"pending", "triggered"}]
      BY <1>3, CasType DEF ReactorFire
    <2>3. UNCHANGED <<fdVars, pollVars, fired, holders, dtor, by, pc, wait_io_sentries_, sched,
                      timer, batch, rheld, closerVars>>
      BY <1>3 DEF ReactorFire
    <2> QED BY <2>1, <2>2, <2>3 DEF TypeOK
  <1>4. CASE ReactorErase
    <2>1. rcur \in Sentry
      BY <1>4, <1>r DEF ReactorErase, ReactorInv
    <2>2. /\ pc' \in [Task -> {"idle", "add", "yield", "blocked", "runnable", "ret", "leave"}]
          /\ wait_io_sentries_' \subseteq Sentry
      BY <1>4, <2>1, EraseType DEF ReactorErase
    <2>3. /\ UNCHANGED <<fdVars, pollVars, sentryVars, sched, timer, batch, rtodo, rheld,
                         closerVars>>
          /\ rpc' = "collect" /\ rcur' = NoSentry
      BY <1>4 DEF ReactorErase
    <2> QED BY <2>2, <2>3 DEF TypeOK
  <1>5. ASSUME NEW s \in Sentry, ReactorRelease(s) PROVE TypeOK'
    <2>1. /\ holders' \in [Sentry -> SUBSET Holder] /\ dtor' \in [Sentry -> SUBSET Fd]
          /\ by' \in [Sentry -> Holder \cup {"none"}]
      BY <1>5, HoldType DEF ReactorRelease, Holder
    <2>2. rtodo' \subseteq rheld' /\ rheld' \subseteq Sentry
      BY <1>5, <1>r DEF ReactorRelease
    <2>3. UNCHANGED <<fdVars, pollVars, io_state_, fired, pc, wait_io_sentries_, sched, timer,
                      rpc, batch, rtodo, rcur, closerVars>>
      BY <1>5 DEF ReactorRelease
    <2> QED BY <2>1, <2>2, <2>3 DEF TypeOK
  <1>6. CASE ReactorDone
    <2>1. /\ UNCHANGED <<fdVars, pollVars, sentryVars, pc, wait_io_sentries_, sched, timer, batch,
                         rtodo, rheld, rcur, closerVars>>
          /\ rpc' = "idle"
      BY <1>6 DEF ReactorDone
    <2> QED BY <2>1 DEF TypeOK
  <1> QED BY <1>1, <1>2, <1>3, <1>4, <1>5, <1>6 DEF ReactorStep

\* The steps of close().
LEMMA CloserType ==
    ASSUME TypeOK, HolderInv, NEW c \in Closer, CloserStep(c) \/ \E f \in Fd : Close(c, f)
    PROVE  TypeOK'
  <1> USE DEF fdVars, pollVars, sentryVars, reactorVars, closerVars
  <1>p. cpc \in [Closer -> {"idle", "next", "fire", "erase", "release", "leave", "done"}]
    BY DEF TypeOK
  <1>d. ctodo \in [Closer -> SUBSET Sentry] /\ ccur \in [Closer -> Sentry \cup {NoSentry}]
    BY DEF TypeOK
  <1>f. cfd \in [Closer -> Fd] /\ cfd[c] \in Fd
    BY DEF TypeOK
  <1>h. c \in Holder
    BY DEF Holder
  <1>s. cpc[c] \in {"fire", "erase", "release"} => ccur[c] \in Sentry
    BY DEF HolderInv
  <1>1. ASSUME NEW f \in Fd, Close(c, f) PROVE TypeOK'
    <2>1. cpc' \in [Closer -> {"idle", "next", "fire", "erase", "release", "leave", "done"}]
      BY <1>1, <1>p DEF Close
    <2>2. cfd' \in [Closer -> Fd]
      BY <1>1, <1>f DEF Close
    <2>3. ctodo' \in [Closer -> SUBSET Sentry]
      BY <1>1, <1>d DEF Close
    <2>4. closed_' \in [Fd -> BOOLEAN]
      BY <1>1 DEF Close, TypeOK
    <2>5. pending_events_' \in [Fd -> SUBSET Events] /\ seen' \in [Fd -> SUBSET Events]
      BY <1>1 DEF Close, TypeOK
    <2>6. UNCHANGED <<tasks, pollVars, sentryVars, pc, wait_io_sentries_, sched, timer,
                      reactorVars, ccur>>
      BY <1>1 DEF Close
    <2> QED BY <2>1, <2>2, <2>3, <2>4, <2>5, <2>6 DEF TypeOK
  <1>2. ASSUME NEW s \in Sentry, CloseTake(c, s) PROVE TypeOK'
    <2>1. cpc' \in [Closer -> {"idle", "next", "fire", "erase", "release", "leave", "done"}]
      BY <1>2, <1>p DEF CloseTake
    <2>2. ctodo' \in [Closer -> SUBSET Sentry] /\ ccur' \in [Closer -> Sentry \cup {NoSentry}]
      BY <1>2, <1>d DEF CloseTake
    <2>3. fired' \in [Sentry -> SUBSET Fd]
      <3>1. fired \in [Sentry -> SUBSET Fd]
        BY DEF TypeOK
      <3> QED BY <1>2, <1>f, <3>1 DEF CloseTake
    <2>4. /\ holders' \in [Sentry -> SUBSET Holder] /\ dtor' \in [Sentry -> SUBSET Fd]
          /\ by' \in [Sentry -> Holder \cup {"none"}]
      <3>1. CASE Hold(s, c)
        BY <3>1, <1>h, HoldType
      <3>2. CASE UNCHANGED <<holders, dtor, by>>
        BY <3>2 DEF TypeOK
      <3> QED BY <1>2, <3>1, <3>2 DEF CloseTake
    <2>5. UNCHANGED <<fdVars, pollVars, io_state_, pc, timer, wait_io_sentries_, sched,
                      reactorVars, cfd>>
      BY <1>2 DEF CloseTake
    <2> QED BY <2>1, <2>2, <2>3, <2>4, <2>5 DEF TypeOK
  <1>3. CASE CloseFire(c)
    <2>1. cpc' \in [Closer -> {"idle", "next", "fire", "erase", "release", "leave", "done"}]
      BY <1>3, <1>p DEF CloseFire
    <2>2. io_state_' \in [Sentry -> {"pending", "triggered"}]
      BY <1>3, <1>s, CasType DEF CloseFire
    <2>3. UNCHANGED <<fdVars, pollVars, fired, holders, dtor, by, pc, wait_io_sentries_, sched,
                      timer, reactorVars, cfd, ctodo, ccur>>
      BY <1>3 DEF CloseFire
    <2> QED BY <2>1, <2>2, <2>3 DEF TypeOK
  <1>4. CASE CloseErase(c)
    <2>1. cpc' \in [Closer -> {"idle", "next", "fire", "erase", "release", "leave", "done"}]
      BY <1>4, <1>p DEF CloseErase
    <2>2. /\ pc' \in [Task -> {"idle", "add", "yield", "blocked", "runnable", "ret", "leave"}]
          /\ wait_io_sentries_' \subseteq Sentry
      BY <1>4, <1>s, EraseType DEF CloseErase
    <2>3. UNCHANGED <<fdVars, pollVars, sentryVars, sched, timer, reactorVars, cfd, ctodo, ccur>>
      BY <1>4 DEF CloseErase
    <2> QED BY <2>1, <2>2, <2>3 DEF TypeOK
  <1>5. CASE CloseRelease(c)
    <2>1. cpc' \in [Closer -> {"idle", "next", "fire", "erase", "release", "leave", "done"}]
      BY <1>5, <1>p DEF CloseRelease
    <2>2. /\ holders' \in [Sentry -> SUBSET Holder] /\ dtor' \in [Sentry -> SUBSET Fd]
          /\ by' \in [Sentry -> Holder \cup {"none"}]
      BY <1>5, <1>h, <1>s, HoldType DEF CloseRelease
    <2>3. UNCHANGED <<fdVars, pollVars, io_state_, fired, pc, wait_io_sentries_, sched, timer,
                      reactorVars, cfd, ctodo, ccur>>
      BY <1>5 DEF CloseRelease
    <2> QED BY <2>1, <2>2, <2>3 DEF TypeOK
  <1>6. CASE CloseLeave(c)
    <2>1. cpc' \in [Closer -> {"idle", "next", "fire", "erase", "release", "leave", "done"}]
      BY <1>6, <1>p DEF CloseLeave
    <2>2. UNCHANGED <<fdVars, pollVars, sentryVars, pc, wait_io_sentries_, sched, timer,
                      reactorVars, cfd, ctodo, ccur>>
      BY <1>6 DEF CloseLeave
    <2> QED BY <2>1, <2>2 DEF TypeOK
  <1>7. CASE CloseDone(c)
    <2>1. cpc' \in [Closer -> {"idle", "next", "fire", "erase", "release", "leave", "done"}]
      BY <1>7, <1>p DEF CloseDone
    <2>2. tasks' \in [Fd -> [Kind -> [Task -> 0..MaxPoll]]]
      <3>1. tasks \in [Fd -> [Kind -> [Task -> 0..MaxPoll]]] /\ 0 \in 0..MaxPoll
        BY IoAssumption DEF TypeOK
      <3> QED BY <1>7, <1>f, <3>1 DEF CloseDone
    <2>3. UNCHANGED <<closed_, pending_events_, seen, pollVars, sentryVars, pc, wait_io_sentries_,
                      sched, timer, reactorVars, cfd, ctodo, ccur>>
      BY <1>7 DEF CloseDone
    <2> QED BY <2>1, <2>2, <2>3 DEF TypeOK
  <1> QED BY <1>1, <1>2, <1>3, <1>4, <1>5, <1>6, <1>7 DEF CloserStep

\* Every step keeps the types.
LEMMA NextType == ASSUME IInv, [Next]_vars PROVE TypeOK'
  <1>i. TypeOK /\ PollInv /\ ReactorInv /\ HolderInv
    BY DEF IInv
  <1> USE DEF fdVars, pollVars, sentryVars, reactorVars, closerVars
  <1>1. ASSUME NEW f \in Fd, NEW e \in Events, ResetSeen(f, e) PROVE TypeOK'
    <2>1. seen' \in [Fd -> SUBSET Events]
      BY <1>i, <1>1 DEF ResetSeen, TypeOK
    <2>2. UNCHANGED <<closed_, pending_events_, tasks, pollVars, sentryVars, pc,
                      wait_io_sentries_, sched, timer, reactorVars, closerVars>>
      BY <1>1 DEF ResetSeen
    <2> QED BY <1>i, <2>1, <2>2 DEF TypeOK
  <1>2. CASE UNCHANGED vars
    BY <1>i, <1>2 DEF vars, TypeOK
  <1> QED BY <1>i, <1>1, <1>2, TaskType, SentryType, TimerType, ReactorType, CloserType DEF Next
-----------------------------------------------------------------------------
(* What epoll is asked for.                                                *)

\* Events that del_from_reactor drops have no set left that needs them.
LEMMA UnneededEmpty ==
    ASSUME NEW k \in Kind, NEW q
    PROVE  /\ "IN" \in Unneeded(k, q) => \A t \in Task : q["i"][t] = 0 /\ q["io"][t] = 0
           /\ "OUT" \in Unneeded(k, q) => \A t \in Task : q["o"][t] = 0 /\ q["io"][t] = 0
  <1>1. CASE k = "i"
    BY <1>1 DEF Unneeded, Events
  <1>2. CASE k = "o"
    BY <1>2 DEF Unneeded, Events
  <1>3. CASE k = "io"
    BY <1>3 DEF Unneeded, Events
  <1> QED BY <1>1, <1>2, <1>3 DEF Kind

\* A report empties the sets of the events it takes back.
LEMMA ReachedSets ==
    ASSUME NEW events
    PROVE  /\ "IN" \in events \/ "ERR" \in events => {"i", "io"} \subseteq Reached(events)
           /\ "OUT" \in events \/ "ERR" \in events => {"o", "io"} \subseteq Reached(events)
  <1>1. CASE "ERR" \in events
    BY <1>1 DEF Reached, Kind
  <1>2. CASE "ERR" \notin events
    <2> DEFINE S(e) == IF e = "IN" THEN {"i", "io"} ELSE {"o", "io"}
    <2>1. Reached(events) = UNION {S(e) : e \in events}
      BY <1>2 DEF Reached
    <2>2. \A e \in events : S(e) \subseteq Reached(events)
      BY <2>1
    <2>3. S("IN") = {"i", "io"} /\ S("OUT") = {"o", "io"}
      OBVIOUS
    <2> HIDE DEF S
    <2> QED BY <1>2, <2>2, <2>3
  <1> QED BY <1>1, <1>2

\* The sets and what epoll is asked for change together.
LEMMA NextInterest == ASSUME IInv, TypeOK', [Next]_vars PROVE InterestKept'
  <1> USE DEF fdVars, pollVars, sentryVars, reactorVars, closerVars
  <1>t. /\ tasks \in [Fd -> [Kind -> [Task -> 0..MaxPoll]]]
        /\ pending_events_ \in [Fd -> SUBSET Events] /\ closed_ \in [Fd -> BOOLEAN]
    BY DEF IInv, TypeOK
  <1>i. \A f \in Fd, u \in Task :
           ~closed_[f] =>
              /\ tasks[f]["i"][u] # 0 \/ tasks[f]["io"][u] # 0 => "IN" \in pending_events_[f]
              /\ tasks[f]["o"][u] # 0 \/ tasks[f]["io"][u] # 0 => "OUT" \in pending_events_[f]
    BY DEF IInv, InterestKept
  <1>k. Kind = {"i", "o", "io"}
    BY DEF Kind
  <1>o. ASSUME NEW f \in Fd, closed_'[f] = closed_[f],
               tasks'[f] = tasks[f], pending_events_'[f] = pending_events_[f]
        PROVE  \A u \in Task : ~closed_'[f] =>
                 /\ tasks'[f]["i"][u] # 0 \/ tasks'[f]["io"][u] # 0 => "IN" \in pending_events_'[f]
                 /\ tasks'[f]["o"][u] # 0 \/ tasks'[f]["io"][u] # 0 => "OUT" \in pending_events_'[f]
    BY <1>i, <1>o
  <1>s. ASSUME UNCHANGED <<closed_, tasks, pending_events_>> PROVE InterestKept'
    BY <1>i, <1>s DEF InterestKept
  <1>1. ASSUME NEW t \in Task, NEW f \in Fd, add_into_reactor(t, f) PROVE InterestKept'
    <2> DEFINE want == watch[Current(t)][f]
               k == ChooseSet(want)
    <2>1. pc[t] = "add" /\ f \in todo[t] /\ closed_' = closed_
      BY <1>1 DEF add_into_reactor
    <2>2. want # {} /\ want \subseteq Events
      <3>1. watch[Current(t)] \in PollArgs /\ f \in DOMAIN watch[Current(t)]
        BY <2>1 DEF IInv, PollInv
      <3> QED BY <3>1, IoAssumption DEF Events
    <2>3. \/ UNCHANGED <<tasks, pending_events_>>
          \/ /\ tasks' = [tasks EXCEPT ![f][k][t] = n[t]]
             /\ pending_events_' = [pending_events_ EXCEPT ![f] = @ \cup want]
      BY <1>1 DEF add_into_reactor
    <2>4. CASE /\ tasks' = [tasks EXCEPT ![f][k][t] = n[t]]
               /\ pending_events_' = [pending_events_ EXCEPT ![f] = @ \cup want]
      <3> HIDE DEF want
      <3>1. /\ k \in {"i", "o", "io"}
            /\ k \in {"i", "io"} => "IN" \in want
            /\ k \in {"o", "io"} => "OUT" \in want
        BY <2>2 DEF ChooseSet, Events
      <3> HIDE DEF k
      <3>2. TypeOK /\ n[t] \in 0..MaxPoll /\ k \in Kind
        BY <3>1 DEF IInv, TypeOK, Kind
      <3>3. \A g \in Fd, j \in Kind, u \in Task :
               tasks'[g][j][u] = IF g = f /\ j = k /\ u = t THEN n[t] ELSE tasks[g][j][u]
        <4>1. WritesEntry(f, k, t, n[t])
          BY <2>4 DEF WritesEntry
        <4> QED BY <3>2, <4>1, SetEntry
      <3>4. \A g \in Fd : pending_events_'[g] = IF g = f THEN pending_events_[g] \cup want
                                                ELSE pending_events_[g]
        BY <1>t, <2>4
      <3>5. ASSUME NEW g \in Fd, NEW u \in Task, ~closed_[g]
            PROVE  /\ tasks'[g]["i"][u] # 0 \/ tasks'[g]["io"][u] # 0 => "IN" \in pending_events_'[g]
                   /\ tasks'[g]["o"][u] # 0 \/ tasks'[g]["io"][u] # 0 => "OUT" \in pending_events_'[g]
        <4>1. /\ tasks[g]["i"][u] # 0 \/ tasks[g]["io"][u] # 0 => "IN" \in pending_events_[g]
              /\ tasks[g]["o"][u] # 0 \/ tasks[g]["io"][u] # 0 => "OUT" \in pending_events_[g]
          BY <1>i, <3>5
        <4>2. CASE g = f
          <5>1. pending_events_'[g] = pending_events_[g] \cup want
            BY <3>4, <4>2
          <5>2. \A j \in Kind : tasks'[g][j][u] # 0 => tasks[g][j][u] # 0 \/ j = k
            BY <3>3, <4>2
          <5> QED BY <1>k, <3>1, <4>1, <5>1, <5>2
        <4>3. CASE g # f
          BY <1>k, <3>3, <3>4, <4>1, <4>3
        <4> QED BY <4>2, <4>3
      <3> QED BY <2>1, <3>5 DEF InterestKept
    <2> QED BY <1>s, <2>1, <2>3, <2>4
  <1>2. ASSUME NEW s \in Sentry, NEW f \in Fd, Destroy(s, f) PROVE InterestKept'
    <2> DEFINE k == ChooseSet(watch[s][f])
               left == [tasks[f] EXCEPT ![k][s[1]] = 0]
    <2>1. k \in Kind /\ s[1] \in Task
      BY SentryPair DEF ChooseSet, Kind
    <2>2. /\ closed_' = closed_
          /\ \/ UNCHANGED <<tasks, pending_events_>>
             \/ /\ tasks' = [tasks EXCEPT ![f] = left]
                /\ pending_events_' = [pending_events_ EXCEPT
                                         ![f] = PendingAfter(f, Unneeded(k, left))]
      BY <1>2 DEF Destroy
    <2>3. CASE /\ tasks' = [tasks EXCEPT ![f] = left]
               /\ pending_events_' = [pending_events_ EXCEPT
                                        ![f] = PendingAfter(f, Unneeded(k, left))]
      <3>1. \A j \in Kind, u \in Task : left[j][u] # 0 => tasks[f][j][u] # 0
        BY <1>t, <2>1
      <3> HIDE DEF left, k
      <3>2. tasks'[f] = left /\ \A g \in Fd : g # f => tasks'[g] = tasks[g]
        BY <1>t, <2>3
      <3>3. /\ pending_events_'[f] = PendingAfter(f, Unneeded(k, left))
            /\ \A g \in Fd : g # f => pending_events_'[g] = pending_events_[g]
        BY <1>t, <2>3
      <3>4. PendingAfter(f, Unneeded(k, left)) \in
               {pending_events_[f], pending_events_[f] \ Unneeded(k, left)}
        BY DEF PendingAfter
      <3>5. ASSUME NEW u \in Task, ~closed_[f]
            PROVE  /\ left["i"][u] # 0 \/ left["io"][u] # 0 => "IN" \in pending_events_'[f]
                   /\ left["o"][u] # 0 \/ left["io"][u] # 0 => "OUT" \in pending_events_'[f]
        <4>1. /\ left["i"][u] # 0 \/ left["io"][u] # 0 => "IN" \in pending_events_[f]
              /\ left["o"][u] # 0 \/ left["io"][u] # 0 => "OUT" \in pending_events_[f]
          BY <1>i, <1>k, <3>1, <3>5
        <4>2. /\ left["i"][u] # 0 \/ left["io"][u] # 0 => "IN" \notin Unneeded(k, left)
              /\ left["o"][u] # 0 \/ left["io"][u] # 0 => "OUT" \notin Unneeded(k, left)
          BY <2>1, UnneededEmpty
        <4> QED BY <3>3, <3>4, <4>1, <4>2
      <3> QED BY <1>o, <2>2, <3>2, <3>3, <3>5 DEF InterestKept
    <2> QED BY <1>s, <2>2, <2>3
  <1>3. ASSUME NEW b \in batch, reactor_trigger(b[1], b[2]) PROVE InterestKept'
    <2> DEFINE f == b[1]
               events == b[2]
               kinds == Reached(events)
               gone == IF "ERR" \in events THEN Events ELSE events
    <2>1. f \in Fd
      BY DEF IInv, TypeOK
    <2>2. /\ "IN" \in gone => {"i", "io"} \subseteq kinds
          /\ "OUT" \in gone => {"o", "io"} \subseteq kinds
      BY ReachedSets
    <2> HIDE DEF gone, kinds
    <2>3. /\ closed_' = closed_
          /\ \/ UNCHANGED <<tasks, pending_events_>>
             \/ /\ tasks' = [tasks EXCEPT ![f] =
                               [k \in Kind |-> IF k \in kinds THEN [t \in Task |-> 0] ELSE @[k]]]
                /\ pending_events_' = [pending_events_ EXCEPT ![f] = PendingAfter(f, gone)]
      BY <1>3 DEF reactor_trigger, gone, kinds
    <2> HIDE DEF f, events
    <2>4. CASE /\ tasks' = [tasks EXCEPT ![f] =
                               [k \in Kind |-> IF k \in kinds THEN [t \in Task |-> 0] ELSE @[k]]]
               /\ pending_events_' = [pending_events_ EXCEPT ![f] = PendingAfter(f, gone)]
      <3>1. /\ \A g \in Fd : g # f => tasks'[g] = tasks[g]
            /\ \A j \in Kind, u \in Task :
                  tasks'[f][j][u] = IF j \in kinds THEN 0 ELSE tasks[f][j][u]
        BY <1>t, <2>1, <2>4
      <3>2. /\ pending_events_'[f] = PendingAfter(f, gone)
            /\ \A g \in Fd : g # f => pending_events_'[g] = pending_events_[g]
        BY <1>t, <2>1, <2>4
      <3>3. PendingAfter(f, gone) \in {pending_events_[f], pending_events_[f] \ gone}
        BY DEF PendingAfter
      <3>4. ASSUME NEW u \in Task, ~closed_[f]
            PROVE  /\ tasks'[f]["i"][u] # 0 \/ tasks'[f]["io"][u] # 0 => "IN" \in pending_events_'[f]
                   /\ tasks'[f]["o"][u] # 0 \/ tasks'[f]["io"][u] # 0 => "OUT" \in pending_events_'[f]
        BY <1>i, <1>k, <2>1, <2>2, <3>1, <3>2, <3>3, <3>4
      <3> QED BY <1>o, <2>1, <2>3, <3>1, <3>2, <3>4 DEF InterestKept
    <2> QED BY <1>s, <2>3, <2>4
  <1>4. ASSUME NEW c \in Closer, NEW f \in Fd, Close(c, f) PROVE InterestKept'
    <2>1. /\ closed_' = [closed_ EXCEPT ![f] = TRUE] /\ tasks' = tasks
          /\ pending_events_' = [pending_events_ EXCEPT ![f] = {}]
      BY <1>4 DEF Close
    <2>2. /\ closed_'[f]
          /\ \A g \in Fd : g # f => closed_'[g] = closed_[g] /\ tasks'[g] = tasks[g]
                                    /\ pending_events_'[g] = pending_events_[g]
      BY <1>t, <2>1
    <2> QED BY <1>o, <2>2 DEF InterestKept
  <1>5. ASSUME NEW c \in Closer, CloseDone(c) PROVE InterestKept'
    <2>1. /\ UNCHANGED <<closed_, pending_events_>> /\ cfd[c] \in Fd
          /\ tasks' = [tasks EXCEPT ![cfd[c]] = [k \in Kind |-> [t \in Task |-> 0]]]
      BY <1>5 DEF CloseDone, IInv, TypeOK
    <2>2. \A g \in Fd, j \in Kind, u \in Task : tasks'[g][j][u] # 0 => tasks[g][j][u] # 0
      BY <1>t, <2>1
    <2> QED BY <1>i, <1>k, <2>1, <2>2 DEF InterestKept
  <1>6. ASSUME NEW t \in Task,
               \/ \E w \in PollArgs : libgo_poll(t, w)
               \/ \E timed \in BOOLEAN : CoSwitch(t, timed)
               \/ PollResume(t) \/ PollReturn(t) \/ PollLeave(t) \/ SwitchPush(t)
        PROVE  InterestKept'
    BY <1>6, <1>s DEF libgo_poll, CoSwitch, PollResume, PollReturn, PollLeave, SwitchPush
  <1>7. ASSUME NEW s \in Sentry,
               \/ SwitchCheck(s) \/ SwitchErase(s) \/ SwitchRelease(s)
               \/ TimerList(s) \/ TimerFire(s) \/ TimerErase(s) \/ TimerDrop(s)
        PROVE  InterestKept'
    BY <1>7, <1>s DEF SwitchCheck, SwitchErase, SwitchRelease, TimerList, TimerFire, TimerErase,
                      TimerDrop
  <1>8. ASSUME \/ \E f \in Fd, events \in Reports : EpollWait(f, events)
               \/ \E s \in Sentry : ReactorFire(s) \/ ReactorRelease(s)
               \/ ReactorErase \/ ReactorDone
        PROVE  InterestKept'
    BY <1>8, <1>s DEF EpollWait, ReactorFire, ReactorRelease, ReactorErase, ReactorDone
  <1>9. ASSUME NEW c \in Closer,
               \/ \E s \in Sentry : CloseTake(c, s)
               \/ CloseFire(c) \/ CloseErase(c) \/ CloseRelease(c) \/ CloseLeave(c)
        PROVE  InterestKept'
    BY <1>9, <1>s DEF CloseTake, CloseFire, CloseErase, CloseRelease, CloseLeave
  <1>10. ASSUME NEW f \in Fd, NEW e \in Events, ResetSeen(f, e) PROVE InterestKept'
    BY <1>10, <1>s DEF ResetSeen
  <1>11. CASE UNCHANGED vars
    BY <1>11, <1>s DEF vars
  <1> QED BY <1>1, <1>2, <1>3, <1>4, <1>5, <1>6, <1>7, <1>8, <1>9, <1>10, <1>11
          DEF Next, TaskStep, SentryStep, TimerStep, ReactorStep, CloserStep
-----------------------------------------------------------------------------
(* The list of waiting sentries.                                           *)

\* Erasing a sentry wakes its task, if it was listed.
LEMMA EraseEffect ==
    ASSUME TypeOK, WokenOnce, NEW s \in Sentry, __IOBlockTriggered(s), n' = n
    PROVE  /\ WokenOnce' /\ s \notin wait_io_sentries_'
           /\ wait_io_sentries_' \subseteq wait_io_sentries_
           /\ \A t \in Task : \/ pc'[t] = pc[t]
                              \/ /\ pc[t] = "blocked" /\ pc'[t] = "runnable"
                                 /\ s = Current(t)
  <1>t. pc \in [Task -> {"idle", "add", "yield", "blocked", "runnable", "ret", "leave"}]
    BY DEF TypeOK
  <1>c. \A t \in Task : Current(t)' = Current(t) /\ Current(t)[1] = t
    BY DEF Current
  <1>w. \A z : z \in wait_io_sentries_ <=> \E t \in Task : pc[t] = "blocked" /\ z = Current(t)
    BY DEF WokenOnce
  <1>1. CASE s \in wait_io_sentries_
    <2>1. /\ wait_io_sentries_' = wait_io_sentries_ \ {s}
          /\ pc' = [pc EXCEPT ![s[1]] = "runnable"]
      BY <1>1 DEF __IOBlockTriggered
    <2>2. PICK t \in Task : pc[t] = "blocked" /\ s = Current(t)
      BY <1>1, <1>w
    <2>3. s[1] = t
      BY <1>c, <2>2
    <2>4. pc'[t] = "runnable" /\ \A u \in Task : u # t => pc'[u] = pc[u]
      BY <1>t, <2>1, <2>3
    <2>5. \A u \in Task : Current(u) = s => u = t
      BY <1>c, <2>2
    <2>6. \A z : z \in wait_io_sentries_'
                   <=> \E u \in Task : pc'[u] = "blocked" /\ z = Current(u)'
      BY <1>c, <1>w, <2>1, <2>2, <2>4, <2>5
    <2>7. WokenOnce'
      BY <2>6 DEF WokenOnce
    <2> QED BY <2>1, <2>2, <2>4, <2>7
  <1>2. CASE s \notin wait_io_sentries_
    <2>1. UNCHANGED <<wait_io_sentries_, pc>>
      BY <1>2 DEF __IOBlockTriggered
    <2>2. WokenOnce'
      BY <2>1, <1>c, <1>w DEF WokenOnce
    <2> QED BY <1>2, <2>1, <2>2
  <1> QED BY <1>1, <1>2

\* The list and the tasks' states change together.
LEMMA NextWoken == ASSUME IInv, [Next]_vars PROVE WokenOnce'
  <1> USE DEF fdVars, pollVars, sentryVars, reactorVars, closerVars
  <1>i. TypeOK /\ WokenOnce /\ PollInv
    BY DEF IInv
  <1>t. /\ pc \in [Task -> {"idle", "add", "yield", "blocked", "runnable", "ret", "leave"}]
        /\ n \in [Task -> 0..MaxPoll]
    BY DEF IInv, TypeOK
  <1>w. \A z : z \in wait_io_sentries_ <=> \E t \in Task : pc[t] = "blocked" /\ z = Current(t)
    BY <1>i DEF WokenOnce
  <1>s. ASSUME wait_io_sentries_' = wait_io_sentries_,
               \A t \in Task : pc'[t] = "blocked" <=> pc[t] = "blocked",
               \A t \in Task : pc[t] = "blocked" => n'[t] = n[t]
        PROVE  WokenOnce'
    <2>1. \A z : z \in wait_io_sentries_'
                   <=> \E t \in Task : pc'[t] = "blocked" /\ z = Current(t)'
      BY <1>s, <1>w DEF Current
    <2> QED BY <2>1 DEF WokenOnce
  <1>1. ASSUME NEW t \in Task, NEW w \in PollArgs, libgo_poll(t, w) PROVE WokenOnce'
    <2>1. /\ wait_io_sentries_' = wait_io_sentries_
          /\ \A u \in Task : u # t => pc'[u] = pc[u] /\ n'[u] = n[u]
          /\ pc[t] = "idle" /\ pc'[t] = "add"
      BY <1>1, <1>t DEF libgo_poll
    <2> QED BY <1>s, <2>1
  <1>2. ASSUME NEW t \in Task,
               \/ \E f \in Fd : add_into_reactor(t, f)
               \/ \E timed \in BOOLEAN : CoSwitch(t, timed)
               \/ PollResume(t) \/ PollReturn(t) \/ PollLeave(t)
        PROVE  WokenOnce'
    <2>1. /\ wait_io_sentries_' = wait_io_sentries_ /\ n' = n
          /\ \A u \in Task : pc'[u] = "blocked" <=> pc[u] = "blocked"
      BY <1>2, <1>t DEF add_into_reactor, CoSwitch, PollResume, PollReturn, PollLeave
    <2> QED BY <1>s, <2>1
  <1>3. ASSUME NEW t \in Task, SwitchPush(t) PROVE WokenOnce'
    <2>1. /\ wait_io_sentries_' = wait_io_sentries_ \cup {Current(t)} /\ n' = n
          /\ pc'[t] = "blocked" /\ \A u \in Task : u # t => pc'[u] = pc[u]
      BY <1>3, <1>t DEF SwitchPush
    <2>2. \A u \in Task : Current(u)' = Current(u)
      BY <2>1 DEF Current
    <2>3. \A z : z \in wait_io_sentries_'
                   <=> \E u \in Task : pc'[u] = "blocked" /\ z = Current(u)'
      BY <1>w, <2>1, <2>2
    <2> QED BY <2>3 DEF WokenOnce
  <1>4. ASSUME NEW s \in Sentry, SwitchErase(s) \/ TimerErase(s) PROVE WokenOnce'
    <2>1. __IOBlockTriggered(s) /\ n' = n
      BY <1>4 DEF SwitchErase, TimerErase
    <2> QED BY <1>i, <2>1, EraseEffect
  <1>5. CASE ReactorErase
    <2>1. __IOBlockTriggered(rcur) /\ n' = n /\ rcur \in Sentry
      BY <1>5 DEF ReactorErase, IInv, TypeOK, ReactorInv
    <2> QED BY <1>i, <2>1, EraseEffect
  <1>6. ASSUME NEW c \in Closer, CloseErase(c) PROVE WokenOnce'
    <2>1. __IOBlockTriggered(ccur[c]) /\ n' = n /\ ccur[c] \in Sentry
      BY <1>6 DEF CloseErase, IInv, HolderInv
    <2> QED BY <1>i, <2>1, EraseEffect
  <1>7. ASSUME UNCHANGED <<wait_io_sentries_, pc, n>> PROVE WokenOnce'
    BY <1>7, <1>s
  <1>8. ASSUME NEW s \in Sentry,
               \/ SwitchCheck(s) \/ SwitchRelease(s) \/ \E f \in Fd : Destroy(s, f)
               \/ TimerList(s) \/ TimerFire(s) \/ TimerDrop(s)
               \/ ReactorFire(s) \/ ReactorRelease(s)
        PROVE  WokenOnce'
    BY <1>7, <1>8 DEF SwitchCheck, SwitchRelease, Destroy, TimerList, TimerFire, TimerDrop,
                      ReactorFire, ReactorRelease
  <1>9. ASSUME \/ \E f \in Fd, events \in Reports : EpollWait(f, events)
               \/ \E b \in batch : reactor_trigger(b[1], b[2])
               \/ ReactorDone
        PROVE  WokenOnce'
    BY <1>7, <1>9 DEF EpollWait, reactor_trigger, ReactorDone
  <1>10. ASSUME NEW c \in Closer,
                \/ \E f \in Fd : Close(c, f)
                \/ \E s \in Sentry : CloseTake(c, s)
                \/ CloseFire(c) \/ CloseRelease(c) \/ CloseLeave(c) \/ CloseDone(c)
         PROVE  WokenOnce'
    BY <1>7, <1>10 DEF Close, CloseTake, CloseFire, CloseRelease, CloseLeave, CloseDone
  <1>11. ASSUME NEW f \in Fd, NEW e \in Events, ResetSeen(f, e) PROVE WokenOnce'
    BY <1>7, <1>11 DEF ResetSeen
  <1>12. CASE UNCHANGED vars
    BY <1>7, <1>12 DEF vars
  <1> QED BY <1>1, <1>2, <1>3, <1>4, <1>5, <1>6, <1>8, <1>9, <1>10, <1>11, <1>12
          DEF Next, TaskStep, SentryStep, TimerStep, ReactorStep, CloserStep

\* Where the reactor is.
LEMMA NextReactor == ASSUME IInv, [Next]_vars PROVE ReactorInv'
  <1> USE DEF fdVars, pollVars, sentryVars, reactorVars, closerVars
  <1>i. /\ rpc # "erase" <=> rcur = NoSentry
        /\ rcur # NoSentry => rcur \in rheld
        /\ rtodo \subseteq rheld
    BY DEF IInv, ReactorInv, TypeOK
  <1>1. ASSUME NEW f \in Fd, NEW events \in Reports, EpollWait(f, events) PROVE ReactorInv'
    BY <1>1, <1>i DEF EpollWait, ReactorInv
  <1>2. ASSUME NEW b \in batch, reactor_trigger(b[1], b[2]) PROVE ReactorInv'
    <2>1. UNCHANGED <<rpc, rcur>> /\ rheld \subseteq rheld'
      BY <1>2 DEF reactor_trigger
    <2> QED BY <1>i, <2>1 DEF ReactorInv
  <1>3. ASSUME NEW s \in Sentry, ReactorFire(s) PROVE ReactorInv'
    BY <1>3, <1>i, SentryPair DEF ReactorFire, ReactorInv
  <1>4. CASE ReactorErase \/ ReactorDone
    BY <1>4, <1>i DEF ReactorErase, ReactorDone, ReactorInv
  <1>5. ASSUME NEW s \in Sentry, ReactorRelease(s) PROVE ReactorInv'
    BY <1>5, <1>i DEF ReactorRelease, ReactorInv
  <1>6. ASSUME UNCHANGED <<rpc, rcur, rheld>> PROVE ReactorInv'
    BY <1>6, <1>i DEF ReactorInv
  <1>7. ASSUME NEW t \in Task,
               \/ \E w \in PollArgs : libgo_poll(t, w)
               \/ \E f \in Fd : add_into_reactor(t, f)
               \/ \E timed \in BOOLEAN : CoSwitch(t, timed)
               \/ PollResume(t) \/ PollReturn(t) \/ PollLeave(t) \/ SwitchPush(t)
        PROVE  ReactorInv'
    BY <1>6, <1>7 DEF libgo_poll, add_into_reactor, CoSwitch, PollResume, PollReturn, PollLeave,
                      SwitchPush
  <1>8. ASSUME NEW s \in Sentry,
               \/ SwitchCheck(s) \/ SwitchErase(s) \/ SwitchRelease(s)
               \/ \E f \in Fd : Destroy(s, f)
               \/ TimerList(s) \/ TimerFire(s) \/ TimerErase(s) \/ TimerDrop(s)
        PROVE  ReactorInv'
    BY <1>6, <1>8 DEF SwitchCheck, SwitchErase, SwitchRelease, Destroy, TimerList, TimerFire,
                      TimerErase, TimerDrop
  <1>9. ASSUME NEW c \in Closer,
               \/ \E f \in Fd : Close(c, f)
               \/ \E s \in Sentry : CloseTake(c, s)
               \/ CloseFire(c) \/ CloseErase(c) \/ CloseRelease(c) \/ CloseLeave(c)
               \/ CloseDone(c)
        PROVE  ReactorInv'
    BY <1>6, <1>9 DEF Close, CloseTake, CloseFire, CloseErase, CloseRelease, CloseLeave, CloseDone
  <1>10. ASSUME NEW f \in Fd, NEW e \in Events, ResetSeen(f, e) PROVE ReactorInv'
    BY <1>6, <1>10 DEF ResetSeen
  <1>11. CASE UNCHANGED vars
    BY <1>6, <1>11 DEF vars
  <1> QED BY <1>1, <1>2, <1>3, <1>4, <1>5, <1>7, <1>8, <1>9, <1>10, <1>11
          DEF Next, TaskStep, SentryStep, TimerStep, ReactorStep, CloserStep
-----------------------------------------------------------------------------
(* Shared pointers.                                                        *)

\* A step that gives s a new holder, or none at all.
LEMMA HoldStep ==
    ASSUME TypeOK, HolderInv, NEW s \in Sentry, NEW h \in Holder, Hold(s, h),
           by[s] = "none", s[2] <= n'[s[1]],
           \A z \in Sentry : z[2] > n'[z[1]] => z[2] > n[z[1]],
           \A z \in Sentry, g \in Holder : Uses(z, g)' => Uses(z, g) \/ (z = s /\ g = h),
           \A c \in Closer : cpc'[c] \in {"fire", "erase", "release"} => ccur'[c] \in Sentry,
           n' \in [Task -> 0..MaxPoll]
    PROVE  HolderInv'
  <1>t. holders \in [Sentry -> SUBSET Holder]
    BY DEF TypeOK
  <1>1. /\ holders'[s] = holders[s] \cup {h} /\ by' = by
        /\ \A z \in Sentry : z # s => holders'[z] = holders[z]
    BY <1>t DEF Hold
  <1>n. \A z \in Sentry : z[2] \in Nat /\ n'[z[1]] \in Nat
    BY SentryPair, IoAssumption
  <1>2. ASSUME NEW z \in Sentry
        PROVE  /\ \A g \in Holder : Uses(z, g)' => g \in holders'[z]
               /\ by'[z] # "none" => holders'[z] = {}
               /\ z[2] > n'[z[1]] => holders'[z] = {} /\ by'[z] = "none"
    <2>1. \A g \in Holder : Uses(z, g)' => g \in holders'[z]
      <3>1. \A g \in Holder : Uses(z, g) => g \in holders[z]
        BY DEF HolderInv
      <3> QED BY <1>1, <3>1
    <2>2. CASE z = s
      BY <1>1, <1>n, <2>1, <2>2
    <2>3. CASE z # s
      <3>1. /\ by[z] # "none" => holders[z] = {}
            /\ z[2] > n[z[1]] => holders[z] = {} /\ by[z] = "none"
        BY DEF HolderInv
      <3> QED BY <1>1, <2>1, <2>3, <3>1
    <2> QED BY <2>2, <2>3
  <1> QED BY <1>2 DEF HolderInv

\* A step that takes the pointer of h.
LEMMA ReleaseStep ==
    ASSUME TypeOK, HolderInv, NEW s \in Sentry, NEW h \in Holder, Release(s, h),
           h \in holders[s], n' = n,
           \A z \in Sentry, g \in Holder : Uses(z, g)' => Uses(z, g) /\ ~(z = s /\ g = h),
           \A c \in Closer : cpc'[c] \in {"fire", "erase", "release"} => ccur'[c] \in Sentry
    PROVE  HolderInv'
  <1>t. holders \in [Sentry -> SUBSET Holder] /\ by \in [Sentry -> Holder \cup {"none"}]
    BY DEF TypeOK
  <1>1. /\ holders'[s] = holders[s] \ {h} /\ (by'[s] = by[s] \/ holders[s] = {h})
        /\ \A z \in Sentry : z # s => holders'[z] = holders[z] /\ by'[z] = by[z]
    BY <1>t DEF Release
  <1>2. ASSUME NEW z \in Sentry
        PROVE  /\ \A g \in Holder : Uses(z, g)' => g \in holders'[z]
               /\ by'[z] # "none" => holders'[z] = {}
               /\ z[2] > n'[z[1]] => holders'[z] = {} /\ by'[z] = "none"
    <2>i. /\ \A g \in Holder : Uses(z, g) => g \in holders[z]
          /\ by[z] # "none" => holders[z] = {}
          /\ z[2] > n[z[1]] => holders[z] = {} /\ by[z] = "none"
      BY DEF HolderInv
    <2>1. \A g \in Holder : Uses(z, g)' => g \in holders'[z]
      BY <1>1, <2>i
    <2>2. CASE z = s
      <3>1. /\ ~(z[2] > n[z[1]]) /\ by[z] = "none"
        BY <2>i, <2>2
      <3> QED BY <1>1, <2>1, <2>2, <3>1
    <2>3. CASE z # s
      BY <1>1, <2>i, <2>1, <2>3
    <2> QED BY <2>2, <2>3
  <1> QED BY <1>2 DEF HolderInv

\* A step that leaves the pointers alone, or drops one that nobody needs.
LEMMA KeepStep ==
    ASSUME HolderInv, by' = by, n' = n,
           \A z \in Sentry : holders[z] = {} => holders'[z] = {},
           \A z \in Sentry, g \in Holder :
              Uses(z, g)' => Uses(z, g) /\ (g \in holders[z] => g \in holders'[z]),
           \A c \in Closer : cpc'[c] \in {"fire", "erase", "release"} => ccur'[c] \in Sentry
    PROVE  HolderInv'
  <1>1. ASSUME NEW z \in Sentry
        PROVE  /\ \A g \in Holder : Uses(z, g)' => g \in holders'[z]
               /\ by'[z] # "none" => holders'[z] = {}
               /\ z[2] > n'[z[1]] => holders'[z] = {} /\ by'[z] = "none"
    <2>i. /\ \A g \in Holder : Uses(z, g) => g \in holders[z]
          /\ by[z] # "none" => holders[z] = {}
          /\ z[2] > n[z[1]] => holders[z] = {} /\ by[z] = "none"
      BY DEF HolderInv
    <2> QED BY <2>i
  <1> QED BY <1>1 DEF HolderInv

\* The steps of a polling task.
LEMMA TaskHolder ==
    ASSUME IInv, TypeOK', NEW t \in Task,
           TaskStep(t) \/ \E w \in PollArgs : libgo_poll(t, w)
    PROVE  HolderInv'
  <1> USE DEF fdVars, pollVars, sentryVars, reactorVars, closerVars
  <1>i. TypeOK /\ HolderInv /\ PollInv
    BY DEF IInv
  <1>p. pc \in [Task -> {"idle", "add", "yield", "blocked", "runnable", "ret", "leave"}]
    BY <1>i DEF TypeOK
  <1>n. n \in [Task -> 0..MaxPoll] /\ n[t] \in 0..MaxPoll
    BY <1>i DEF TypeOK
  <1>c. pc[t] # "idle" => Current(t) \in Sentry /\ Current(t)[1] = t /\ Current(t)[2] = n[t]
    BY <1>i, CurrentSentry
  <1>h. /\ {"task", "sched", "timer"} \subseteq Holder
        /\ \A g \in Closer : g \notin {"task", "sched", "timer", "reactor"}
    BY IoAssumption DEF Holder
  <1>e. \A c \in Closer : cpc[c] \in {"fire", "erase", "release"} => ccur[c] \in Sentry
    BY <1>i DEF HolderInv
  <1>u. pc[t] \notin {"idle", "leave"} => "task" \in holders[Current(t)] /\ by[Current(t)] = "none"
    BY <1>c, <1>h, <1>i DEF HolderInv, Uses
  <1>1. ASSUME NEW w \in PollArgs, libgo_poll(t, w) PROVE HolderInv'
    <2> DEFINE s == <<t, n[t] + 1>>
    <2>1. /\ Hold(s, "task") /\ n' = [n EXCEPT ![t] = n[t] + 1] /\ pc[t] = "idle"
          /\ pc' = [pc EXCEPT ![t] = "add"] /\ n[t] < MaxPoll
          /\ UNCHANGED <<sched, timer, rheld, cpc, ccur>>
      BY <1>1 DEF libgo_poll
    <2>2. s \in Sentry /\ s[1] = t /\ s[2] = n[t] + 1
      BY <1>n, <2>1, IoAssumption DEF Sentry
    <2> HIDE DEF s
    <2>3. n'[t] = n[t] + 1 /\ \A u \in Task : u # t => n'[u] = n[u] /\ pc'[u] = pc[u]
      BY <1>n, <1>p, <2>1
    <2>4. by[s] = "none"
      <3>1. s[2] > n[s[1]]
        BY <1>n, <2>2
      <3> QED BY <1>i, <2>2, <3>1 DEF HolderInv
    <2>5. \A z \in Sentry : z[2] > n'[z[1]] => z[2] > n[z[1]]
      <3>1. \A z \in Sentry : z[1] \in Task /\ z[2] \in Nat /\ n[z[1]] \in Nat
        BY <1>n, SentryPair, IoAssumption
      <3> QED BY <2>3, <3>1
    <2>6. \A z \in Sentry, g \in Holder : Uses(z, g)' => Uses(z, g) \/ (z = s /\ g = "task")
      <3>1. ASSUME NEW z \in Sentry, pc'[z[1]] \notin {"idle", "leave"}, z = Current(z[1])'
            PROVE  z = s \/ Uses(z, "task")
        <4>1. z[1] \in Task
          BY SentryPair
        <4>2. CASE z[1] = t
          BY <2>3, <3>1, <4>2 DEF Current, s
        <4>3. CASE z[1] # t
          BY <2>3, <3>1, <4>1, <4>3 DEF Current, Uses
        <4> QED BY <4>2, <4>3
      <3> QED BY <2>1, <3>1 DEF Uses
    <2>7. n' \in [Task -> 0..MaxPoll] /\ s[2] <= n'[s[1]]
      BY <1>n, <2>2, <2>3 DEF TypeOK
    <2> QED BY <1>e, <1>h, <1>i, <2>1, <2>2, <2>4, <2>5, <2>6, <2>7, HoldStep
  <1>2. ASSUME NEW f \in Fd, add_into_reactor(t, f) PROVE HolderInv'
    <2>1. UNCHANGED <<holders, by, n, pc, sched, timer, rheld, cpc, ccur>>
      BY <1>2 DEF add_into_reactor
    <2>2. \A z \in Sentry, g \in Holder : Uses(z, g)' => Uses(z, g)
      BY <2>1 DEF Uses, Current
    <2> QED BY <1>e, <1>i, <2>1, <2>2, KeepStep
  <1>3. ASSUME NEW timed \in BOOLEAN, CoSwitch(t, timed) PROVE HolderInv'
    <2> DEFINE s == Current(t)
    <2>1. /\ pc[t] = "add" /\ pc' = [pc EXCEPT ![t] = pc'[t]]
          /\ pc'[t] \in {"yield", "ret"} /\ UNCHANGED <<n, sched, rheld, cpc, ccur>>
          /\ \/ timer' = [timer EXCEPT ![s] = "armed"] /\ Hold(s, "timer")
             \/ UNCHANGED <<timer, holders, by>>
      BY <1>3, <1>p DEF CoSwitch
    <2>2. \A z \in Sentry : Uses(z, "task")' => Uses(z, "task")
      <3>1. \A u \in Task : pc'[u] \notin {"idle", "leave"} => pc[u] \notin {"idle", "leave"}
        BY <1>p, <2>1
      <3>2. \A u \in Task : Current(u)' = Current(u)
        BY <2>1 DEF Current
      <3> QED BY <1>h, <3>1, <3>2, SentryPair DEF Uses
    <2>s. s \in Sentry /\ s[2] = n[t] /\ s[1] = t
      BY <1>c, <2>1
    <2>3. CASE UNCHANGED <<timer, holders, by>>
      <3>1. \A z \in Sentry, g \in Holder : Uses(z, g)' => Uses(z, g)
        BY <2>1, <2>2, <2>3 DEF Uses
      <3> QED BY <1>e, <1>i, <2>1, <2>3, <3>1, KeepStep
    <2>4. CASE timer' = [timer EXCEPT ![s] = "armed"] /\ Hold(s, "timer")
      <3> HIDE DEF s
      <3>1. \A z \in Sentry : z # s => timer'[z] = timer[z]
        <4>1. timer \in [Sentry -> {"none", "armed", "listed", "erase", "dead", "gone"}]
          BY <1>i DEF TypeOK
        <4> QED BY <2>4, <4>1
      <3>2. \A z \in Sentry, g \in Holder : Uses(z, g)' => Uses(z, g) \/ (z = s /\ g = "timer")
        BY <2>1, <2>2, <3>1 DEF Uses
      <3>3. by[s] = "none"
        BY <1>u, <2>1 DEF s
      <3>4. s[2] <= n'[s[1]] /\ \A z \in Sentry : z[2] > n'[z[1]] => z[2] > n[z[1]]
        BY <1>n, <2>s, <2>1
      <3>5. \A c \in Closer : cpc'[c] \in {"fire", "erase", "release"} => ccur'[c] \in Sentry
        BY <1>e, <2>1
      <3> QED BY <1>h, <1>i, <1>n, <2>1, <2>s, <2>4, <3>2, <3>3, <3>4, <3>5, HoldStep
    <2> QED BY <2>1, <2>3, <2>4
  <1>4. CASE PollResume(t)
    <2> DEFINE s == Current(t)
    <2>1. /\ pc[t] = "runnable" /\ pc' = [pc EXCEPT ![t] = "ret"]
          /\ UNCHANGED <<n, sched, rheld, cpc, ccur, by>>
          /\ \/ /\ timer' = [timer EXCEPT ![s] = "gone"]
                /\ holders' = [holders EXCEPT ![s] = @ \ {"timer"}]
             \/ /\ timer[s] \notin {"none", "gone"}
                /\ timer' = [timer EXCEPT ![s] = "dead"]
                /\ holders' = holders
             \/ UNCHANGED <<timer, holders>>
      BY <1>4 DEF PollResume
    <2>2. \A z \in Sentry : Uses(z, "task")' => Uses(z, "task")
      <3>1. \A u \in Task : pc'[u] \notin {"idle", "leave"} => pc[u] \notin {"idle", "leave"}
        BY <1>p, <2>1
      <3>2. \A u \in Task : Current(u)' = Current(u)
        BY <2>1 DEF Current
      <3> QED BY <1>h, <3>1, <3>2, SentryPair DEF Uses
    <2>s. s \in Sentry
      BY <1>c, <2>1
    <2>t. /\ timer \in [Sentry -> {"none", "armed", "listed", "erase", "dead", "gone"}]
          /\ holders \in [Sentry -> SUBSET Holder]
      BY <1>i DEF TypeOK
    <2> HIDE DEF s
    <2>3. /\ \A z \in Sentry : timer'[z] \notin {"none", "gone"} => timer[z] \notin {"none", "gone"}
          /\ \A z \in Sentry : holders[z] = {} => holders'[z] = {}
          /\ \A z \in Sentry, g \in Holder :
                g \in holders[z] => g \in holders'[z] \/ (g = "timer" /\ timer'[z] = "gone")
      BY <2>1, <2>s, <2>t
    <2>4. ASSUME NEW z \in Sentry, NEW g \in Holder, Uses(z, g)'
          PROVE  Uses(z, g) /\ (g \in holders[z] => g \in holders'[z])
      <3>1. Uses(z, g)
        BY <2>1, <2>2, <2>3, <2>4 DEF Uses
      <3>2. ~(g = "timer" /\ timer'[z] = "gone")
        BY <1>h, <2>4 DEF Uses
      <3> QED BY <2>3, <3>1, <3>2
    <2>5. \A c \in Closer : cpc'[c] \in {"fire", "erase", "release"} => ccur'[c] \in Sentry
      BY <1>e, <2>1
    <2> QED BY <1>i, <2>1, <2>3, <2>4, <2>5, KeepStep
  <1>5. CASE PollReturn(t)
    <2> DEFINE s == Current(t)
    <2>1. /\ pc[t] = "ret" /\ pc' = [pc EXCEPT ![t] = "leave"] /\ Release(s, "task")
          /\ UNCHANGED <<n, sched, timer, rheld, cpc, ccur>>
      BY <1>5 DEF PollReturn
    <2>s. s \in Sentry /\ "task" \in holders[s] /\ s[1] = t
      BY <1>c, <1>u, <2>1
    <2>2. \A u \in Task : u # t => pc'[u] = pc[u] /\ Current(u)' = Current(u)
      BY <1>p, <2>1 DEF Current
    <2>3. \A z \in Sentry, g \in Holder : Uses(z, g)' => Uses(z, g) /\ ~(z = s /\ g = "task")
      <3>1. ASSUME NEW z \in Sentry, Uses(z, "task")' PROVE Uses(z, "task") /\ z # s
        <4>1. z[1] \in Task /\ pc'[z[1]] \notin {"idle", "leave"} /\ z = Current(z[1])'
          BY <1>h, <3>1, SentryPair DEF Uses
        <4>2. z[1] # t
          BY <1>p, <2>1, <4>1
        <4> QED BY <2>2, <2>s, <4>1, <4>2 DEF Uses
      <3> QED BY <2>1, <3>1 DEF Uses
    <2> HIDE DEF s
    <2>4. \A c \in Closer : cpc'[c] \in {"fire", "erase", "release"} => ccur'[c] \in Sentry
      BY <1>e, <2>1
    <2> QED BY <1>h, <1>i, <2>1, <2>s, <2>3, <2>4, ReleaseStep
  <1>6. CASE PollLeave(t)
    <2>1. /\ UNCHANGED <<holders, by, n, sched, timer, rheld, cpc, ccur>>
          /\ pc' = [pc EXCEPT ![t] = "idle"]
      BY <1>6 DEF PollLeave
    <2>2. \A z \in Sentry, g \in Holder : Uses(z, g)' => Uses(z, g)
      <3>1. \A u \in Task : pc'[u] \notin {"idle", "leave"} => pc[u] \notin {"idle", "leave"}
        BY <1>p, <2>1
      <3>2. \A u \in Task : Current(u)' = Current(u)
        BY <2>1 DEF Current
      <3> QED BY <2>1, <3>1, <3>2, SentryPair DEF Uses
    <2> QED BY <1>e, <1>i, <2>1, <2>2, KeepStep
  <1>7. CASE SwitchPush(t)
    <2> DEFINE s == Current(t)
    <2>1. /\ pc[t] = "yield" /\ pc' = [pc EXCEPT ![t] = "blocked"]
          /\ sched' = [sched EXCEPT ![s] = "check"] /\ Hold(s, "sched")
          /\ UNCHANGED <<n, timer, rheld, cpc, ccur>>
      BY <1>7 DEF SwitchPush
    <2>s. s \in Sentry /\ s[2] = n[t] /\ s[1] = t /\ by[s] = "none"
      BY <1>c, <1>u, <2>1
    <2> HIDE DEF s
    <2>2. \A z \in Sentry : Uses(z, "task")' => Uses(z, "task")
      <3>1. \A u \in Task : pc'[u] \notin {"idle", "leave"} => pc[u] \notin {"idle", "leave"}
        BY <1>p, <2>1
      <3>2. \A u \in Task : Current(u)' = Current(u)
        BY <2>1 DEF Current
      <3> QED BY <1>h, <3>1, <3>2, SentryPair DEF Uses
    <2>3. \A z \in Sentry : z # s => sched'[z] = sched[z]
      <3>1. sched \in [Sentry -> {"none", "check", "erase", "release"}]
        BY <1>i DEF TypeOK
      <3> QED BY <2>1, <3>1
    <2>4. \A z \in Sentry, g \in Holder : Uses(z, g)' => Uses(z, g) \/ (z = s /\ g = "sched")
      BY <2>1, <2>2, <2>3 DEF Uses
    <2>5. s[2] <= n'[s[1]] /\ \A z \in Sentry : z[2] > n'[z[1]] => z[2] > n[z[1]]
      BY <1>n, <2>s, <2>1
    <2>6. \A c \in Closer : cpc'[c] \in {"fire", "erase", "release"} => ccur'[c] \in Sentry
      BY <1>e, <2>1
    <2> QED BY <1>h, <1>i, <1>n, <2>1, <2>s, <2>4, <2>5, <2>6, HoldStep
  <1> QED BY <1>1, <1>2, <1>3, <1>4, <1>5, <1>6, <1>7 DEF TaskStep

\* The steps of the scheduler thread, of destructors and of timers.
LEMMA SentryHolder ==
    ASSUME IInv, NEW s \in Sentry, SentryStep(s) \/ TimerStep(s) PROVE HolderInv'
  <1> USE DEF fdVars, pollVars, sentryVars, reactorVars, closerVars
  <1>i. TypeOK /\ HolderInv /\ WokenOnce
    BY DEF IInv
  <1>h. /\ {"sched", "timer"} \subseteq Holder
        /\ \A g \in Closer : g \notin {"task", "sched", "timer", "reactor"}
    BY IoAssumption DEF Holder
  <1>e. \A c \in Closer : cpc[c] \in {"fire", "erase", "release"} => ccur[c] \in Sentry
    BY <1>i DEF HolderInv
  <1>s. sched \in [Sentry -> {"none", "check", "erase", "release"}]
    BY <1>i DEF TypeOK
  <1>r. timer \in [Sentry -> {"none", "armed", "listed", "erase", "dead", "gone"}]
    BY <1>i DEF TypeOK
  <1>k. ASSUME UNCHANGED <<holders, by, n, rheld, cpc, ccur>>,
               \A u \in Task : pc'[u] \notin {"idle", "leave"} => pc[u] \notin {"idle", "leave"},
               \A z \in Sentry : sched'[z] # "none" => sched[z] # "none",
               \A z \in Sentry : timer'[z] \notin {"none", "gone"} => timer[z] \notin {"none", "gone"}
        PROVE  HolderInv'
    <2>1. \A u \in Task : Current(u)' = Current(u)
      BY <1>k DEF Current
    <2>2. \A z \in Sentry, g \in Holder : Uses(z, g)' => Uses(z, g)
      BY <1>k, <2>1, SentryPair DEF Uses
    <2> QED BY <1>e, <1>i, <1>k, <2>2, KeepStep
  <1>1. CASE SwitchCheck(s)
    <2>1. /\ UNCHANGED <<holders, by, n, rheld, cpc, ccur, pc, timer>>
          /\ \A z \in Sentry : sched'[z] # "none" => sched[z] # "none"
      BY <1>1, <1>s DEF SwitchCheck
    <2> QED BY <1>k, <2>1
  <1>2. CASE SwitchErase(s)
    <2>1. /\ UNCHANGED <<holders, by, n, rheld, cpc, ccur, timer>> /\ __IOBlockTriggered(s)
          /\ \A z \in Sentry : sched'[z] # "none" => sched[z] # "none"
      BY <1>2, <1>s DEF SwitchErase
    <2>2. \A u \in Task : pc'[u] \notin {"idle", "leave"} => pc[u] \notin {"idle", "leave"}
      BY <1>i, <2>1, EraseEffect
    <2> QED BY <1>k, <2>1, <2>2
  <1>3. CASE SwitchRelease(s)
    <2>1. /\ Release(s, "sched") /\ sched' = [sched EXCEPT ![s] = "none"] /\ sched[s] # "none"
          /\ UNCHANGED <<n, pc, timer, rheld, cpc, ccur>>
      BY <1>3 DEF SwitchRelease
    <2>2. "sched" \in holders[s]
      BY <1>h, <1>i, <2>1 DEF HolderInv, Uses
    <2>3. sched'[s] = "none" /\ \A z \in Sentry : z # s => sched'[z] = sched[z]
      BY <1>s, <2>1
    <2>4. \A z \in Sentry, g \in Holder : Uses(z, g)' => Uses(z, g) /\ ~(z = s /\ g = "sched")
      BY <1>h, <2>1, <2>3 DEF Uses, Current
    <2>5. \A c \in Closer : cpc'[c] \in {"fire", "erase", "release"} => ccur'[c] \in Sentry
      BY <1>e, <2>1
    <2> QED BY <1>h, <1>i, <2>1, <2>2, <2>4, <2>5, ReleaseStep
  <1>4. ASSUME NEW f \in Fd, Destroy(s, f) PROVE HolderInv'
    <2>1. UNCHANGED <<holders, by, n, rheld, cpc, ccur, pc, timer, sched>>
      BY <1>4 DEF Destroy
    <2> QED BY <1>k, <2>1
  <1>5. CASE TimerList(s) \/ TimerFire(s)
    <2>1. /\ UNCHANGED <<holders, by, n, rheld, cpc, ccur, pc, sched>>
          /\ \A z \in Sentry : timer'[z] \notin {"none", "gone"} => timer[z] \notin {"none", "gone"}
      BY <1>5, <1>r DEF TimerList, TimerFire
    <2> QED BY <1>k, <2>1
  <1>6. CASE TimerErase(s)
    <2>1. /\ UNCHANGED <<holders, by, n, rheld, cpc, ccur, sched>> /\ __IOBlockTriggered(s)
          /\ \A z \in Sentry : timer'[z] \notin {"none", "gone"} => timer[z] \notin {"none", "gone"}
      BY <1>6, <1>r DEF TimerErase
    <2>2. \A u \in Task : pc'[u] \notin {"idle", "leave"} => pc[u] \notin {"idle", "leave"}
      BY <1>i, <2>1, EraseEffect
    <2> QED BY <1>k, <2>1, <2>2
  <1>7. CASE TimerDrop(s)
    <2>1. /\ Release(s, "timer") /\ timer' = [timer EXCEPT ![s] = "gone"] /\ timer[s] = "dead"
          /\ UNCHANGED <<n, pc, sched, rheld, cpc, ccur>>
      BY <1>7 DEF TimerDrop
    <2>2. "timer" \in holders[s]
      BY <1>h, <1>i, <2>1 DEF HolderInv, Uses
    <2>3. timer'[s] = "gone" /\ \A z \in Sentry : z # s => timer'[z] = timer[z]
      BY <1>r, <2>1
    <2>4. \A z \in Sentry, g \in Holder : Uses(z, g)' => Uses(z, g) /\ ~(z = s /\ g = "timer")
      BY <1>h, <2>1, <2>3 DEF Uses, Current
    <2>5. \A c \in Closer : cpc'[c] \in {"fire", "erase", "release"} => ccur'[c] \in Sentry
      BY <1>e, <2>1
    <2> QED BY <1>h, <1>i, <2>1, <2>2, <2>4, <2>5, ReleaseStep
  <1> QED BY <1>1, <1>2, <1>3, <1>4, <1>5, <1>6, <1>7 DEF SentryStep, TimerStep

\* The steps of the reactor.
LEMMA ReactorHolder ==
    ASSUME IInv, ReactorStep \/ \E f \in Fd, events \in Reports : EpollWait(f, events)
    PROVE  HolderInv'
  <1> USE DEF fdVars, pollVars, sentryVars, reactorVars, closerVars
  <1>i. TypeOK /\ HolderInv /\ WokenOnce
    BY DEF IInv
  <1>h. /\ "reactor" \in Holder
        /\ \A g \in Closer : g \notin {"task", "sched", "timer", "reactor"}
    BY IoAssumption DEF Holder
  <1>e. \A c \in Closer : cpc[c] \in {"fire", "erase", "release"} => ccur[c] \in Sentry
    BY <1>i DEF HolderInv
  <1>k. ASSUME UNCHANGED <<holders, by, n, rheld, cpc, ccur, sched, timer>>,
               \A u \in Task : pc'[u] \notin {"idle", "leave"} => pc[u] \notin {"idle", "leave"}
        PROVE  HolderInv'
    <2>1. \A u \in Task : Current(u)' = Current(u)
      BY <1>k DEF Current
    <2>2. \A z \in Sentry, g \in Holder : Uses(z, g)' => Uses(z, g)
      BY <1>k, <2>1, SentryPair DEF Uses
    <2> QED BY <1>e, <1>i, <1>k, <2>2, KeepStep
  <1>1. ASSUME NEW f \in Fd, NEW events \in Reports, EpollWait(f, events) PROVE HolderInv'
    BY <1>1, <1>k DEF EpollWait
  <1>2. ASSUME NEW b \in batch, reactor_trigger(b[1], b[2]) PROVE HolderInv'
    <2> DEFINE found == Registered(b[1], Reached(b[2]))
    <2>1. /\ UNCHANGED <<by, n, pc, sched, timer, cpc, ccur>>
          /\ \/ UNCHANGED <<holders, rheld>>
             \/ /\ holders' = [z \in Sentry |-> IF z \in found
                                                THEN holders[z] \cup {"reactor"}
                                                ELSE holders[z]]
                /\ rheld' = rheld \cup found
      BY <1>2 DEF reactor_trigger
    <2>2. \A z \in found : z \in Sentry /\ holders[z] # {}
      BY DEF Registered
    <2> HIDE DEF found
    <2>3. CASE UNCHANGED <<holders, rheld>>
      BY <1>k, <2>1, <2>3
    <2>4. CASE /\ holders' = [z \in Sentry |-> IF z \in found
                                               THEN holders[z] \cup {"reactor"}
                                               ELSE holders[z]]
               /\ rheld' = rheld \cup found
      <3>1. \A z \in Sentry : holders'[z] = IF z \in found THEN holders[z] \cup {"reactor"}
                                            ELSE holders[z]
        BY <2>4
      <3>2. ASSUME NEW z \in Sentry, NEW g \in Holder, Uses(z, g)' PROVE g \in holders'[z]
        <4>1. Uses(z, g) \/ (g = "reactor" /\ z \in found)
          BY <2>1, <2>4, <3>2 DEF Uses, Current
        <4>2. Uses(z, g) => g \in holders[z]
          BY <1>i DEF HolderInv
        <4> QED BY <3>1, <4>1, <4>2
      <3>3. ASSUME NEW z \in Sentry
            PROVE  /\ by'[z] # "none" => holders'[z] = {}
                   /\ z[2] > n'[z[1]] => holders'[z] = {} /\ by'[z] = "none"
        <4>1. /\ by[z] # "none" => holders[z] = {}
              /\ z[2] > n[z[1]] => holders[z] = {} /\ by[z] = "none"
          BY <1>i DEF HolderInv
        <4>2. holders[z] = {} => holders'[z] = {}
          BY <2>2, <3>1
        <4> QED BY <2>1, <4>1, <4>2
      <3> QED BY <1>e, <2>1, <3>2, <3>3 DEF HolderInv
    <2> QED BY <2>1, <2>3, <2>4
  <1>3. ASSUME NEW s \in Sentry, ReactorFire(s) PROVE HolderInv'
    BY <1>3, <1>k DEF ReactorFire
  <1>4. CASE ReactorErase
    <2>1. /\ UNCHANGED <<holders, by, n, rheld, cpc, ccur, sched, timer>>
          /\ __IOBlockTriggered(rcur) /\ rcur \in Sentry
      BY <1>4 DEF ReactorErase, IInv, TypeOK, ReactorInv
    <2>2. \A u \in Task : pc'[u] \notin {"idle", "leave"} => pc[u] \notin {"idle", "leave"}
      BY <1>i, <2>1, EraseEffect
    <2> QED BY <1>k, <2>1, <2>2
  <1>5. ASSUME NEW s \in Sentry, ReactorRelease(s) PROVE HolderInv'
    <2>1. /\ Release(s, "reactor") /\ rheld' = rheld \ {s} /\ s \in rheld
          /\ UNCHANGED <<n, pc, sched, timer, cpc, ccur>>
      BY <1>5 DEF ReactorRelease
    <2>2. "reactor" \in holders[s]
      BY <1>h, <1>i, <2>1 DEF HolderInv, Uses
    <2>3. \A z \in Sentry, g \in Holder : Uses(z, g)' => Uses(z, g) /\ ~(z = s /\ g = "reactor")
      BY <1>h, <2>1 DEF Uses, Current
    <2>4. \A c \in Closer : cpc'[c] \in {"fire", "erase", "release"} => ccur'[c] \in Sentry
      BY <1>e, <2>1
    <2> QED BY <1>h, <1>i, <2>1, <2>2, <2>3, <2>4, ReleaseStep
  <1>6. CASE ReactorDone
    BY <1>6, <1>k DEF ReactorDone
  <1> QED BY <1>1, <1>2, <1>3, <1>4, <1>5, <1>6 DEF ReactorStep

\* The steps of close().
LEMMA CloserHolder ==
    ASSUME IInv, TypeOK', NEW c \in Closer, CloserStep(c) \/ \E f \in Fd : Close(c, f)
    PROVE  HolderInv'
  <1> USE DEF fdVars, pollVars, sentryVars, reactorVars, closerVars
  <1>i. TypeOK /\ HolderInv /\ WokenOnce
    BY DEF IInv
  <1>h. /\ c \in Holder /\ c \notin {"task", "sched", "timer", "reactor"}
    BY IoAssumption DEF Holder
  <1>e. \A d \in Closer : cpc[d] \in {"fire", "erase", "release"} => ccur[d] \in Sentry
    BY <1>i DEF HolderInv
  <1>p. /\ cpc \in [Closer -> {"idle", "next", "fire", "erase", "release", "leave", "done"}]
        /\ ccur \in [Closer -> Sentry \cup {NoSentry}]
    BY <1>i DEF TypeOK
  <1>k. ASSUME UNCHANGED <<holders, by, n, rheld, ccur, sched, timer>>,
               \A u \in Task : pc'[u] \notin {"idle", "leave"} => pc[u] \notin {"idle", "leave"},
               \A d \in Closer : cpc'[d] \in {"fire", "erase", "release"}
                                   => cpc[d] \in {"fire", "erase", "release"}
        PROVE  HolderInv'
    <2>1. \A u \in Task : Current(u)' = Current(u)
      BY <1>k DEF Current
    <2>2. \A z \in Sentry, g \in Holder : Uses(z, g)' => Uses(z, g)
      BY <1>k, <2>1, SentryPair DEF Uses
    <2> QED BY <1>e, <1>i, <1>k, <2>2, KeepStep
  <1>1. ASSUME NEW f \in Fd, Close(c, f) PROVE HolderInv'
    <2>1. /\ UNCHANGED <<holders, by, n, rheld, ccur, sched, timer, pc>>
          /\ cpc' = [cpc EXCEPT ![c] = "next"]
      BY <1>1 DEF Close
    <2>2. \A d \in Closer : cpc'[d] \in {"fire", "erase", "release"}
                              => cpc[d] \in {"fire", "erase", "release"}
      BY <1>p, <2>1
    <2> QED BY <1>k, <2>1, <2>2
  <1>2. ASSUME NEW s \in Sentry, CloseTake(c, s) PROVE HolderInv'
    <2>1. /\ UNCHANGED <<n, rheld, sched, timer, pc>>
          /\ \/ /\ holders[s] # {} /\ Hold(s, c)
                /\ cpc' = [cpc EXCEPT ![c] = "fire"] /\ ccur' = [ccur EXCEPT ![c] = s]
             \/ UNCHANGED <<holders, by, cpc, ccur>>
      BY <1>2 DEF CloseTake
    <2>2. CASE UNCHANGED <<holders, by, cpc, ccur>>
      BY <1>k, <2>1, <2>2
    <2>3. CASE /\ holders[s] # {} /\ Hold(s, c)
               /\ cpc' = [cpc EXCEPT ![c] = "fire"] /\ ccur' = [ccur EXCEPT ![c] = s]
      <3>1. /\ ccur'[c] = s /\ \A d \in Closer : d # c => cpc'[d] = cpc[d] /\ ccur'[d] = ccur[d]
        BY <1>p, <2>3
      <3>2. \A z \in Sentry, g \in Holder : Uses(z, g)' => Uses(z, g) \/ (z = s /\ g = c)
        BY <2>1, <3>1 DEF Uses, Current
      <3>3. by[s] = "none" /\ ~(s[2] > n[s[1]])
        BY <1>i, <2>3 DEF HolderInv
      <3>4. s[2] <= n'[s[1]]
        <4>1. s[2] \in Nat /\ n[s[1]] \in Nat
          BY <1>i, SentryPair, IoAssumption DEF TypeOK
        <4> QED BY <2>1, <3>3, <4>1
      <3>5. \A d \in Closer : cpc'[d] \in {"fire", "erase", "release"} => ccur'[d] \in Sentry
        BY <1>e, <3>1
      <3>6. n' \in [Task -> 0..MaxPoll] /\ \A z \in Sentry : z[2] > n'[z[1]] => z[2] > n[z[1]]
        BY <2>1 DEF TypeOK
      <3> QED BY <1>h, <1>i, <2>1, <2>3, <3>2, <3>3, <3>4, <3>5, <3>6, HoldStep
    <2> QED BY <2>1, <2>2, <2>3
  <1>3. CASE CloseFire(c)
    <2>1. /\ UNCHANGED <<holders, by, n, rheld, ccur, sched, timer, pc>>
          /\ \A d \in Closer : cpc'[d] \in {"fire", "erase", "release"}
                                 => cpc[d] \in {"fire", "erase", "release"}
      BY <1>3, <1>p DEF CloseFire
    <2> QED BY <1>k, <2>1
  <1>4. CASE CloseErase(c)
    <2>1. /\ UNCHANGED <<holders, by, n, rheld, ccur, sched, timer>>
          /\ __IOBlockTriggered(ccur[c]) /\ ccur[c] \in Sentry
          /\ \A d \in Closer : cpc'[d] \in {"fire", "erase", "release"}
                                 => cpc[d] \in {"fire", "erase", "release"}
      BY <1>4, <1>e, <1>p DEF CloseErase
    <2>2. \A u \in Task : pc'[u] \notin {"idle", "leave"} => pc[u] \notin {"idle", "leave"}
      BY <1>i, <2>1, EraseEffect
    <2> QED BY <1>k, <2>1, <2>2
  <1>5. CASE CloseRelease(c)
    <2>1. /\ Release(ccur[c], c) /\ cpc' = [cpc EXCEPT ![c] = "leave"] /\ cpc[c] = "release"
          /\ UNCHANGED <<n, pc, sched, timer, rheld, ccur>>
      BY <1>5 DEF CloseRelease
    <2>2. ccur[c] \in Sentry /\ c \in holders[ccur[c]]
      BY <1>e, <1>h, <1>i, <2>1 DEF HolderInv, Uses
    <2>3. cpc'[c] = "leave" /\ \A d \in Closer : d # c => cpc'[d] = cpc[d]
      BY <1>p, <2>1
    <2>4. \A z \in Sentry, g \in Holder : Uses(z, g)' => Uses(z, g) /\ ~(z = ccur[c] /\ g = c)
      BY <1>h, <2>1, <2>3 DEF Uses, Current
    <2>5. \A d \in Closer : cpc'[d] \in {"fire", "erase", "release"} => ccur'[d] \in Sentry
      BY <1>e, <2>1, <2>3
    <2> QED BY <1>h, <1>i, <2>1, <2>2, <2>4, <2>5, ReleaseStep
  <1>6. CASE CloseLeave(c) \/ CloseDone(c)
    <2>1. /\ UNCHANGED <<holders, by, n, rheld, ccur, sched, timer, pc>>
          /\ \A d \in Closer : cpc'[d] \in {"fire", "erase", "release"}
                                 => cpc[d] \in {"fire", "erase", "release"}
      BY <1>6, <1>p DEF CloseLeave, CloseDone
    <2> QED BY <1>k, <2>1
  <1> QED BY <1>1, <1>2, <1>3, <1>4, <1>5, <1>6 DEF CloserStep

\* Every step keeps the pointers of those who work with a sentry.
LEMMA NextHolder == ASSUME IInv, TypeOK', [Next]_vars PROVE HolderInv'
  <1>i. HolderInv
    BY DEF IInv
  <1>k. ASSUME UNCHANGED <<holders, by, n, rheld, cpc, ccur, sched, timer, pc>>
        PROVE  HolderInv'
    <2>1. \A z \in Sentry, g \in Holder : Uses(z, g)' => Uses(z, g)
      BY <1>k DEF Uses, Current
    <2> QED BY <1>i, <1>k, <2>1, KeepStep DEF HolderInv
  <1>1. ASSUME NEW f \in Fd, NEW e \in Events, ResetSeen(f, e) PROVE HolderInv'
    BY <1>1, <1>k DEF ResetSeen, pollVars, sentryVars, reactorVars, closerVars
  <1>2. CASE UNCHANGED vars
    BY <1>2, <1>k DEF vars, pollVars, sentryVars, reactorVars, closerVars
  <1> QED BY <1>1, <1>2, TaskHolder, SentryHolder, ReactorHolder, CloserHolder DEF Next
-----------------------------------------------------------------------------
(* Triggers.                                                               *)

\* What no step takes back: a triggered sentry, its revents, that it had a
\* timer, and the sentry of a poll in progress.
LEMMA NextMono ==
    ASSUME IInv, [Next]_vars
    PROVE  /\ \A s \in Sentry : /\ fired[s] \subseteq fired'[s]
                                /\ io_state_[s] = "triggered" => io_state_'[s] = "triggered"
                                /\ timer[s] # "none" => timer'[s] # "none"
           /\ \A t \in Task : pc[t] # "idle" => n'[t] = n[t]
  <1> USE DEF fdVars, pollVars, sentryVars, reactorVars, closerVars
  <1> DEFINE Mono == /\ \A s \in Sentry :
                           /\ fired[s] \subseteq fired'[s]
                           /\ io_state_[s] = "triggered" => io_state_'[s] = "triggered"
                           /\ timer[s] # "none" => timer'[s] # "none"
                     /\ \A t \in Task : pc[t] # "idle" => n'[t] = n[t]
  <1>i. TypeOK
    BY DEF IInv
  <1>f. fired \in [Sentry -> SUBSET Fd]
    BY DEF IInv, TypeOK
  <1>r. timer \in [Sentry -> {"none", "armed", "listed", "erase", "dead", "gone"}]
    BY DEF IInv, TypeOK
  <1>n. n \in [Task -> 0..MaxPoll]
    BY DEF IInv, TypeOK
  <1>u. UNCHANGED <<fired, io_state_, timer, n>> => Mono
    OBVIOUS
  <1>1. ASSUME NEW t \in Task, NEW w \in PollArgs, libgo_poll(t, w) PROVE Mono
    BY <1>1, <1>n DEF libgo_poll
  <1>2. ASSUME NEW t \in Task, NEW f \in Fd, add_into_reactor(t, f) PROVE Mono
    <2>1. UNCHANGED <<io_state_, timer, n>> /\ \A s \in Sentry : fired[s] \subseteq fired'[s]
      BY <1>2, <1>f DEF add_into_reactor
    <2> QED BY <2>1
  <1>3. ASSUME NEW t \in Task,
               PollResume(t) \/ \E timed \in BOOLEAN : CoSwitch(t, timed)
        PROVE  Mono
    <2>1. /\ UNCHANGED <<fired, io_state_, n>>
          /\ \A s \in Sentry : timer[s] # "none" => timer'[s] # "none"
      BY <1>3, <1>r DEF CoSwitch, PollResume
    <2> QED BY <2>1
  <1>4. ASSUME NEW t \in Task, PollReturn(t) \/ PollLeave(t) \/ SwitchPush(t) PROVE Mono
    BY <1>4, <1>u DEF PollReturn, PollLeave, SwitchPush
  <1>5. ASSUME NEW s \in Sentry, SentryStep(s) PROVE Mono
    BY <1>5, <1>u DEF SentryStep, SwitchCheck, SwitchErase, SwitchRelease, Destroy
  <1>6. ASSUME NEW s \in Sentry, TimerStep(s) PROVE Mono
    <2>1. UNCHANGED <<fired, n>> /\ \A z \in Sentry : timer[z] # "none" => timer'[z] # "none"
      BY <1>6, <1>r DEF TimerStep, TimerList, TimerFire, TimerErase, TimerDrop
    <2>2. io_state_' = io_state_ \/ Cas(s) \/ CasFails(s)
      BY <1>6 DEF TimerStep, TimerList, TimerFire, TimerErase, TimerDrop
    <2> QED BY <1>i, <2>1, <2>2, CasType
  <1>7. ASSUME NEW b \in batch, reactor_trigger(b[1], b[2]) PROVE Mono
    <2>1. UNCHANGED <<io_state_, timer, n>> /\ \A s \in Sentry : fired[s] \subseteq fired'[s]
      BY <1>7, <1>f DEF reactor_trigger, TriggerRevents
    <2> QED BY <2>1
  <1>8. ASSUME NEW s \in Sentry, ReactorFire(s) PROVE Mono
    <2>1. UNCHANGED <<fired, timer, n>> /\ (Cas(s) \/ CasFails(s))
      BY <1>8 DEF ReactorFire
    <2> QED BY <1>i, <2>1, CasType
  <1>9. ASSUME \/ \E s \in Sentry : ReactorRelease(s)
               \/ ReactorErase \/ ReactorDone
               \/ \E f \in Fd, events \in Reports : EpollWait(f, events)
        PROVE  Mono
    BY <1>9, <1>u DEF ReactorRelease, ReactorErase, ReactorDone, EpollWait
  <1>10. ASSUME NEW c \in Closer, NEW s \in Sentry, CloseTake(c, s) PROVE Mono
    <2>1. UNCHANGED <<io_state_, timer, n>> /\ \A z \in Sentry : fired[z] \subseteq fired'[z]
      BY <1>10, <1>f DEF CloseTake
    <2> QED BY <2>1
  <1>11. ASSUME NEW c \in Closer, CloseFire(c) PROVE Mono
    <2>1. /\ UNCHANGED <<fired, timer, n>> /\ (Cas(ccur[c]) \/ CasFails(ccur[c]))
          /\ ccur[c] \in Sentry
      BY <1>11 DEF CloseFire, IInv, HolderInv
    <2> QED BY <1>i, <2>1, CasType
  <1>12. ASSUME NEW c \in Closer,
                \/ \E f \in Fd : Close(c, f)
                \/ CloseErase(c) \/ CloseRelease(c) \/ CloseLeave(c) \/ CloseDone(c)
         PROVE  Mono
    BY <1>12, <1>u DEF Close, CloseErase, CloseRelease, CloseLeave, CloseDone
  <1>13. ASSUME NEW f \in Fd, NEW e \in Events, ResetSeen(f, e) PROVE Mono
    BY <1>13, <1>u DEF ResetSeen
  <1>14. ASSUME UNCHANGED vars PROVE Mono
    BY <1>14, <1>u DEF vars
  <1> HIDE DEF Mono
  <1>15. ASSUME NEW t \in Task, TaskStep(t) PROVE Mono
    BY <1>2, <1>3, <1>4, <1>15 DEF TaskStep
  <1>16. ASSUME ReactorStep PROVE Mono
    BY <1>7, <1>8, <1>9, <1>16 DEF ReactorStep
  <1>17. ASSUME NEW c \in Closer, CloserStep(c) PROVE Mono
    BY <1>10, <1>11, <1>12, <1>17 DEF CloserStep
  <1>18. ASSUME NEW f \in Fd, NEW events \in Reports, EpollWait(f, events) PROVE Mono
    BY <1>9, <1>18
  <1>19. ASSUME NEW c \in Closer, NEW f \in Fd, Close(c, f) PROVE Mono
    BY <1>12, <1>19
  <1>20. ASSUME Next PROVE Mono
    BY <1>1, <1>5, <1>6, <1>13, <1>15, <1>16, <1>17, <1>18, <1>19, <1>20 DEF Next
  <1>21. Mono
    BY <1>14, <1>20
  <1> QED BY <1>21 DEF Mono

\* Whose revents is set, and who is on his way to erase.
LEMMA NextTrigger == ASSUME IInv, [Next]_vars PROVE TriggerInv'
  <1> USE DEF fdVars, pollVars, sentryVars, reactorVars, closerVars
  <1>t. TypeOK
    BY DEF IInv
  <1>i. /\ \A s \in Sentry :
              /\ io_state_[s] = "triggered" => fired[s] # {} \/ timer[s] # "none"
              /\ s \in rtodo => fired[s] # {}
              /\ sched[s] = "erase" \/ timer[s] = "erase" \/ rcur = s
                    => io_state_[s] = "triggered"
        /\ \A c \in Closer : /\ cpc[c] = "fire" => fired[ccur[c]] # {}
                             /\ cpc[c] = "erase" => io_state_[ccur[c]] = "triggered"
    BY DEF IInv, TriggerInv
  <1>e. \A c \in Closer : cpc[c] \in {"fire", "erase", "release"} => ccur[c] \in Sentry
    BY DEF IInv, HolderInv
  <1>m. \A s \in Sentry : /\ fired[s] # {} => fired'[s] # {}
                          /\ io_state_[s] = "triggered" => io_state_'[s] = "triggered"
                          /\ timer[s] # "none" => timer'[s] # "none"
    BY NextMono
  <1>r. timer \in [Sentry -> {"none", "armed", "listed", "erase", "dead", "gone"}]
    BY <1>t DEF TypeOK
  <1>s. sched \in [Sentry -> {"none", "check", "erase", "release"}]
    BY <1>t DEF TypeOK
  <1>p. /\ cpc \in [Closer -> {"idle", "next", "fire", "erase", "release", "leave", "done"}]
        /\ ccur \in [Closer -> Sentry \cup {NoSentry}]
    BY <1>t DEF TypeOK
  <1>g. ASSUME \A s \in Sentry : io_state_'[s] = "triggered"
                                   => io_state_[s] = "triggered" \/ fired[s] # {} \/ timer'[s] # "none",
               \A s \in Sentry : s \in rtodo' => s \in rtodo \/ fired'[s] # {},
               \A s \in Sentry : sched'[s] = "erase" \/ timer'[s] = "erase" \/ rcur' = s
                                   => \/ sched[s] = "erase" \/ timer[s] = "erase" \/ rcur = s
                                      \/ io_state_'[s] = "triggered",
               \A c \in Closer : cpc'[c] = "fire"
                                   => \/ cpc[c] = "fire" /\ ccur'[c] = ccur[c]
                                      \/ fired'[ccur'[c]] # {},
               \A c \in Closer : cpc'[c] = "erase"
                                   => \/ cpc[c] = "erase" /\ ccur'[c] = ccur[c]
                                      \/ io_state_'[ccur'[c]] = "triggered"
        PROVE  TriggerInv'
    <2>1. \A s \in Sentry : io_state_'[s] = "triggered" => fired'[s] # {} \/ timer'[s] # "none"
      BY <1>g, <1>i, <1>m
    <2>2. \A s \in Sentry : s \in rtodo' => fired'[s] # {}
      BY <1>g, <1>i, <1>m
    <2>3. \A s \in Sentry : sched'[s] = "erase" \/ timer'[s] = "erase" \/ rcur' = s
                              => io_state_'[s] = "triggered"
      BY <1>g, <1>i, <1>m
    <2>4. \A c \in Closer : cpc'[c] = "fire" => fired'[ccur'[c]] # {}
      BY <1>e, <1>g, <1>i, <1>m
    <2>5. \A c \in Closer : cpc'[c] = "erase" => io_state_'[ccur'[c]] = "triggered"
      BY <1>e, <1>g, <1>i, <1>m
    <2> QED BY <2>1, <2>2, <2>3, <2>4, <2>5 DEF TriggerInv
  <1>1. ASSUME NEW t \in Task, TaskStep(t) \/ \E w \in PollArgs : libgo_poll(t, w)
        PROVE  TriggerInv'
    <2>1. UNCHANGED <<io_state_, rtodo, rcur, cpc, ccur>>
      BY <1>1 DEF TaskStep, libgo_poll, add_into_reactor, CoSwitch, PollResume, PollReturn,
                  PollLeave, SwitchPush
    <2>2. \A s \in Sentry : timer'[s] = "erase" => timer[s] = "erase"
      BY <1>1, <1>r DEF TaskStep, libgo_poll, add_into_reactor, CoSwitch, PollResume, PollReturn,
                        PollLeave, SwitchPush
    <2>3. \A s \in Sentry : sched'[s] = "erase" => sched[s] = "erase"
      BY <1>1, <1>s DEF TaskStep, libgo_poll, add_into_reactor, CoSwitch, PollResume, PollReturn,
                        PollLeave, SwitchPush
    <2> QED BY <1>g, <2>1, <2>2, <2>3
  <1>2. ASSUME NEW s \in Sentry, SentryStep(s) PROVE TriggerInv'
    <2>1. UNCHANGED <<io_state_, rtodo, rcur, cpc, ccur, timer>>
      BY <1>2 DEF SentryStep, SwitchCheck, SwitchErase, SwitchRelease, Destroy
    <2>2. \A z \in Sentry : sched'[z] = "erase" => sched[z] = "erase" \/ io_state_[z] = "triggered"
      BY <1>2, <1>s DEF SentryStep, SwitchCheck, SwitchErase, SwitchRelease, Destroy
    <2> QED BY <1>g, <2>1, <2>2
  <1>3. ASSUME NEW s \in Sentry, TimerFire(s) PROVE TriggerInv'
    <2>1. /\ UNCHANGED <<rtodo, rcur, cpc, ccur, sched, fired>>
          /\ timer'[s] # "none" /\ \A z \in Sentry : z # s => timer'[z] = timer[z]
          /\ Cas(s) \/ CasFails(s)
      BY <1>3, <1>r DEF TimerFire
    <2>2. /\ io_state_'[s] = "triggered"
          /\ \A z \in Sentry : z # s => io_state_'[z] = io_state_[z]
      BY <1>t, <2>1, CasType
    <2> QED BY <1>g, <2>1, <2>2
  <1>4. ASSUME NEW s \in Sentry, TimerList(s) \/ TimerErase(s) \/ TimerDrop(s) PROVE TriggerInv'
    <2>1. /\ UNCHANGED <<io_state_, rtodo, rcur, cpc, ccur, sched>>
          /\ \A z \in Sentry : timer'[z] = "erase" => timer[z] = "erase"
      BY <1>4, <1>r DEF TimerList, TimerErase, TimerDrop
    <2> QED BY <1>g, <2>1
  <1>5. ASSUME NEW b \in batch, reactor_trigger(b[1], b[2]) PROVE TriggerInv'
    <2> DEFINE found == Registered(b[1], Reached(b[2]))
    <2>1. /\ UNCHANGED <<io_state_, rcur, cpc, ccur, sched, timer>>
          /\ \/ rtodo' = rtodo
             \/ rtodo' = rtodo \cup found /\ fired' = TriggerRevents(found, b[1])
      BY <1>5 DEF reactor_trigger
    <2> HIDE DEF found
    <2>2. \A s \in Sentry : s \in rtodo' => s \in rtodo \/ fired'[s] # {}
      BY <2>1 DEF TriggerRevents
    <2> QED BY <1>g, <2>1, <2>2
  <1>6. ASSUME NEW s \in Sentry, ReactorFire(s) PROVE TriggerInv'
    <2>1. /\ UNCHANGED <<cpc, ccur, sched, timer, fired>> /\ rtodo' \subseteq rtodo
          /\ s \in rtodo /\ rcur' \in {rcur, s} /\ (Cas(s) \/ CasFails(s))
      BY <1>6 DEF ReactorFire
    <2>2. /\ io_state_'[s] = "triggered" /\ fired[s] # {}
          /\ \A z \in Sentry : z # s => io_state_'[z] = io_state_[z]
      BY <1>i, <1>t, <2>1, CasType
    <2> QED BY <1>g, <2>1, <2>2
  <1>7. ASSUME \/ ReactorErase \/ ReactorDone
               \/ \E s \in Sentry : ReactorRelease(s)
               \/ \E f \in Fd, events \in Reports : EpollWait(f, events)
        PROVE  TriggerInv'
    <2>1. /\ UNCHANGED <<io_state_, rtodo, cpc, ccur, sched, timer>>
          /\ rcur' \in {rcur, NoSentry}
      BY <1>7 DEF ReactorErase, ReactorDone, ReactorRelease, EpollWait
    <2> QED BY <1>g, <2>1, SentryPair
  <1>8. ASSUME NEW c \in Closer, NEW s \in Sentry, CloseTake(c, s) PROVE TriggerInv'
    <2>1. UNCHANGED <<io_state_, rtodo, rcur, sched, timer>>
      BY <1>8 DEF CloseTake
    <2>2. \/ UNCHANGED <<cpc, ccur>>
          \/ /\ fired' = [fired EXCEPT ![s] = @ \cup {cfd[c]}]
             /\ cpc' = [cpc EXCEPT ![c] = "fire"] /\ ccur' = [ccur EXCEPT ![c] = s]
      BY <1>8 DEF CloseTake
    <2>3. CASE UNCHANGED <<cpc, ccur>>
      BY <1>g, <2>1, <2>3
    <2>4. CASE /\ fired' = [fired EXCEPT ![s] = @ \cup {cfd[c]}]
               /\ cpc' = [cpc EXCEPT ![c] = "fire"] /\ ccur' = [ccur EXCEPT ![c] = s]
      <3>1. /\ cpc'[c] = "fire" /\ ccur'[c] = s
            /\ \A d \in Closer : d # c => cpc'[d] = cpc[d] /\ ccur'[d] = ccur[d]
        BY <1>p, <2>4
      <3>2. fired'[s] # {}
        <4>1. fired \in [Sentry -> SUBSET Fd]
          BY <1>t DEF TypeOK
        <4>2. cfd[c] \in fired'[s]
          BY <2>4, <4>1
        <4> QED BY <4>2
      <3> QED BY <1>g, <2>1, <3>1, <3>2
    <2> QED BY <2>2, <2>3, <2>4
  <1>9. ASSUME NEW c \in Closer, CloseFire(c) PROVE TriggerInv'
    <2>1. UNCHANGED <<rtodo, rcur, ccur, sched, timer, fired>> /\ cpc[c] = "fire"
      BY <1>9 DEF CloseFire
    <2>2. ccur[c] \in Sentry /\ (Cas(ccur[c]) \/ CasFails(ccur[c]))
      BY <1>9, <1>e DEF CloseFire
    <2>3. /\ io_state_'[ccur[c]] = "triggered" /\ fired[ccur[c]] # {}
          /\ \A z \in Sentry : z # ccur[c] => io_state_'[z] = io_state_[z]
      BY <1>i, <1>t, <2>1, <2>2, CasType
    <2>4. cpc'[c] # "fire" /\ \A d \in Closer : d # c => cpc'[d] = cpc[d]
      BY <1>9, <1>p DEF CloseFire
    <2> QED BY <1>g, <2>1, <2>3, <2>4
  <1>10. ASSUME NEW c \in Closer,
                \/ \E f \in Fd : Close(c, f)
                \/ CloseErase(c) \/ CloseRelease(c) \/ CloseLeave(c) \/ CloseDone(c)
         PROVE  TriggerInv'
    <2>1. /\ UNCHANGED <<io_state_, rtodo, rcur, ccur, sched, timer>>
          /\ \A d \in Closer : cpc'[d] \in {"fire", "erase"} => cpc'[d] = cpc[d]
      BY <1>10, <1>p DEF Close, CloseErase, CloseRelease, CloseLeave, CloseDone
    <2> QED BY <1>g, <2>1
  <1>11. ASSUME \/ \E f \in Fd, e \in Events : ResetSeen(f, e)
                \/ UNCHANGED vars
         PROVE  TriggerInv'
    <2>1. UNCHANGED <<io_state_, rtodo, rcur, cpc, ccur, sched, timer>>
      BY <1>11 DEF ResetSeen, vars
    <2> QED BY <1>g, <2>1
  <1> QED BY <1>1, <1>2, <1>3, <1>4, <1>5, <1>6, <1>7, <1>8, <1>9, <1>10, <1>11
          DEF Next, TimerStep, ReactorStep, CloserStep

\* The ABBA protocol: an eraser leaves only a sentry that is not triggered or
\* not in the list, and whoever triggers becomes one.
LEMMA NextStranded == ASSUME IInv, [Next]_vars PROVE NoStrandedTrigger'
  <1> USE DEF fdVars, pollVars, sentryVars, reactorVars, closerVars
  <1>i. TypeOK /\ WokenOnce /\ PollInv
    BY DEF IInv
  <1>n. \A s \in wait_io_sentries_ : io_state_[s] = "triggered" => Eraser(s)
    BY DEF IInv, NoStrandedTrigger
  <1>w. \A z : z \in wait_io_sentries_ <=> \E t \in Task : pc[t] = "blocked" /\ z = Current(t)
    BY <1>i DEF WokenOnce
  <1>e. \A c \in Closer : cpc[c] \in {"fire", "erase", "release"} => ccur[c] \in Sentry
    BY DEF IInv, HolderInv
  <1>r. timer \in [Sentry -> {"none", "armed", "listed", "erase", "dead", "gone"}]
    BY <1>i DEF TypeOK
  <1>s. sched \in [Sentry -> {"none", "check", "erase", "release"}]
    BY <1>i DEF TypeOK
  <1>p. /\ cpc \in [Closer -> {"idle", "next", "fire", "erase", "release", "leave", "done"}]
        /\ ccur \in [Closer -> Sentry \cup {NoSentry}]
    BY <1>i DEF TypeOK
  <1>l. wait_io_sentries_ \subseteq Sentry
    BY <1>i DEF TypeOK
  <1>g. ASSUME \A s \in wait_io_sentries_' : s \in wait_io_sentries_ \/ sched'[s] = "check",
               \A s \in wait_io_sentries_' :
                  io_state_'[s] = "triggered" => io_state_[s] = "triggered" \/ Eraser(s)',
               \A s \in wait_io_sentries_' :
                  sched[s] \in {"check", "erase"} /\ io_state_'[s] = "triggered"
                     => sched'[s] \in {"check", "erase"},
               \A s \in wait_io_sentries_' : timer[s] = "erase" => timer'[s] = "erase",
               \A s \in wait_io_sentries_' : rcur = s => rcur' = s,
               \A s \in wait_io_sentries_', c \in Closer :
                  cpc[c] = "erase" /\ ccur[c] = s => cpc'[c] = "erase" /\ ccur'[c] = s
        PROVE  NoStrandedTrigger'
    <2> SUFFICES ASSUME NEW s \in wait_io_sentries_', io_state_'[s] = "triggered"
                 PROVE  Eraser(s)'
      BY DEF NoStrandedTrigger
    <2>1. CASE sched'[s] = "check"
      BY <2>1 DEF Eraser
    <2>2. CASE s \in wait_io_sentries_ /\ io_state_[s] = "triggered"
      <3>1. Eraser(s)
        BY <1>n, <2>2
      <3> QED BY <1>g, <3>1 DEF Eraser
    <2> QED BY <1>g, <2>1, <2>2
  <1>1. ASSUME NEW t \in Task,
               \/ \E w \in PollArgs : libgo_poll(t, w)
               \/ \E f \in Fd : add_into_reactor(t, f)
               \/ PollResume(t) \/ PollReturn(t) \/ PollLeave(t)
        PROVE  NoStrandedTrigger'
    <2>1. UNCHANGED <<wait_io_sentries_, io_state_, sched, rcur, cpc, ccur>>
      BY <1>1 DEF libgo_poll, add_into_reactor, PollResume, PollReturn, PollLeave
    <2>2. \A s \in Sentry : timer[s] = "erase" => timer'[s] = "erase"
      BY <1>1, <1>r DEF libgo_poll, add_into_reactor, PollResume, PollReturn, PollLeave
    <2> QED BY <1>g, <1>l, <2>1, <2>2
  <1>2. ASSUME NEW t \in Task, NEW timed \in BOOLEAN, CoSwitch(t, timed)
        PROVE  NoStrandedTrigger'
    <2>1. UNCHANGED <<wait_io_sentries_, io_state_, sched, rcur, cpc, ccur>> /\ pc[t] = "add"
      BY <1>2 DEF CoSwitch
    <2>2. \A s \in Sentry : s # Current(t) => timer'[s] = timer[s]
      BY <1>2, <1>r DEF CoSwitch
    <2>3. Current(t) \notin wait_io_sentries_
      BY <1>w, <2>1 DEF Current
    <2> QED BY <1>g, <1>l, <2>1, <2>2, <2>3
  <1>3. ASSUME NEW t \in Task, SwitchPush(t) PROVE NoStrandedTrigger'
    <2>1. /\ UNCHANGED <<io_state_, timer, rcur, cpc, ccur>> /\ pc[t] = "yield"
          /\ wait_io_sentries_' = wait_io_sentries_ \cup {Current(t)}
      BY <1>3 DEF SwitchPush
    <2>2. Current(t) \in Sentry
      BY <1>i, <2>1, CurrentSentry
    <2>3. /\ sched'[Current(t)] = "check"
          /\ \A s \in Sentry : s # Current(t) => sched'[s] = sched[s]
      BY <1>3, <1>s, <2>2 DEF SwitchPush
    <2> QED BY <1>g, <1>l, <2>1, <2>2, <2>3
  <1>4. ASSUME NEW s \in Sentry, SwitchCheck(s) PROVE NoStrandedTrigger'
    <2>1. UNCHANGED <<wait_io_sentries_, io_state_, timer, rcur, cpc, ccur>>
      BY <1>4 DEF SwitchCheck
    <2>2. /\ io_state_[s] = "triggered" => sched'[s] = "erase"
          /\ \A z \in Sentry : z # s => sched'[z] = sched[z]
      BY <1>4, <1>s DEF SwitchCheck
    <2> QED BY <1>g, <1>l, <2>1, <2>2
  <1>5. ASSUME NEW s \in Sentry, SwitchErase(s) \/ TimerErase(s) PROVE NoStrandedTrigger'
    <2>1. __IOBlockTriggered(s) /\ UNCHANGED <<n, io_state_, rcur, cpc, ccur>>
      BY <1>5 DEF SwitchErase, TimerErase
    <2>2. \A z \in Sentry : z # s => sched'[z] = sched[z] /\ timer'[z] = timer[z]
      BY <1>5, <1>r, <1>s DEF SwitchErase, TimerErase
    <2>3. s \notin wait_io_sentries_' /\ wait_io_sentries_' \subseteq wait_io_sentries_
      BY <1>i, <2>1, EraseEffect
    <2> QED BY <1>g, <1>l, <2>1, <2>2, <2>3
  <1>6. ASSUME NEW s \in Sentry,
               SwitchRelease(s) \/ TimerList(s) \/ TimerDrop(s) \/ \E f \in Fd : Destroy(s, f)
        PROVE  NoStrandedTrigger'
    <2>1. UNCHANGED <<wait_io_sentries_, io_state_, rcur, cpc, ccur>>
      BY <1>6 DEF SwitchRelease, TimerList, TimerDrop, Destroy
    <2>2. \A z \in Sentry : /\ sched[z] \in {"check", "erase"} => sched'[z] = sched[z]
                            /\ timer[z] = "erase" => timer'[z] = "erase"
      BY <1>6, <1>r, <1>s DEF SwitchRelease, TimerList, TimerDrop, Destroy
    <2> QED BY <1>g, <1>l, <2>1, <2>2
  <1>7. ASSUME NEW s \in Sentry, TimerFire(s) PROVE NoStrandedTrigger'
    <2>1. UNCHANGED <<wait_io_sentries_, sched, rcur, cpc, ccur>> /\ timer[s] = "listed"
      BY <1>7 DEF TimerFire
    <2>2. \A z \in Sentry : z # s => timer'[z] = timer[z]
      BY <1>7, <1>r DEF TimerFire
    <2>3. CasFails(s) \/ (Cas(s) /\ timer'[s] = "erase")
      BY <1>7, <1>r DEF TimerFire
    <2>4. Cas(s) \/ CasFails(s)
      BY <2>3
    <2>5. \A z \in Sentry : z # s => io_state_'[z] = io_state_[z]
      BY <1>i, <2>4, CasType
    <2>6. io_state_[s] = "triggered" \/ Eraser(s)'
      BY <2>3 DEF CasFails, Eraser
    <2> QED BY <1>g, <1>l, <2>1, <2>2, <2>5, <2>6
  <1>8. ASSUME NEW s \in Sentry, ReactorFire(s) PROVE NoStrandedTrigger'
    <2>1. UNCHANGED <<wait_io_sentries_, sched, timer, cpc, ccur>> /\ rpc = "collect"
      BY <1>8 DEF ReactorFire
    <2>2. CasFails(s) \/ (Cas(s) /\ rcur' = s)
      BY <1>8 DEF ReactorFire
    <2>3. Cas(s) \/ CasFails(s)
      BY <2>2
    <2>4. \A z \in Sentry : z # s => io_state_'[z] = io_state_[z]
      BY <1>i, <2>3, CasType
    <2>5. io_state_[s] = "triggered" \/ Eraser(s)'
      BY <2>2 DEF CasFails, Eraser
    <2>6. rcur = NoSentry
      BY <2>1 DEF IInv, ReactorInv
    <2> QED BY <1>g, <1>l, <2>1, <2>4, <2>5, <2>6, SentryPair
  <1>9. CASE ReactorErase
    <2>1. /\ __IOBlockTriggered(rcur) /\ UNCHANGED <<n, io_state_, sched, timer, cpc, ccur>>
          /\ rcur \in Sentry
      BY <1>9 DEF ReactorErase, IInv, TypeOK, ReactorInv
    <2>2. rcur \notin wait_io_sentries_' /\ wait_io_sentries_' \subseteq wait_io_sentries_
      BY <1>i, <2>1, EraseEffect
    <2> QED BY <1>g, <1>l, <2>1, <2>2
  <1>10. ASSUME NEW c \in Closer, CloseErase(c) PROVE NoStrandedTrigger'
    <2>1. /\ __IOBlockTriggered(ccur[c]) /\ UNCHANGED <<n, io_state_, sched, timer, rcur, ccur>>
          /\ ccur[c] \in Sentry
      BY <1>e, <1>10 DEF CloseErase
    <2>2. ccur[c] \notin wait_io_sentries_' /\ wait_io_sentries_' \subseteq wait_io_sentries_
      BY <1>i, <2>1, EraseEffect
    <2>3. \A d \in Closer : d # c => cpc'[d] = cpc[d]
      BY <1>p, <1>10 DEF CloseErase
    <2> QED BY <1>g, <1>l, <2>1, <2>2, <2>3
  <1>11. ASSUME NEW c \in Closer, CloseFire(c) PROVE NoStrandedTrigger'
    <2>1. /\ UNCHANGED <<wait_io_sentries_, sched, timer, rcur, ccur>> /\ cpc[c] = "fire"
          /\ ccur[c] \in Sentry
      BY <1>e, <1>11 DEF CloseFire
    <2>2. /\ CasFails(ccur[c]) \/ (Cas(ccur[c]) /\ cpc'[c] = "erase")
          /\ \A d \in Closer : d # c => cpc'[d] = cpc[d]
      BY <1>p, <1>11 DEF CloseFire
    <2>3. Cas(ccur[c]) \/ CasFails(ccur[c])
      BY <2>2
    <2>4. \A z \in Sentry : z # ccur[c] => io_state_'[z] = io_state_[z]
      BY <1>i, <2>1, <2>3, CasType
    <2>5. io_state_[ccur[c]] = "triggered" \/ Eraser(ccur[c])'
      BY <2>1, <2>2 DEF CasFails, Eraser
    <2> QED BY <1>g, <1>l, <2>1, <2>2, <2>4, <2>5
  <1>12. ASSUME NEW c \in Closer,
                \/ \E f \in Fd : Close(c, f)
                \/ \E s \in Sentry : CloseTake(c, s)
                \/ CloseRelease(c) \/ CloseLeave(c) \/ CloseDone(c)
         PROVE  NoStrandedTrigger'
    <2>1. UNCHANGED <<wait_io_sentries_, io_state_, sched, timer, rcur>>
      BY <1>12 DEF Close, CloseTake, CloseRelease, CloseLeave, CloseDone
    <2>2. \A d \in Closer : cpc[d] = "erase" => cpc'[d] = "erase" /\ ccur'[d] = ccur[d]
      BY <1>12, <1>p DEF Close, CloseTake, CloseRelease, CloseLeave, CloseDone
    <2> QED BY <1>g, <2>1, <2>2
  <1>13. ASSUME \/ \E b \in batch : reactor_trigger(b[1], b[2])
                \/ \E s \in Sentry : ReactorRelease(s)
                \/ ReactorDone
                \/ \E f \in Fd, events \in Reports : EpollWait(f, events)
                \/ \E f \in Fd, e \in Events : ResetSeen(f, e)
                \/ UNCHANGED vars
         PROVE  NoStrandedTrigger'
    <2>1. UNCHANGED <<wait_io_sentries_, io_state_, sched, timer, rcur, cpc, ccur>>
      BY <1>13 DEF reactor_trigger, ReactorRelease, ReactorDone, EpollWait, ResetSeen, vars
    <2> QED BY <1>g, <2>1
  <1> HIDE DEF fdVars, pollVars, sentryVars, reactorVars, closerVars
  <1>14. ASSUME NEW t \in Task, TaskStep(t) PROVE NoStrandedTrigger'
    BY <1>1, <1>2, <1>3, <1>14 DEF TaskStep
  <1>15. ASSUME NEW s \in Sentry, SentryStep(s) \/ TimerStep(s) PROVE NoStrandedTrigger'
    BY <1>4, <1>5, <1>6, <1>7, <1>15 DEF SentryStep, TimerStep
  <1>16. ASSUME ReactorStep PROVE NoStrandedTrigger'
    BY <1>8, <1>9, <1>13, <1>16 DEF ReactorStep
  <1>17. ASSUME NEW c \in Closer, CloserStep(c) PROVE NoStrandedTrigger'
    BY <1>10, <1>11, <1>12, <1>17 DEF CloserStep
  <1> QED BY <1>1, <1>12, <1>13, <1>14, <1>15, <1>16, <1>17 DEF Next
-----------------------------------------------------------------------------
(* Polls.                                                                  *)

\* What PollInv and UntimedPollSeesEvent say of one task.
PollOk(t) ==
    /\ pc[t] # "idle" => n[t] # 0
    /\ pc[t] = "add" =>
          /\ watch[Current(t)] \in PollArgs
          /\ todo[t] \subseteq DOMAIN watch[Current(t)]
          /\ hit[t] => fired[Current(t)] # {}
          /\ ~added[t] => DOMAIN watch[Current(t)] \ todo[t] \subseteq fired[Current(t)]
    /\ pc[t] = "runnable" => io_state_[Current(t)] = "triggered"
    /\ pc[t] = "ret" /\ timer[Current(t)] = "none" => fired[Current(t)] # {}

LEMMA PollOkAll == PollInv /\ UntimedPollSeesEvent <=> \A t \in Task : PollOk(t)
  BY DEF PollInv, UntimedPollSeesEvent, PollOk

LEMMA PollOkAllNext == (\A t \in Task : PollOk(t)') => PollInv' /\ UntimedPollSeesEvent'
  <1> SUFFICES ASSUME \A t \in Task : PollOk(t)' PROVE PollInv' /\ UntimedPollSeesEvent'
    OBVIOUS
  <1>1. PollInv'
    BY DEF PollInv, PollOk
  <1>2. UntimedPollSeesEvent'
    BY DEF UntimedPollSeesEvent, PollOk
  <1> QED BY <1>1, <1>2

\* A task that stays where it is, or goes on to where nothing is claimed, keeps
\* what is said of it: what the other threads do to its sentry is never taken back.
LEMMA PollKeep ==
    ASSUME IInv, [Next]_vars, NEW t \in Task,
           pc'[t] # pc[t] => pc'[t] \in {"yield", "blocked", "leave", "idle"},
           n'[t] = n[t], todo'[t] = todo[t], added'[t] = added[t], hit'[t] = hit[t],
           watch'[Current(t)] = watch[Current(t)],
           pc'[t] # "idle" => pc[t] # "idle"
    PROVE  PollOk(t)'
  <1>1. CASE pc'[t] = "idle"
    BY <1>1 DEF PollOk
  <1>2. CASE pc'[t] # "idle"
    <2>1. Current(t) \in Sentry /\ n[t] # 0
      BY <1>2, CurrentSentry DEF IInv, PollInv
    <2>2. Current(t)' = Current(t)
      BY DEF Current
    <2>3. /\ fired[Current(t)] \subseteq fired'[Current(t)]
          /\ io_state_[Current(t)] = "triggered" => io_state_'[Current(t)] = "triggered"
          /\ timer[Current(t)] # "none" => timer'[Current(t)] # "none"
      BY <2>1, NextMono
    <2>4. PollOk(t)
      BY PollOkAll DEF IInv
    <2> HIDE DEF Current
    <2>5. CASE pc'[t] = "add"
      BY <2>1, <2>2, <2>3, <2>4, <2>5 DEF PollOk
    <2>6. CASE pc'[t] = "runnable"
      BY <2>1, <2>2, <2>3, <2>4, <2>6 DEF PollOk
    <2>7. CASE pc'[t] = "ret"
      BY <2>1, <2>2, <2>3, <2>4, <2>7 DEF PollOk
    <2> QED BY <2>1, <2>5, <2>6, <2>7 DEF PollOk
  <1> QED BY <1>1, <1>2

\* A sentry of the list is erased only when it is triggered, so the task that
\* is made runnable finds it so.
LEMMA PollErased ==
    ASSUME IInv, [Next]_vars, NEW s \in Sentry, __IOBlockTriggered(s),
           io_state_[s] = "triggered", UNCHANGED pollVars
    PROVE  \A t \in Task : PollOk(t)'
  <1>1. UNCHANGED <<n, todo, added, hit, watch>>
    BY DEF pollVars
  <1>2. \A t \in Task : \/ pc'[t] = pc[t]
                        \/ pc[t] = "blocked" /\ pc'[t] = "runnable" /\ s = Current(t)
    BY <1>1, EraseEffect DEF IInv
  <1> TAKE t \in Task
  <1>3. CASE pc'[t] = pc[t]
    BY <1>1, <1>3, PollKeep
  <1>4. CASE pc[t] = "blocked" /\ pc'[t] = "runnable" /\ s = Current(t)
    <2>1. n[t] # 0
      BY <1>4 DEF IInv, PollInv
    <2>2. Current(t)' = s
      BY <1>1, <1>4 DEF Current
    <2>3. io_state_'[s] = "triggered"
      BY NextMono
    <2> QED BY <1>1, <1>4, <2>1, <2>2, <2>3 DEF PollOk
  <1> QED BY <1>2, <1>3, <1>4

LEMMA PollBegin ==
    ASSUME IInv, [Next]_vars, NEW t \in Task, NEW w \in PollArgs, libgo_poll(t, w)
    PROVE  \A u \in Task : PollOk(u)'
  <1>t. TypeOK
    BY DEF IInv
  <1>1. /\ n[t] \in 0..MaxPoll /\ n[t] < MaxPoll /\ MaxPoll \in Nat
        /\ pc'[t] = "add" /\ n'[t] = n[t] + 1
        /\ todo'[t] = DOMAIN w
        /\ added'[t] = FALSE /\ hit'[t] = FALSE
    BY <1>t, IoAssumption DEF libgo_poll, TypeOK
  <1>2. \A u \in Task : u # t => /\ pc'[u] = pc[u] /\ n'[u] = n[u] /\ todo'[u] = todo[u]
                                 /\ added'[u] = added[u] /\ hit'[u] = hit[u]
    BY <1>t DEF libgo_poll, TypeOK
  <1>3. <<t, n[t] + 1>> \in Sentry
    BY <1>1, SentryPair
  <1>4. /\ watch'[<<t, n[t] + 1>>] = w
        /\ \A s : s # <<t, n[t] + 1>> => watch'[s] = watch[s]
    <2>1. watch \in [Sentry -> PollArgs \cup {<<>>}]
      BY <1>t DEF TypeOK
    <2>2. watch' = [watch EXCEPT ![<<t, n[t] + 1>>] = w]
      BY DEF libgo_poll
    <2> QED BY <1>3, <2>1, <2>2
  <1> TAKE u \in Task
  <1>5. CASE u = t
    <2>1. Current(u)' = <<t, n[t] + 1>>
      BY <1>1, <1>5 DEF Current
    <2>2. watch'[Current(u)'] = w
      BY <1>4, <2>1
    <2> HIDE DEF Current
    <2>3. todo'[u] \subseteq DOMAIN watch'[Current(u)']
      BY <1>1, <1>5, <2>2
    <2>4. DOMAIN watch'[Current(u)'] \ todo'[u] \subseteq fired'[Current(u)']
      BY <1>1, <1>5, <2>2
    <2> QED BY <1>1, <1>5, <2>2, <2>3, <2>4 DEF PollOk
  <1>6. CASE u # t
    <2>1. watch'[Current(u)] = watch[Current(u)]
      BY <1>4, <1>6 DEF Current
    <2> QED BY <1>2, <1>6, <2>1, PollKeep
  <1> QED BY <1>5, <1>6

LEMMA PollRegister ==
    ASSUME IInv, [Next]_vars, NEW t \in Task, NEW f \in Fd, add_into_reactor(t, f)
    PROVE  \A u \in Task : PollOk(u)'
  <1>t. TypeOK /\ PollInv
    BY DEF IInv
  <1>1. /\ pc[t] = "add" /\ f \in todo[t] /\ UNCHANGED <<pc, n, watch>>
        /\ todo'[t] = todo[t] \ {f}
    BY <1>t DEF add_into_reactor, TypeOK
  <1>2. \A u \in Task : u # t => /\ todo'[u] = todo[u] /\ added'[u] = added[u]
                                 /\ hit'[u] = hit[u]
    BY <1>t DEF add_into_reactor, TypeOK
  <1>3. Current(t) \in Sentry /\ Current(t)' = Current(t)
    BY <1>t, <1>1, CurrentSentry DEF Current
  <1>4. \/ added'[t] = TRUE /\ hit'[t] = hit[t]
        \/ fired' = [fired EXCEPT ![Current(t)] = @ \cup {f}] /\ UNCHANGED <<added, hit>>
        \/ fired' = [fired EXCEPT ![Current(t)] = @ \cup {f}] /\ added'[t] = TRUE
    BY <1>t DEF add_into_reactor, TypeOK
  <1>5. fired' = [fired EXCEPT ![Current(t)] = @ \cup {f}]
           => f \in fired'[Current(t)]
    BY <1>t, <1>3 DEF TypeOK
  <1>6. fired[Current(t)] \subseteq fired'[Current(t)]
    BY <1>3, NextMono
  <1> TAKE u \in Task
  <1>7. CASE u = t
    <2> DEFINE s == Current(t)
    <2>1. /\ watch[s] \in PollArgs /\ todo[t] \subseteq DOMAIN watch[s] /\ n[t] # 0
          /\ hit[t] => fired[s] # {}
          /\ ~added[t] => DOMAIN watch[s] \ todo[t] \subseteq fired[s]
      BY <1>t, <1>1 DEF PollInv
    <2> HIDE DEF s
    <2>2. hit'[t] => fired'[s] # {}
      BY <1>4, <1>5, <1>6, <2>1 DEF s
    <2>3. ~added'[t] => DOMAIN watch[s] \ todo'[t] \subseteq fired'[s]
      BY <1>1, <1>4, <1>5, <1>6, <2>1 DEF s
    <2>4. todo'[t] \subseteq DOMAIN watch[s]
      BY <1>1, <2>1
    <2>5. Current(u)' = s /\ watch' = watch /\ pc'[u] = "add" /\ n'[u] = n[t]
      BY <1>1, <1>3, <1>7 DEF s
    <2> QED BY <1>7, <2>1, <2>2, <2>3, <2>4, <2>5 DEF PollOk
  <1>8. CASE u # t
    BY <1>1, <1>2, <1>8, PollKeep
  <1> QED BY <1>7, <1>8

\* A poll that does not wait found an event, or every add_into_reactor failed
\* and left POLLNVAL.
LEMMA PollSwitch ==
    ASSUME IInv, [Next]_vars, NEW t \in Task, NEW timed \in BOOLEAN, CoSwitch(t, timed)
    PROVE  \A u \in Task : PollOk(u)'
  <1>t. TypeOK /\ PollInv
    BY DEF IInv
  <1>1. /\ pc[t] = "add" /\ todo[t] = {} /\ UNCHANGED <<n, todo, added, hit, watch, fired>>
        /\ pc'[t] = "yield" \/ (pc'[t] = "ret" /\ (~added[t] \/ hit[t]))
        /\ \A u \in Task : u # t => pc'[u] = pc[u]
    BY <1>t DEF CoSwitch, TypeOK, pollVars
  <1>2. Current(t)' = Current(t)
    BY <1>1 DEF Current
  <1>3. /\ watch[Current(t)] \in PollArgs /\ n[t] # 0
        /\ hit[t] => fired[Current(t)] # {}
        /\ ~added[t] => DOMAIN watch[Current(t)] \subseteq fired[Current(t)]
    BY <1>t, <1>1 DEF PollInv
  <1>4. DOMAIN watch[Current(t)] # {}
    BY <1>3, IoAssumption
  <1>5. ~added[t] \/ hit[t] => fired[Current(t)] # {}
    BY <1>3, <1>4
  <1> TAKE u \in Task
  <1>6. CASE u = t
    BY <1>1, <1>2, <1>3, <1>5, <1>6 DEF PollOk
  <1>7. CASE u # t
    BY <1>1, <1>7, PollKeep
  <1> QED BY <1>6, <1>7

\* A poll that was woken was woken by an event or by its timer.
LEMMA PollWoken ==
    ASSUME IInv, [Next]_vars, NEW t \in Task, PollResume(t)
    PROVE  \A u \in Task : PollOk(u)'
  <1>t. TypeOK /\ PollInv
    BY DEF IInv
  <1>1. /\ pc[t] = "runnable" /\ pc'[t] = "ret"
        /\ UNCHANGED <<n, todo, added, hit, watch, fired>>
        /\ \A u \in Task : u # t => pc'[u] = pc[u]
    BY <1>t DEF PollResume, TypeOK, pollVars
  <1>2. Current(t)' = Current(t)
    BY <1>1 DEF Current
  <1>3. Current(t) \in Sentry /\ n[t] # 0 /\ io_state_[Current(t)] = "triggered"
    BY <1>t, <1>1, CurrentSentry DEF PollInv
  <1>4. fired[Current(t)] # {} \/ timer[Current(t)] # "none"
    BY <1>3 DEF IInv, TriggerInv
  <1>5. timer[Current(t)] # "none" => timer'[Current(t)] # "none"
    BY <1>3, NextMono
  <1> TAKE u \in Task
  <1>6. CASE u = t
    BY <1>1, <1>2, <1>3, <1>4, <1>5, <1>6 DEF PollOk
  <1>7. CASE u # t
    BY <1>1, <1>7, PollKeep
  <1> QED BY <1>6, <1>7

LEMMA NextPoll == ASSUME IInv, [Next]_vars PROVE PollInv' /\ UntimedPollSeesEvent'
  <1> DEFINE Ok == \A t \in Task : PollOk(t)'
  <1>t. TypeOK
    BY DEF IInv
  <1>u. ASSUME UNCHANGED <<pc, pollVars>> PROVE Ok
    BY <1>u, PollKeep DEF pollVars
  <1>e. ASSUME NEW s \in Sentry, __IOBlockTriggered(s), io_state_[s] = "triggered",
               UNCHANGED pollVars
        PROVE  Ok
    BY <1>e, PollErased
  <1> HIDE DEF Ok
  <1>1. ASSUME NEW t \in Task, TaskStep(t) \/ \E w \in PollArgs : libgo_poll(t, w) PROVE Ok
    <2>1. ASSUME PollReturn(t) \/ PollLeave(t) \/ SwitchPush(t) PROVE Ok
      <3>1. /\ UNCHANGED <<n, todo, added, hit, watch>>
            /\ pc[t] # "idle" /\ pc'[t] \in {"leave", "idle", "blocked"}
            /\ \A u \in Task : u # t => pc'[u] = pc[u]
        BY <1>t, <2>1 DEF PollReturn, PollLeave, SwitchPush, TypeOK, pollVars
      <3> QED BY <3>1, PollKeep DEF Ok
    <2> QED BY <1>1, <2>1, PollBegin, PollRegister, PollSwitch, PollWoken DEF TaskStep, Ok
  <1>2. ASSUME NEW s \in Sentry, SentryStep(s) PROVE Ok
    <2>1. CASE SwitchErase(s)
      <3>1. __IOBlockTriggered(s) /\ UNCHANGED pollVars /\ sched[s] = "erase"
        BY <2>1 DEF SwitchErase
      <3> QED BY <1>e, <3>1 DEF IInv, TriggerInv
    <2>2. ASSUME SwitchCheck(s) \/ SwitchRelease(s) \/ \E f \in Fd : Destroy(s, f) PROVE Ok
      BY <1>u, <2>2 DEF SwitchCheck, SwitchRelease, Destroy
    <2> QED BY <1>2, <2>1, <2>2 DEF SentryStep
  <1>3. ASSUME NEW s \in Sentry, TimerStep(s) PROVE Ok
    <2>1. CASE TimerErase(s)
      <3>1. __IOBlockTriggered(s) /\ UNCHANGED pollVars /\ timer[s] = "erase"
        BY <2>1 DEF TimerErase
      <3> QED BY <1>e, <3>1 DEF IInv, TriggerInv
    <2>2. ASSUME TimerList(s) \/ TimerFire(s) \/ TimerDrop(s) PROVE Ok
      BY <1>u, <2>2 DEF TimerList, TimerFire, TimerDrop
    <2> QED BY <1>3, <2>1, <2>2 DEF TimerStep
  <1>4. ASSUME ReactorStep PROVE Ok
    <2>1. CASE ReactorErase
      <3>1. __IOBlockTriggered(rcur) /\ UNCHANGED pollVars /\ rcur \in Sentry
        BY <2>1 DEF ReactorErase, IInv, TypeOK, ReactorInv
      <3> QED BY <1>e, <3>1 DEF IInv, TriggerInv
    <2>2. ASSUME \/ \E b \in batch : reactor_trigger(b[1], b[2])
                 \/ \E s \in Sentry : ReactorFire(s) \/ ReactorRelease(s)
                 \/ ReactorDone
          PROVE  Ok
      BY <1>u, <2>2 DEF reactor_trigger, ReactorFire, ReactorRelease, ReactorDone
    <2> QED BY <1>4, <2>1, <2>2 DEF ReactorStep
  <1>5. ASSUME NEW c \in Closer, CloserStep(c) \/ \E f \in Fd : Close(c, f) PROVE Ok
    <2>1. CASE CloseErase(c)
      <3>1. /\ __IOBlockTriggered(ccur[c]) /\ UNCHANGED pollVars /\ ccur[c] \in Sentry
            /\ io_state_[ccur[c]] = "triggered"
        BY <2>1 DEF CloseErase, IInv, HolderInv, TriggerInv
      <3> QED BY <1>e, <3>1
    <2>2. ASSUME \/ \E f \in Fd : Close(c, f)
                 \/ \E s \in Sentry : CloseTake(c, s)
                 \/ CloseFire(c) \/ CloseRelease(c) \/ CloseLeave(c) \/ CloseDone(c)
          PROVE  Ok
      BY <1>u, <2>2 DEF Close, CloseTake, CloseFire, CloseRelease, CloseLeave, CloseDone
    <2> QED BY <1>5, <2>1, <2>2 DEF CloserStep
  <1>6. ASSUME \/ \E f \in Fd, events \in Reports : EpollWait(f, events)
               \/ \E f \in Fd, e \in Events : ResetSeen(f, e)
               \/ UNCHANGED vars
        PROVE  Ok
    BY <1>6, <1>u DEF EpollWait, ResetSeen, vars
  <1>7. Ok
    BY <1>1, <1>2, <1>3, <1>4, <1>5, <1>6 DEF Next
  <1> QED BY <1>7, PollOkAllNext DEF Ok
-----------------------------------------------------------------------------
(* The theorems.                                                           *)

LEMMA InitInv == Init => IInv
  <1> SUFFICES ASSUME Init PROVE IInv
    OBVIOUS
  <1>t. TypeOK
    BY InitType
  <1>p. \A t \in Task : pc[t] = "idle"
    BY DEF Init
  <1>s. \A s \in Sentry : /\ io_state_[s] = "pending" /\ holders[s] = {} /\ by[s] = "none"
                          /\ sched[s] = "none" /\ timer[s] = "none"
    BY DEF Init
  <1>c. \A c \in Closer : cpc[c] = "idle"
    BY DEF Init
  <1>r. /\ wait_io_sentries_ = {} /\ rtodo = {} /\ rheld = {}
        /\ rpc = "idle" /\ rcur = NoSentry
    BY DEF Init
  <1>1. WokenOnce /\ NoStrandedTrigger
    BY <1>p, <1>r DEF WokenOnce, NoStrandedTrigger
  <1>2. PollInv /\ UntimedPollSeesEvent
    BY <1>p DEF PollInv, UntimedPollSeesEvent
  <1>3. ReactorInv /\ TriggerInv
    BY <1>c, <1>r, <1>s, SentryPair DEF ReactorInv, TriggerInv
  <1>4. HolderInv
    <2>1. \A s \in Sentry, h \in Holder : ~Uses(s, h)
      BY <1>c, <1>p, <1>r, <1>s, SentryPair DEF Uses
    <2> QED BY <1>c, <1>s, <2>1 DEF HolderInv
  <1>5. InterestKept
    <2>1. \A f \in Fd, k \in Kind, t \in Task : tasks[f][k][t] = 0
      BY DEF Init
    <2> QED BY <2>1 DEF InterestKept, Kind
  <1> QED BY <1>t, <1>1, <1>2, <1>3, <1>4, <1>5 DEF IInv

\* The inductive invariant holds in every reachable state, for any set of
\* tasks, descriptors and callers of close().
THEOREM IoWaitInductive == Spec => []IInv
  <1>1. Init => IInv
    BY InitInv
  <1>2. IInv /\ [Next]_vars => IInv'
    <2> SUFFICES ASSUME IInv, [Next]_vars PROVE IInv'
      OBVIOUS
    <2>1. TypeOK'
      BY NextType
    <2> QED BY <2>1, NextWoken, NextPoll, NextReactor, NextHolder, NextTrigger, NextStranded,
               NextInterest DEF IInv
  <1> QED BY <1>1, <1>2, PTL DEF Spec

\* libgo_poll, SchedulerSwitch and __IOBlockTriggered: wait_io_sentries_ holds
\* exactly the sentries of the blocked tasks, so each wait is ended once.
THEOREM IoWaitWokenOnce == Spec => []WokenOnce
  BY IoWaitInductive, PTL DEF IInv

\* IoWait::SchedulerSwitch against IOBlockTriggered: whatever the interleaving,
\* a triggered sentry in the list has somebody who is about to take it out.
THEOREM IoWaitNoStrandedTrigger == Spec => []NoStrandedTrigger
  BY IoWaitInductive, PTL DEF IInv

\* The shared pointers of SchedulerSwitch, the timer, the trigger set and
\* close(): none of them works with a sentry whose destructor has begun.
THEOREM IoWaitNoUseAfterFree == Spec => []NoUseAfterFree
  <1>1. IInv => NoUseAfterFree
    <2> SUFFICES ASSUME IInv, NEW s \in Sentry, by[s] # "none"
                 PROVE  /\ holders[s] = {}
                        /\ s \notin wait_io_sentries_ \cup rheld
                        /\ ~Eraser(s)
                        /\ timer[s] \in {"none", "gone"}
      BY DEF NoUseAfterFree
    <2>1. holders[s] = {} /\ \A h \in Holder : ~Uses(s, h)
      BY DEF IInv, HolderInv
    <2>2. timer[s] \in {"none", "gone"} /\ sched[s] = "none" /\ s \notin rheld
      BY <2>1 DEF Uses, Holder
    <2>3. \A c \in Closer : ~(cpc[c] = "erase" /\ ccur[c] = s)
      BY <2>1 DEF Uses, Holder
    <2>4. rcur # s
      BY <2>2, SentryPair DEF IInv, ReactorInv
    <2>5. s \notin wait_io_sentries_
      <3> SUFFICES ASSUME s \in wait_io_sentries_ PROVE FALSE
        OBVIOUS
      <3>1. PICK t \in Task : pc[t] = "blocked" /\ s = Current(t)
        BY DEF IInv, WokenOnce
      <3>2. s[1] = t
        BY <3>1 DEF Current
      <3> QED BY <2>1, <3>1, <3>2 DEF Uses, Holder
    <2> QED BY <2>1, <2>2, <2>3, <2>4, <2>5 DEF Eraser
  <1> QED BY <1>1, IoWaitInductive, PTL

\* add_into_reactor, del_from_reactor, reactor_trigger and close: as long as a
\* set of an open descriptor names a task, epoll is asked for its events.
THEOREM IoWaitInterestKept == Spec => []InterestKept
  BY IoWaitInductive, PTL DEF IInv

\* trigger_task_list and close_without_lock set revents before they trigger, so
\* libgo_poll without a timeout never returns 0.
THEOREM IoWaitUntimedPollSeesEvent == Spec => []UntimedPollSeesEvent
  BY IoWaitInductive, PTL DEF IInv
-----------------------------------------------------------------------------
(***************************************************************************)
(* The hooked calls on top: FdHook, for any coroutines, descriptor numbers *)
(* and bounds (H!ConstOk).                                                 *)
(***************************************************************************)
\* Records of the tables, and the labels of read().
CtxRec == [fd_ : Number \cup {0}, is_initialize : BOOLEAN, closed_ : BOOLEAN,
           user_nonblock_ : BOOLEAN, recv_o_ : BOOLEAN, readable_ : BOOLEAN,
           et_mode_ : BOOLEAN, pending : BOOLEAN, i_tasks_ : SUBSET Reader]
CallRec == [fd : Number \cup {0}, on : H!File \cup {0}, ctx : H!Ctx \cup {0}, at : H!Ctx \cup {0},
            timed : BOOLEAN, big : BOOLEAN]
WatchRec == [fd : Number, et : BOOLEAN] \cup {H!Unwatched}
Label == {"idle", "EBADF", "direct", "look", "poll", "waiting", "triggered", "nothing",
          "fn", "EAGAIN", "drained"}

\* Types of the tables: fl for file, sl for slot, cx for ctx, nb for nonblock,
\* ak for asked, wt for watch, p for pc and cl for call.
Tables(fl, sl, cx, nb, ak) ==
    /\ fl \in [Number -> H!File \cup {0}] /\ sl \in [Number -> H!Ctx \cup {0}]
    /\ cx \in [H!Ctx -> CtxRec]
    /\ nb \in [H!File -> BOOLEAN] /\ ak \in [H!File -> BOOLEAN]
Callers(p, cl) == p \in [Reader -> Label] /\ cl \in [Reader -> CallRec]

\* The context of an open number knows what its user asked for and which file
\* it stands for; numbers of one file have one context, and only they.
OwnCtx(fl, sl, cx, ak) ==
    \A f \in Number : sl[f] # 0 =>
       LET r == cx[sl[f]]
       IN  /\ ~r.closed_ /\ r.fd_ \in Number /\ sl[r.fd_] = sl[f]
           /\ r.is_initialize => fl[f] # 0 /\ r.user_nonblock_ = ak[fl[f]]
           /\ ~r.is_initialize => r.fd_ = f /\ ~r.pending
Shares(fl, sl) ==
    \A f, x \in Number : /\ sl[f] # 0 /\ sl[f] = sl[x] => fl[f] = fl[x]
                         /\ f # x /\ fl[f] # 0 /\ fl[f] = fl[x] => sl[f] # 0 /\ sl[f] = sl[x]
Plain(fl, sl, cx, nb, ak) ==
    \A f \in Number : fl[f] # 0 /\ (sl[f] = 0 \/ ~cx[sl[f]].is_initialize)
                     => ~ak[fl[f]] /\ ~nb[fl[f]]
\* A registration is one of the context's number, in the context's mode.
Watched(fl, sl, cx, wt) ==
    /\ wt \in [H!File -> WatchRec]
    /\ \A f \in Number : sl[f] # 0 /\ cx[sl[f]].pending
          => wt[fl[f]] = [fd |-> cx[sl[f]].fd_, et |-> cx[sl[f]].et_mode_]

\* Whoever waits does so at the context of its number, which is registered and
\* lists it; a call's number stands for the file it was made on, or for none.
Calls(fl, sl, cx, p, cl) ==
    \A t \in Reader :
       /\ p[t] # "idle" => cl[t].fd \in Number /\ fl[cl[t].fd] \in {0, cl[t].on}
       /\ p[t] = "EBADF" => cl[t].on = 0
       /\ p[t] = "waiting" => /\ cl[t].at # 0 /\ sl[cl[t].fd] = cl[t].at
                              /\ cx[cl[t].at].pending /\ t \in cx[cl[t].at].i_tasks_

\* All of it, as a predicate of the tables, so that a step may be taken in parts.
Good(fl, sl, cx, nb, ak, wt, p, cl) ==
    /\ Tables(fl, sl, cx, nb, ak) /\ Callers(p, cl)
    /\ OwnCtx(fl, sl, cx, ak) /\ Shares(fl, sl) /\ Plain(fl, sl, cx, nb, ak)
    /\ Watched(fl, sl, cx, wt) /\ Calls(fl, sl, cx, p, cl)

HookOk == Good(file, slot, ctx, nonblock, asked, epoll, hpc, call)
\* The inductive invariant: until the first lapse.
HookInv == lapse = {} => wrong = {} /\ HookOk

\* The values of a function on a finite set are no more than its elements.
LEMMA ImageBound ==
    ASSUME NEW S, IsFiniteSet(S), NEW h
    PROVE  /\ IsFiniteSet({h[x] : x \in S})
           /\ Cardinality({h[x] : x \in S}) <= Cardinality(S)
  <1> DEFINE I == {h[x] : x \in S}
             g == [x \in S |-> h[x]]
  <1>1. g \in Surjection(S, I)
    BY DEF Surjection
  <1> HIDE DEF I, g
  <1>2. IsFiniteSet(I) /\ Cardinality(I) <= Cardinality(S)
    BY <1>1, FS_Surjection
  <1> QED BY <1>2 DEF I

\* FdHook's own FiniteSets is the one the theorems are about.
LEMMA SameSets ==
    ASSUME NEW S
    PROVE  (H!IsFiniteSet(S) <=> IsFiniteSet(S)) /\ H!Cardinality(S) = Cardinality(S)
  BY DEF H!IsFiniteSet, IsFiniteSet, H!Cardinality, Cardinality

\* There are enough contexts for every reference to have its own.
LEMMA FreeOk ==
    ASSUME H!ConstOk, NEW f \in Number, slot[f] = 0
    PROVE  /\ H!FreeCtx \in H!Ctx
           /\ \A x \in Number : slot[x] # H!FreeCtx
  <1> DEFINE S1 == {slot[x] : x \in Number \ {f}}
             hc == [t \in Reader |-> call[t].ctx]
             ha == [t \in Reader |-> call[t].at]
             S2 == {hc[t] : t \in Reader}
             S3 == {ha[t] : t \in Reader}
             nf == Cardinality(Number)
             mt == Cardinality(Reader)
  <1>1. nf \in Nat /\ mt \in Nat /\ IsFiniteSet(Number \ {f}) /\ Cardinality(Number \ {f}) = nf - 1
    BY SameSets, FS_CardinalityType, FS_RemoveElement DEF H!ConstOk
  <1>2. IsFiniteSet(S1) /\ Cardinality(S1) <= nf - 1 /\ Cardinality(S1) \in Nat
    BY <1>1, ImageBound, FS_CardinalityType
  <1>3. IsFiniteSet(S2) /\ Cardinality(S2) <= mt /\ Cardinality(S2) \in Nat
    BY SameSets, ImageBound, FS_CardinalityType DEF H!ConstOk
  <1>4. IsFiniteSet(S3) /\ Cardinality(S3) <= mt /\ Cardinality(S3) \in Nat
    BY SameSets, ImageBound, FS_CardinalityType DEF H!ConstOk
  <1>5. /\ IsFiniteSet(S1 \cup S2) /\ Cardinality(S1 \cup S2) \in Nat
        /\ Cardinality(S1 \cup S2) <= Cardinality(S1) + Cardinality(S2)
    <2> HIDE DEF S1, S2, S3
    <2>1. IsFiniteSet(S1 \cap S2)
      BY <1>2, FS_Subset
    <2>2. Cardinality(S1 \cap S2) \in Nat
      BY <2>1, FS_CardinalityType
    <2>3. /\ IsFiniteSet(S1 \cup S2)
          /\ Cardinality(S1 \cup S2) = Cardinality(S1) + Cardinality(S2) - Cardinality(S1 \cap S2)
      BY <1>2, <1>3, FS_Union
    <2>4. Cardinality(S1 \cup S2) \in Nat
      BY <2>3, FS_CardinalityType
    <2> QED BY <1>2, <1>3, <2>2, <2>3, <2>4
  <1> DEFINE U == (S1 \cup S2) \cup S3
  <1>6. IsFiniteSet(U) /\ Cardinality(U) \in Nat /\ Cardinality(U) <= Cardinality(S1 \cup S2) + Cardinality(S3)
    <2> DEFINE V == S1 \cup S2
    <2> HIDE DEF S1, S2, S3, V
    <2>0. IsFiniteSet(V) /\ Cardinality(V) \in Nat
      BY <1>5 DEF V
    <2>1. IsFiniteSet(V \cap S3)
      BY <2>0, FS_Subset
    <2>2. Cardinality(V \cap S3) \in Nat
      BY <2>1, FS_CardinalityType
    <2>3. /\ IsFiniteSet(V \cup S3)
          /\ Cardinality(V \cup S3) = Cardinality(V) + Cardinality(S3) - Cardinality(V \cap S3)
      BY <2>0, <1>4, FS_Union
    <2>4. Cardinality(V \cup S3) \in Nat
      BY <2>3, FS_CardinalityType
    <2>5. Cardinality(V \cup S3) <= Cardinality(V) + Cardinality(S3)
      BY <1>4, <2>0, <2>2, <2>3, <2>4
    <2> QED BY <2>3, <2>4, <2>5 DEF V
  <1>7. Cardinality(H!Ctx) = nf + 2 * mt
    <2>1. nf + 2 * mt \in Int /\ nf + 2 * mt >= 0
      BY <1>1
    <2>2. Cardinality(1..(nf + 2 * mt)) = IF 1 > nf + 2 * mt THEN 0 ELSE (nf + 2 * mt) - 1 + 1
      BY <2>1, FS_Interval
    <2> QED BY <2>1, <2>2, SameSets DEF H!Ctx
  <1>8. ~(H!Ctx \subseteq U)
    <2> HIDE DEF U, S1, S2, S3, nf, mt
    <2>1. H!Ctx \subseteq U => Cardinality(H!Ctx) <= Cardinality(U)
      BY <1>6, FS_Subset
    <2> QED BY <1>1, <1>2, <1>3, <1>4, <1>5, <1>6, <1>7, <2>1
  <1>9. PICK c \in H!Ctx : c \notin U
    BY <1>8
  <1>10. c # 0
    BY DEF H!Ctx
  <1>11. \A x \in Number : slot[x] # c
    BY <1>9, <1>10
  <1>12. \A t \in Reader : c \notin {call[t].ctx, call[t].at}
    BY <1>9
  <1> QED BY <1>11, <1>12 DEF H!FreeCtx

\* A number gets a context of its own, made or initialized by get.
LEMMA Fresh ==
    ASSUME NEW fl, NEW sl, NEW cx, NEW nb, NEW ak, NEW wt, NEW p, NEW cl,
           Good(fl, sl, cx, nb, ak, wt, p, cl),
           NEW f \in Number, NEW c \in H!Ctx, \A x \in Number \ {f} : sl[x] # c,
           sl[f] = 0 \/ (sl[f] = c /\ ~cx[c].is_initialize),
           NEW nb2, nb2 \in [H!File -> BOOLEAN],
           \A k \in H!File : k # fl[f] => nb2[k] = nb[k],
           NEW r2, r2 = [H!Blank EXCEPT !.fd_ = f, !.is_initialize = fl[f] # 0]
    PROVE  Good(fl, [sl EXCEPT ![f] = c], [cx EXCEPT ![c] = r2], nb2, ak, wt, p, cl)
  <1> DEFINE s2 == [sl EXCEPT ![f] = c]
             c2 == [cx EXCEPT ![c] = r2]
  <1>0. /\ Tables(fl, sl, cx, nb, ak) /\ Callers(p, cl)
        /\ OwnCtx(fl, sl, cx, ak) /\ Shares(fl, sl) /\ Plain(fl, sl, cx, nb, ak)
        /\ Watched(fl, sl, cx, wt) /\ Calls(fl, sl, cx, p, cl)
    BY DEF Good
  <1>1. c # 0 /\ 0 \notin H!Ctx
    BY DEF H!Ctx
  <1>2. /\ r2 \in CtxRec /\ ~r2.closed_ /\ r2.fd_ = f /\ (r2.is_initialize <=> fl[f] # 0)
        /\ ~r2.pending /\ r2.i_tasks_ = {} /\ ~r2.user_nonblock_
    BY DEF H!Blank, CtxRec
  <1>3. /\ s2 \in [Number -> H!Ctx \cup {0}] /\ s2[f] = c /\ \A x \in Number \ {f} : s2[x] = sl[x] /\ sl[x] # c
    BY <1>0 DEF Tables
  <1>4. /\ c2 \in [H!Ctx -> CtxRec] /\ c2[c] = r2 /\ \A d \in H!Ctx \ {c} : c2[d] = cx[d]
    BY <1>0, <1>2 DEF Tables
  <1> HIDE DEF s2, c2
  <1>5. \A x \in Number \ {f} : sl[x] # 0 => /\ sl[x] \in H!Ctx \ {c} /\ c2[s2[x]] = cx[sl[x]]
    BY <1>0, <1>3, <1>4 DEF Tables
  <1>6. Tables(fl, s2, c2, nb2, ak)
    BY <1>0, <1>3, <1>4 DEF Tables
  <1>7. OwnCtx(fl, s2, c2, ak)
    <2> SUFFICES ASSUME NEW x \in Number, s2[x] # 0
                 PROVE  LET r == c2[s2[x]]
                        IN  /\ ~r.closed_ /\ r.fd_ \in Number /\ s2[r.fd_] = s2[x]
                            /\ r.is_initialize => fl[x] # 0 /\ r.user_nonblock_ = ak[fl[x]]
                            /\ ~r.is_initialize => r.fd_ = x /\ ~r.pending
      BY DEF OwnCtx
    <2>1. CASE x = f
      <3>1. fl[f] # 0 => ~ak[fl[f]]
        BY <1>0 DEF Plain
      <3>2. fl[f] # 0 => ak[fl[f]] \in BOOLEAN
        BY <1>0 DEF Tables
      <3>3. r2.user_nonblock_ \in BOOLEAN
        BY <1>2 DEF CtxRec
      <3>4. c2[s2[x]] = r2 /\ s2[x] = c /\ s2[r2.fd_] = s2[x]
        BY <1>2, <1>3, <1>4, <2>1
      <3>5. r2.is_initialize => fl[x] # 0 /\ r2.user_nonblock_ = ak[fl[x]]
        BY <1>2, <2>1, <3>1, <3>2, <3>3
      <3> QED BY <1>2, <2>1, <3>4, <3>5
    <2>2. CASE x # f
      <3>1. sl[x] # 0 /\ sl[x] # c /\ c2[s2[x]] = cx[sl[x]] /\ s2[x] = sl[x]
        BY <1>3, <1>5, <2>2
      <3>2. LET r == cx[sl[x]]
            IN  /\ ~r.closed_ /\ r.fd_ \in Number /\ sl[r.fd_] = sl[x]
                /\ r.is_initialize => fl[x] # 0 /\ r.user_nonblock_ = ak[fl[x]]
                /\ ~r.is_initialize => r.fd_ = x /\ ~r.pending
        BY <1>0, <3>1 DEF OwnCtx
      <3>3. cx[sl[x]].fd_ # f
        BY <3>1, <3>2
      <3> QED BY <1>3, <3>1, <3>2, <3>3
    <2> QED BY <2>1, <2>2
  <1>8. \A x \in Number \ {f} : ~(fl[x] # 0 /\ fl[x] = fl[f])
    BY <1>0, <1>1, <1>3 DEF Shares
  <1>9. Shares(fl, s2)
    BY <1>0, <1>3, <1>8 DEF Shares
  <1>10. Plain(fl, s2, c2, nb2, ak)
    <2> SUFFICES ASSUME NEW x \in Number, fl[x] # 0, s2[x] = 0 \/ ~c2[s2[x]].is_initialize
                 PROVE  ~ak[fl[x]] /\ ~nb2[fl[x]]
      BY DEF Plain
    <2>1. x # f
      <3>1. s2[f] # 0 /\ c2[s2[f]] = r2
        BY <1>1, <1>3, <1>4
      <3>2. r2.is_initialize <=> fl[f] # 0
        BY <1>2
      <3> QED BY <3>1, <3>2, Zenon
    <2>2. sl[x] = 0 \/ ~cx[sl[x]].is_initialize
      BY <1>3, <1>5, <2>1
    <2>3. ~ak[fl[x]] /\ ~nb[fl[x]]
      BY <1>0, <2>2 DEF Plain
    <2>4. fl[x] # fl[f] /\ fl[x] \in H!File
      BY <1>0, <1>8, <2>1 DEF Tables
    <2> QED BY <2>3, <2>4
  <1>11. Watched(fl, s2, c2, wt)
    <2> SUFFICES ASSUME NEW x \in Number, s2[x] # 0, c2[s2[x]].pending
                 PROVE  wt[fl[x]] = [fd |-> c2[s2[x]].fd_, et |-> c2[s2[x]].et_mode_]
      BY <1>0 DEF Watched
    <2>1. x # f
      BY <1>2, <1>3, <1>4
    <2> QED BY <1>0, <1>3, <1>5, <2>1 DEF Watched
  <1>12. ASSUME NEW t \in Reader, p[t] = "waiting"
         PROVE  cl[t].fd \in Number \ {f} /\ sl[cl[t].fd] = cl[t].at /\ cl[t].at # 0
    <2>1. cl[t].fd \in Number /\ sl[cl[t].fd] = cl[t].at /\ cl[t].at # 0 /\ cx[cl[t].at].pending
      BY <1>0, <1>12 DEF Calls
    <2>2. sl[f] # 0 /\ ~cx[sl[f]].is_initialize => ~cx[sl[f]].pending
      BY <1>0 DEF OwnCtx
    <2> QED BY <2>1, <2>2
  <1>13. Calls(fl, s2, c2, p, cl)
    <2>1. ASSUME NEW t \in Reader
          PROVE  /\ p[t] # "idle" => cl[t].fd \in Number /\ fl[cl[t].fd] \in {0, cl[t].on}
                 /\ p[t] = "EBADF" => cl[t].on = 0
      BY <1>0 DEF Calls
    <2>2. ASSUME NEW t \in Reader, p[t] = "waiting"
          PROVE  /\ cl[t].at # 0 /\ s2[cl[t].fd] = cl[t].at
                 /\ c2[cl[t].at].pending /\ t \in c2[cl[t].at].i_tasks_
      <3>1. s2[cl[t].fd] = sl[cl[t].fd] /\ c2[cl[t].at] = cx[cl[t].at]
        BY <1>3, <1>5, <1>12, <2>2
      <3> QED BY <1>0, <1>12, <2>2, <3>1 DEF Calls
    <2> QED BY <2>1, <2>2 DEF Calls
  <1>14. Good(fl, s2, c2, nb2, ak, wt, p, cl)
    BY <1>0, <1>6, <1>7, <1>9, <1>10, <1>11, <1>13 DEF Good
  <1> QED BY <1>14 DEF s2, c2

\* What get does to the tables.
LEMMA GetOk ==
    ASSUME H!ConstOk, Good(file, slot, ctx, nonblock, asked, epoll, hpc, call), NEW f \in Number
    PROVE  /\ H!Get(f).id \in H!Ctx /\ H!Get(f).slot[f] = H!Get(f).id
           /\ Good(file, H!Get(f).slot, H!Get(f).ctx, H!Get(f).nonblock, asked, epoll, hpc, call)
           /\ H!Bad(H!Get(f)) <=> file[f] = 0
           /\ H!Get(f).ctx[H!Get(f).id].is_initialize <=> file[f] # 0
           /\ H!Get(f).slot = [slot EXCEPT ![f] = H!Get(f).id]
           /\ slot[f] # 0 => H!Get(f).id = slot[f] /\ H!Get(f).slot = slot
           /\ \A x \in Number \ {f} : H!Get(f).slot[x] = slot[x]
           /\ \A c \in H!Ctx : c # H!Get(f).id => H!Get(f).ctx[c] = ctx[c]
           /\ \A x \in Number : slot[f] = 0 => slot[x] # H!Get(f).id
  <1>0. /\ Tables(file, slot, ctx, nonblock, asked) /\ Callers(hpc, call)
        /\ OwnCtx(file, slot, ctx, asked)
    BY DEF Good
  <1>1. slot \in [Number -> H!Ctx \cup {0}] /\ ctx \in [H!Ctx -> CtxRec] /\ file \in [Number -> H!File \cup {0}]
        /\ nonblock \in [H!File -> BOOLEAN]
    BY <1>0 DEF Tables
  <1> DEFINE c == IF slot[f] # 0 THEN slot[f] ELSE H!FreeCtx
             fresh == ~(slot[f] # 0 /\ ctx[c].is_initialize)
             r2 == [H!Blank EXCEPT !.fd_ = f, !.is_initialize = file[f] # 0]
             nb2 == IF fresh /\ file[f] # 0 THEN [nonblock EXCEPT ![file[f]] = TRUE] ELSE nonblock
  <1>2. /\ H!Get(f).id = c /\ H!Get(f).slot = [slot EXCEPT ![f] = c]
        /\ H!Get(f).ctx = IF fresh THEN [ctx EXCEPT ![c] = r2] ELSE ctx
        /\ H!Get(f).nonblock = nb2
    BY DEF H!Get
  <1>3. c \in H!Ctx /\ (slot[f] = 0 => \A x \in Number : slot[x] # c)
    BY <1>1, FreeOk
  <1>4. 0 \notin H!Ctx
    BY DEF H!Ctx
  <1>5. slot[f] # 0 => slot[f] = c
    OBVIOUS
  <1> HIDE DEF c
  <1>6. nb2 \in [H!File -> BOOLEAN] /\ \A k \in H!File : k # file[f] => nb2[k] = nonblock[k]
    BY <1>1
  <1> HIDE DEF nb2
  <1>7. CASE slot[f] # 0 /\ ctx[c].is_initialize
    <2>1. H!Get(f).slot = slot /\ H!Get(f).ctx = ctx
      BY <1>1, <1>2, <1>5, <1>7
    <2>2. H!Get(f).nonblock = nonblock
      BY <1>2, <1>7 DEF nb2
    <2>3. ctx[c].closed_ = FALSE /\ file[f] # 0
      <3>1. ~ctx[c].closed_ /\ file[f] # 0
        BY <1>0, <1>5, <1>7 DEF OwnCtx
      <3>2. ctx[c].closed_ \in BOOLEAN
        BY <1>1, <1>3 DEF CtxRec
      <3> QED BY <3>1, <3>2
    <2>4. ~H!Bad(H!Get(f))
      BY <1>2, <1>7, <2>1, <2>3 DEF H!Bad
    <2> QED BY <1>1, <1>2, <1>3, <1>5, <1>7, <2>1, <2>2, <2>3, <2>4
  <1>8. CASE ~(slot[f] # 0 /\ ctx[c].is_initialize)
    <2>1. \A x \in Number \ {f} : slot[x] # c
      <3>1. CASE slot[f] = 0
        BY <1>3, <3>1
      <3>2. CASE slot[f] # 0
        <4>1. ASSUME NEW x \in Number, slot[x] = c PROVE x = f
          <5>1. slot[x] # 0 /\ ~ctx[slot[x]].is_initialize /\ ~ctx[slot[f]].is_initialize
            BY <1>5, <1>8, <3>2, <4>1
          <5>2. ctx[slot[x]].fd_ = x /\ ctx[slot[f]].fd_ = f
            BY <1>0, <3>2, <5>1 DEF OwnCtx
          <5> QED BY <1>5, <3>2, <4>1, <5>2
        <4> QED BY <4>1
      <3> QED BY <3>1, <3>2
    <2>2. slot[f] = 0 \/ (slot[f] = c /\ ~ctx[c].is_initialize)
      BY <1>5, <1>8
    <2>3. Good(file, [slot EXCEPT ![f] = c], [ctx EXCEPT ![c] = r2], nb2, asked, epoll, hpc, call)
      <3>1. r2 = [H!Blank EXCEPT !.fd_ = f, !.is_initialize = file[f] # 0]
        OBVIOUS
      <3> HIDE DEF r2, fresh
      <3> QED BY <1>3, <1>6, <2>1, <2>2, <3>1, Fresh
    <2>4. H!Get(f).slot = [slot EXCEPT ![f] = c] /\ H!Get(f).ctx = [ctx EXCEPT ![c] = r2]
      BY <1>2, <1>8
    <2>5. ~r2.closed_ /\ (r2.is_initialize <=> file[f] # 0)
      BY DEF H!Blank
    <2> HIDE DEF r2
    <2>6. H!Get(f).ctx[c] = r2 /\ \A d \in H!Ctx : d # c => H!Get(f).ctx[d] = ctx[d]
      BY <1>1, <1>3, <2>4
    <2>7. H!Get(f).slot[f] = c /\ \A x \in Number \ {f} : H!Get(f).slot[x] = slot[x]
      BY <1>1, <2>4
    <2>8. slot[f] # 0 => c = slot[f] /\ H!Get(f).slot = slot
      BY <1>1, <1>5, <2>4
    <2>9. H!Bad(H!Get(f)) <=> file[f] = 0
      BY <1>2, <2>5, <2>6 DEF H!Bad
    <2>10. Good(file, H!Get(f).slot, H!Get(f).ctx, H!Get(f).nonblock, asked, epoll, hpc, call)
      BY <1>2, <2>3, <2>4
    <2> QED BY <1>2, <1>3, <2>4, <2>5, <2>6, <2>7, <2>8, <2>9, <2>10
  <1> QED BY <1>7, <1>8

\* Contexts whose other fields change, or which no number refers to.
Same(r, s) == /\ r.fd_ = s.fd_ /\ r.is_initialize = s.is_initialize /\ r.closed_ = s.closed_
              /\ r.user_nonblock_ = s.user_nonblock_ /\ r.pending = s.pending
              /\ r.et_mode_ = s.et_mode_ /\ r.i_tasks_ = s.i_tasks_

\* The tables stay good when only fields change that no part is about.
LEMMA Refresh ==
    ASSUME NEW fl, NEW sl, NEW cx, NEW nb, NEW ak, NEW wt, NEW p, NEW cl,
           Good(fl, sl, cx, nb, ak, wt, p, cl),
           NEW cx2, cx2 \in [H!Ctx -> CtxRec],
           \A f \in Number : sl[f] # 0 => Same(cx2[sl[f]], cx[sl[f]])
    PROVE  Good(fl, sl, cx2, nb, ak, wt, p, cl)
  <1>0. /\ Tables(fl, sl, cx, nb, ak) /\ Callers(p, cl)
        /\ OwnCtx(fl, sl, cx, ak) /\ Shares(fl, sl) /\ Plain(fl, sl, cx, nb, ak)
        /\ Watched(fl, sl, cx, wt) /\ Calls(fl, sl, cx, p, cl)
    BY DEF Good
  <1>1. Tables(fl, sl, cx2, nb, ak)
    BY <1>0 DEF Tables
  <1>2. OwnCtx(fl, sl, cx2, ak)
    BY <1>0 DEF OwnCtx, Same
  <1>3. Plain(fl, sl, cx2, nb, ak)
    BY <1>0 DEF Plain, Same
  <1>4. Watched(fl, sl, cx2, wt)
    BY <1>0 DEF Watched, Same
  <1>5. Calls(fl, sl, cx2, p, cl)
    <2>1. ASSUME NEW t \in Reader, p[t] = "waiting"
          PROVE  cx2[cl[t].at].pending /\ t \in cx2[cl[t].at].i_tasks_
      <3>1. /\ cl[t].fd \in Number /\ cl[t].at # 0 /\ sl[cl[t].fd] = cl[t].at
            /\ cx[cl[t].at].pending /\ t \in cx[cl[t].at].i_tasks_
        BY <1>0, <2>1 DEF Calls
      <3> QED BY <3>1 DEF Same
    <2> QED BY <1>0, <2>1 DEF Calls
  <1> QED BY <1>0, <1>1, <1>2, <1>3, <1>4, <1>5 DEF Good

\* A call goes on without waiting, or begins with what the tables say.
LEMMA Move ==
    ASSUME NEW fl, NEW sl, NEW cx, NEW nb, NEW ak, NEW wt, NEW p, NEW cl,
           Good(fl, sl, cx, nb, ak, wt, p, cl),
           NEW t \in Reader, NEW l \in Label, l # "waiting",
           NEW a \in CallRec,
           l # "idle" => a.fd \in Number /\ fl[a.fd] \in {0, a.on},
           l = "EBADF" => a.on = 0
    PROVE  Good(fl, sl, cx, nb, ak, wt, [p EXCEPT ![t] = l], [cl EXCEPT ![t] = a])
  <1>0. /\ Callers(p, cl) /\ Calls(fl, sl, cx, p, cl)
    BY DEF Good
  <1> DEFINE p2 == [p EXCEPT ![t] = l]
             cl2 == [cl EXCEPT ![t] = a]
  <1>1. /\ p2 \in [Reader -> Label] /\ cl2 \in [Reader -> CallRec]
        /\ p2[t] = l /\ cl2[t] = a
        /\ \A u \in Reader \ {t} : p2[u] = p[u] /\ cl2[u] = cl[u]
    BY <1>0 DEF Callers
  <1> HIDE DEF p2, cl2
  <1>2. Callers(p2, cl2)
    BY <1>1 DEF Callers
  <1>3. Calls(fl, sl, cx, p2, cl2)
    <2>1. ASSUME NEW u \in Reader
          PROVE  /\ p2[u] # "idle" => cl2[u].fd \in Number /\ fl[cl2[u].fd] \in {0, cl2[u].on}
                 /\ p2[u] = "EBADF" => cl2[u].on = 0
                 /\ p2[u] = "waiting" => /\ cl2[u].at # 0 /\ sl[cl2[u].fd] = cl2[u].at
                                         /\ cx[cl2[u].at].pending /\ u \in cx[cl2[u].at].i_tasks_
      <3>1. CASE u = t
        BY <1>1, <3>1
      <3>2. CASE u # t
        BY <1>0, <1>1, <3>2 DEF Calls
      <3> QED BY <3>1, <3>2
    <2> QED BY <2>1 DEF Calls
  <1>4. Good(fl, sl, cx, nb, ak, wt, p2, cl2)
    BY <1>2, <1>3 DEF Good
  <1> QED BY <1>4 DEF p2, cl2

\* A number gets a new file, in a blocking mode.
LEMMA OpenOk ==
    ASSUME NEW fl, NEW sl, NEW cx, NEW nb, NEW ak, NEW wt, NEW p, NEW cl,
           Good(fl, sl, cx, nb, ak, wt, p, cl),
           NEW f \in Number, fl[f] = 0, NEW k \in H!File, \A x \in Number : fl[x] # k, 0 \notin H!File,
           \A t \in Reader : p[t] # "idle" => cl[t].fd # f,
           NEW fl2, fl2 = [fl EXCEPT ![f] = k],
           NEW nb2, nb2 = [nb EXCEPT ![k] = FALSE],
           NEW ak2, ak2 = [ak EXCEPT ![k] = FALSE]
    PROVE  Good(fl2, sl, cx, nb2, ak2, wt, p, cl)
  <1>0. /\ Tables(fl, sl, cx, nb, ak) /\ Callers(p, cl)
        /\ OwnCtx(fl, sl, cx, ak) /\ Shares(fl, sl) /\ Plain(fl, sl, cx, nb, ak)
        /\ Watched(fl, sl, cx, wt) /\ Calls(fl, sl, cx, p, cl)
    BY DEF Good
  <1>1. /\ fl2 \in [Number -> H!File \cup {0}] /\ fl2[f] = k /\ k # 0
        /\ \A x \in Number \ {f} : fl2[x] = fl[x] /\ fl[x] # k
    BY <1>0 DEF Tables
  <1>2. /\ nb2 \in [H!File -> BOOLEAN] /\ ak2 \in [H!File -> BOOLEAN] /\ ~nb2[k] /\ ~ak2[k]
        /\ \A j \in H!File \ {k} : nb2[j] = nb[j] /\ ak2[j] = ak[j]
    BY <1>0 DEF Tables
  <1>3. Tables(fl2, sl, cx, nb2, ak2)
    BY <1>0, <1>1, <1>2 DEF Tables
  <1>4. sl[f] # 0 => ~cx[sl[f]].is_initialize /\ cx[sl[f]].fd_ = f /\ ~cx[sl[f]].pending
    BY <1>0 DEF OwnCtx
  <1>5. \A x \in Number \ {f} : fl[x] # 0 => fl[x] \in H!File \ {k}
    BY <1>0, <1>1 DEF Tables
  <1>6. \A x \in Number \ {f} : sl[f] # 0 => sl[x] # sl[f]
    <2> SUFFICES ASSUME NEW x \in Number, sl[f] # 0, sl[x] = sl[f] PROVE x = f
      OBVIOUS
    <2>1. cx[sl[x]].fd_ = x
      BY <1>0, <1>4 DEF OwnCtx
    <2> QED BY <1>4, <2>1
  <1>7. OwnCtx(fl2, sl, cx, ak2)
    <2> SUFFICES ASSUME NEW x \in Number, sl[x] # 0
                 PROVE  LET r == cx[sl[x]]
                        IN  /\ ~r.closed_ /\ r.fd_ \in Number /\ sl[r.fd_] = sl[x]
                            /\ r.is_initialize => fl2[x] # 0 /\ r.user_nonblock_ = ak2[fl2[x]]
                            /\ ~r.is_initialize => r.fd_ = x /\ ~r.pending
      BY DEF OwnCtx
    <2>1. LET r == cx[sl[x]]
          IN  /\ ~r.closed_ /\ r.fd_ \in Number /\ sl[r.fd_] = sl[x]
              /\ r.is_initialize => fl[x] # 0 /\ r.user_nonblock_ = ak[fl[x]]
              /\ ~r.is_initialize => r.fd_ = x /\ ~r.pending
      BY <1>0 DEF OwnCtx
    <2>2. CASE x = f
      BY <1>4, <2>1, <2>2
    <2>3. CASE x # f
      <3>1. fl2[x] = fl[x] /\ (fl[x] # 0 => ak2[fl[x]] = ak[fl[x]])
        BY <1>1, <1>2, <1>5, <2>3
      <3> QED BY <2>1, <3>1
    <2> QED BY <2>2, <2>3
  <1>8. Shares(fl2, sl)
    BY <1>0, <1>1, <1>6 DEF Shares
  <1>9. Plain(fl2, sl, cx, nb2, ak2)
    <2> SUFFICES ASSUME NEW x \in Number, fl2[x] # 0, sl[x] = 0 \/ ~cx[sl[x]].is_initialize
                 PROVE  ~ak2[fl2[x]] /\ ~nb2[fl2[x]]
      BY DEF Plain
    <2>1. CASE x = f
      BY <1>1, <1>2, <2>1
    <2>2. CASE x # f
      <3>1. ~ak[fl[x]] /\ ~nb[fl[x]] /\ fl2[x] = fl[x] /\ fl[x] \in H!File \ {k}
        BY <1>0, <1>1, <1>5, <2>2 DEF Plain
      <3> QED BY <1>2, <3>1
    <2> QED BY <2>1, <2>2
  <1>10. Watched(fl2, sl, cx, wt)
    BY <1>0, <1>1, <1>4 DEF Watched
  <1>11. Calls(fl2, sl, cx, p, cl)
    BY <1>0, <1>1 DEF Calls
  <1> QED BY <1>0, <1>3, <1>7, <1>8, <1>9, <1>10, <1>11 DEF Good

\* The next five say what a step does to the tables, for the lemma after each:
\* number f goes,
Dropped(fl, sl, cx, ak, wt, p, cl, f, fl2, sl2, cx2, ak2, wt2, p2) ==
    /\ f \in Number
    /\ \A x \in Number \ {f} : sl[f] # 0 => sl[x] # sl[f]
    /\ fl2 = [fl EXCEPT ![f] = 0]
    /\ sl2 = [sl EXCEPT ![f] = 0]
    /\ cx2 \in [H!Ctx -> CtxRec]
    /\ \A c \in H!Ctx : c # sl[f] => cx2[c] = cx[c]
    /\ ak2 \in [H!File -> BOOLEAN]
    /\ wt2 \in [H!File -> WatchRec]
    /\ \A x \in Number : fl2[x] # 0 => ak2[fl2[x]] = ak[fl2[x]] /\ wt2[fl2[x]] = wt[fl2[x]]
    /\ p2 \in [Reader -> Label]
    /\ \A t \in Reader :
          \/ p2[t] = p[t] /\ ~(p[t] = "waiting" /\ cl[t].at = sl[f])
          \/ p[t] = "waiting" /\ p2[t] \in {"fn", "nothing"}

\* A number goes, with its context if it has one of its own; who waits there wakes.
LEMMA Drop ==
    ASSUME NEW fl, NEW sl, NEW cx, NEW nb, NEW ak, NEW wt, NEW p, NEW cl,
           Good(fl, sl, cx, nb, ak, wt, p, cl),
           NEW f, NEW fl2, NEW sl2, NEW cx2, NEW ak2, NEW wt2, NEW p2,
           Dropped(fl, sl, cx, ak, wt, p, cl, f, fl2, sl2, cx2, ak2, wt2, p2)
    PROVE  Good(fl2, sl2, cx2, nb, ak2, wt2, p2, cl)
  <1>a. /\ f \in Number
        /\ \A x \in Number \ {f} : sl[f] # 0 => sl[x] # sl[f]
        /\ fl2 = [fl EXCEPT ![f] = 0]
        /\ sl2 = [sl EXCEPT ![f] = 0]
        /\ cx2 \in [H!Ctx -> CtxRec]
        /\ \A c \in H!Ctx : c # sl[f] => cx2[c] = cx[c]
        /\ ak2 \in [H!File -> BOOLEAN]
        /\ wt2 \in [H!File -> WatchRec]
        /\ \A x \in Number : fl2[x] # 0 => ak2[fl2[x]] = ak[fl2[x]] /\ wt2[fl2[x]] = wt[fl2[x]]
        /\ p2 \in [Reader -> Label]
        /\ \A t \in Reader :
              \/ p2[t] = p[t] /\ ~(p[t] = "waiting" /\ cl[t].at = sl[f])
              \/ p[t] = "waiting" /\ p2[t] \in {"fn", "nothing"}
    BY DEF Dropped
  <1> USE <1>a
  <1>0. /\ Tables(fl, sl, cx, nb, ak) /\ Callers(p, cl)
        /\ OwnCtx(fl, sl, cx, ak) /\ Shares(fl, sl) /\ Plain(fl, sl, cx, nb, ak)
        /\ Watched(fl, sl, cx, wt) /\ Calls(fl, sl, cx, p, cl)
    BY DEF Good
  <1>1. /\ fl2 \in [Number -> H!File \cup {0}] /\ fl2[f] = 0 /\ sl2 \in [Number -> H!Ctx \cup {0}] /\ sl2[f] = 0
        /\ \A x \in Number \ {f} : fl2[x] = fl[x] /\ sl2[x] = sl[x]
    BY <1>0 DEF Tables
  <1>2. Tables(fl2, sl2, cx2, nb, ak2)
    BY <1>0, <1>1 DEF Tables
  <1>3. \A x \in Number : sl2[x] # 0 => /\ x # f /\ sl[x] = sl2[x] /\ sl[x] # sl[f] /\ sl[x] \in H!Ctx
                                        /\ cx2[sl2[x]] = cx[sl[x]] /\ fl2[x] = fl[x]
    BY <1>0, <1>1 DEF Tables
  <1>4. OwnCtx(fl2, sl2, cx2, ak2)
    <2> SUFFICES ASSUME NEW x \in Number, sl2[x] # 0
                 PROVE  LET r == cx2[sl2[x]]
                        IN  /\ ~r.closed_ /\ r.fd_ \in Number /\ sl2[r.fd_] = sl2[x]
                            /\ r.is_initialize => fl2[x] # 0 /\ r.user_nonblock_ = ak2[fl2[x]]
                            /\ ~r.is_initialize => r.fd_ = x /\ ~r.pending
      BY DEF OwnCtx
    <2>1. /\ x # f /\ sl[x] = sl2[x] /\ sl[x] # sl[f] /\ cx2[sl2[x]] = cx[sl[x]] /\ fl2[x] = fl[x]
      BY <1>3
    <2>2. LET r == cx[sl[x]]
          IN  /\ ~r.closed_ /\ r.fd_ \in Number /\ sl[r.fd_] = sl[x]
              /\ r.is_initialize => fl[x] # 0 /\ r.user_nonblock_ = ak[fl[x]]
              /\ ~r.is_initialize => r.fd_ = x /\ ~r.pending
      BY <1>0, <2>1 DEF OwnCtx
    <2>3. cx[sl[x]].fd_ # f
      BY <2>1, <2>2
    <2> QED BY <1>1, <2>1, <2>2, <2>3
  <1>5. Shares(fl2, sl2)
    BY <1>0, <1>1, <1>3 DEF Shares
  <1>6. Plain(fl2, sl2, cx2, nb, ak2)
    <2> SUFFICES ASSUME NEW x \in Number, fl2[x] # 0, sl2[x] = 0 \/ ~cx2[sl2[x]].is_initialize
                 PROVE  ~ak2[fl2[x]] /\ ~nb[fl2[x]]
      BY DEF Plain
    <2>1. x # f /\ fl2[x] = fl[x] /\ sl2[x] = sl[x]
      BY <1>1
    <2>2. ~ak[fl[x]] /\ ~nb[fl[x]]
      BY <1>0, <1>3, <2>1 DEF Plain
    <2> QED BY <2>1, <2>2
  <1>7. Watched(fl2, sl2, cx2, wt2)
    <2> SUFFICES ASSUME NEW x \in Number, sl2[x] # 0, cx2[sl2[x]].pending
                 PROVE  wt2[fl2[x]] = [fd |-> cx2[sl2[x]].fd_, et |-> cx2[sl2[x]].et_mode_]
      BY DEF Watched
    <2>0. sl[x] # 0 /\ cx[sl[x]].pending
      BY <1>3
    <2>1. wt[fl[x]] = [fd |-> cx[sl[x]].fd_, et |-> cx[sl[x]].et_mode_]
      BY <1>0, <2>0, Zenon DEF Watched
    <2>2. fl2[x] # 0
      BY <1>0, <1>3 DEF OwnCtx
    <2> QED BY <1>3, <2>1, <2>2
  <1>8. Callers(p2, cl)
    BY <1>0 DEF Callers
  <1>9. Calls(fl2, sl2, cx2, p2, cl)
    <2>1. ASSUME NEW t \in Reader
          PROVE  /\ p2[t] # "idle" => cl[t].fd \in Number /\ fl2[cl[t].fd] \in {0, cl[t].on}
                 /\ p2[t] = "EBADF" => cl[t].on = 0
      <3>1. p2[t] # "idle" => p[t] # "idle"
        OBVIOUS
      <3>2. p2[t] = "EBADF" => p[t] = "EBADF"
        OBVIOUS
      <3> QED BY <1>0, <1>1, <3>1, <3>2 DEF Calls
    <2>2. ASSUME NEW t \in Reader, p2[t] = "waiting"
          PROVE  /\ cl[t].at # 0 /\ sl2[cl[t].fd] = cl[t].at
                 /\ cx2[cl[t].at].pending /\ t \in cx2[cl[t].at].i_tasks_
      <3>1. p[t] = "waiting" /\ cl[t].at # sl[f]
        BY <2>2
      <3>2. /\ cl[t].fd \in Number /\ cl[t].at # 0 /\ sl[cl[t].fd] = cl[t].at
            /\ cx[cl[t].at].pending /\ t \in cx[cl[t].at].i_tasks_
        BY <1>0, <3>1 DEF Calls
      <3>3. cl[t].fd # f
        BY <3>1, <3>2
      <3>4. sl2[cl[t].fd] = cl[t].at
        BY <1>1, <3>2, <3>3
      <3> QED BY <1>3, <3>2, <3>4
    <2> QED BY <2>1, <2>2 DEF Calls
  <1> QED BY <1>2, <1>4, <1>5, <1>6, <1>7, <1>8, <1>9 DEF Good

\* number x becomes a duplicate of f,
Attached(fl, sl, cx, p, cl, f, x, fl2, sl2) ==
    /\ f \in Number
    /\ fl[f] # 0
    /\ sl[f] # 0
    /\ cx[sl[f]].is_initialize
    /\ x \in Number
    /\ fl[x] = 0
    /\ sl[x] = 0
    /\ \A t \in Reader : p[t] # "idle" => cl[t].fd # x
    /\ fl2 = [fl EXCEPT ![x] = fl[f]]
    /\ sl2 = [sl EXCEPT ![x] = sl[f]]

\* A free number becomes a duplicate of f.
LEMMA Attach ==
    ASSUME NEW fl, NEW sl, NEW cx, NEW nb, NEW ak, NEW wt, NEW p, NEW cl,
           Good(fl, sl, cx, nb, ak, wt, p, cl),
           NEW f, NEW x, NEW fl2, NEW sl2,
           Attached(fl, sl, cx, p, cl, f, x, fl2, sl2)
    PROVE  Good(fl2, sl2, cx, nb, ak, wt, p, cl)
  <1>a. /\ f \in Number
        /\ fl[f] # 0
        /\ sl[f] # 0
        /\ cx[sl[f]].is_initialize
        /\ x \in Number
        /\ fl[x] = 0
        /\ sl[x] = 0
        /\ \A t \in Reader : p[t] # "idle" => cl[t].fd # x
        /\ fl2 = [fl EXCEPT ![x] = fl[f]]
        /\ sl2 = [sl EXCEPT ![x] = sl[f]]
    BY DEF Attached
  <1> USE <1>a
  <1>0. /\ Tables(fl, sl, cx, nb, ak) /\ Callers(p, cl)
        /\ OwnCtx(fl, sl, cx, ak) /\ Shares(fl, sl) /\ Plain(fl, sl, cx, nb, ak)
        /\ Watched(fl, sl, cx, wt) /\ Calls(fl, sl, cx, p, cl)
    BY DEF Good
  <1>1. /\ fl2 \in [Number -> H!File \cup {0}] /\ fl2[x] = fl[f] /\ sl2 \in [Number -> H!Ctx \cup {0}] /\ sl2[x] = sl[f]
        /\ \A y \in Number \ {x} : fl2[y] = fl[y] /\ sl2[y] = sl[y]
    BY <1>0 DEF Tables
  <1>2. Tables(fl2, sl2, cx, nb, ak)
    BY <1>0, <1>1 DEF Tables
  <1>3. ASSUME NEW y \in Number, sl[y] # 0
        PROVE  cx[sl[y]].fd_ \in Number \ {x} /\ sl2[cx[sl[y]].fd_] = sl[y]
    <2>1. cx[sl[y]].fd_ \in Number /\ sl[cx[sl[y]].fd_] = sl[y]
      BY <1>0, <1>3 DEF OwnCtx
    <2> QED BY <1>1, <1>3, <2>1
  <1>4. OwnCtx(fl2, sl2, cx, ak)
    <2> SUFFICES ASSUME NEW y \in Number, sl2[y] # 0
                 PROVE  LET r == cx[sl2[y]]
                        IN  /\ ~r.closed_ /\ r.fd_ \in Number /\ sl2[r.fd_] = sl2[y]
                            /\ r.is_initialize => fl2[y] # 0 /\ r.user_nonblock_ = ak[fl2[y]]
                            /\ ~r.is_initialize => r.fd_ = y /\ ~r.pending
      BY DEF OwnCtx
    <2>1. CASE y = x
      <3>1. LET r == cx[sl[f]]
            IN  ~r.closed_ /\ r.user_nonblock_ = ak[fl[f]]
        BY <1>0 DEF OwnCtx
      <3> QED BY <1>1, <1>3, <2>1, <3>1
    <2>2. CASE y # x
      <3>1. LET r == cx[sl[y]]
            IN  /\ ~r.closed_
                /\ r.is_initialize => fl[y] # 0 /\ r.user_nonblock_ = ak[fl[y]]
                /\ ~r.is_initialize => r.fd_ = y /\ ~r.pending
        BY <1>0, <1>1, <2>2 DEF OwnCtx
      <3> QED BY <1>1, <1>3, <2>2, <3>1
    <2> QED BY <2>1, <2>2
  <1>5. Shares(fl2, sl2)
    <2>1. \A y, z \in Number : /\ sl[y] # 0 /\ sl[y] = sl[z] => fl[y] = fl[z]
                               /\ y # z /\ fl[y] # 0 /\ fl[y] = fl[z] => sl[y] # 0 /\ sl[y] = sl[z]
      BY <1>0 DEF Shares
    <2> SUFFICES ASSUME NEW y \in Number, NEW z \in Number
                 PROVE  /\ sl2[y] # 0 /\ sl2[y] = sl2[z] => fl2[y] = fl2[z]
                        /\ y # z /\ fl2[y] # 0 /\ fl2[y] = fl2[z] => sl2[y] # 0 /\ sl2[y] = sl2[z]
      BY DEF Shares
    <2>2. CASE y = x
      BY <1>1, <2>1, <2>2
    <2>3. CASE y # x /\ z = x
      BY <1>1, <2>1, <2>3
    <2>4. CASE y # x /\ z # x
      BY <1>1, <2>1, <2>4
    <2> QED BY <2>2, <2>3, <2>4
  <1>6. Plain(fl2, sl2, cx, nb, ak)
    BY <1>0, <1>1 DEF Plain
  <1>7. Watched(fl2, sl2, cx, wt)
    BY <1>0, <1>1 DEF Watched
  <1>8. Calls(fl2, sl2, cx, p, cl)
    BY <1>0, <1>1 DEF Calls
  <1> QED BY <1>0, <1>2, <1>4, <1>5, <1>6, <1>7, <1>8 DEF Good

\* the user sets the mode of f,
FlagSet(fl, sl, cx, ak, f, b, r2, cx2, ak2) ==
    /\ f \in Number
    /\ fl[f] # 0
    /\ sl[f] # 0
    /\ cx[sl[f]].is_initialize
    /\ b \in BOOLEAN
    /\ r2 \in CtxRec
    /\ r2 = [cx[sl[f]] EXCEPT !.user_nonblock_ = b]
    /\ cx2 = [cx EXCEPT ![sl[f]] = r2]
    /\ ak2 = [ak EXCEPT ![fl[f]] = b]

\* The user's mode changes: in the context of f and for its file.
LEMMA FlagOk ==
    ASSUME NEW fl, NEW sl, NEW cx, NEW nb, NEW ak, NEW wt, NEW p, NEW cl,
           Good(fl, sl, cx, nb, ak, wt, p, cl),
           NEW f, NEW b, NEW r2, NEW cx2, NEW ak2,
           FlagSet(fl, sl, cx, ak, f, b, r2, cx2, ak2)
    PROVE  Good(fl, sl, cx2, nb, ak2, wt, p, cl)
  <1>a. /\ f \in Number
        /\ fl[f] # 0
        /\ sl[f] # 0
        /\ cx[sl[f]].is_initialize
        /\ b \in BOOLEAN
        /\ r2 \in CtxRec
        /\ r2 = [cx[sl[f]] EXCEPT !.user_nonblock_ = b]
        /\ cx2 = [cx EXCEPT ![sl[f]] = r2]
        /\ ak2 = [ak EXCEPT ![fl[f]] = b]
    BY DEF FlagSet
  <1> USE <1>a
  <1>0. /\ Tables(fl, sl, cx, nb, ak) /\ Callers(p, cl)
        /\ OwnCtx(fl, sl, cx, ak) /\ Shares(fl, sl) /\ Plain(fl, sl, cx, nb, ak)
        /\ Watched(fl, sl, cx, wt) /\ Calls(fl, sl, cx, p, cl)
    BY DEF Good
  <1>1. sl[f] \in H!Ctx /\ fl[f] \in H!File /\ cx[sl[f]] \in CtxRec
    BY <1>0 DEF Tables
  <1>2. /\ r2.fd_ = cx[sl[f]].fd_ /\ r2.is_initialize = cx[sl[f]].is_initialize
        /\ r2.closed_ = cx[sl[f]].closed_ /\ r2.pending = cx[sl[f]].pending
        /\ r2.et_mode_ = cx[sl[f]].et_mode_ /\ r2.i_tasks_ = cx[sl[f]].i_tasks_
        /\ r2.user_nonblock_ = b
    BY <1>1 DEF CtxRec
  <1>3. /\ cx2 \in [H!Ctx -> CtxRec] /\ cx2[sl[f]] = r2 /\ \A c \in H!Ctx : c # sl[f] => cx2[c] = cx[c]
    BY <1>0, <1>1 DEF Tables
  <1>4. /\ ak2 \in [H!File -> BOOLEAN] /\ ak2[fl[f]] = b /\ \A k \in H!File : k # fl[f] => ak2[k] = ak[k]
    BY <1>0, <1>1 DEF Tables
  <1>5. \A x \in Number : sl[x] # 0 =>
           /\ cx2[sl[x]].fd_ = cx[sl[x]].fd_ /\ cx2[sl[x]].is_initialize = cx[sl[x]].is_initialize
           /\ cx2[sl[x]].closed_ = cx[sl[x]].closed_ /\ cx2[sl[x]].pending = cx[sl[x]].pending
           /\ cx2[sl[x]].et_mode_ = cx[sl[x]].et_mode_ /\ cx2[sl[x]].i_tasks_ = cx[sl[x]].i_tasks_
    BY <1>0, <1>2, <1>3 DEF Tables
  <1>6. Tables(fl, sl, cx2, nb, ak2)
    BY <1>0, <1>3, <1>4 DEF Tables
  <1>7. OwnCtx(fl, sl, cx2, ak2)
    <2> SUFFICES ASSUME NEW x \in Number, sl[x] # 0
                 PROVE  LET r == cx2[sl[x]]
                        IN  /\ ~r.closed_ /\ r.fd_ \in Number /\ sl[r.fd_] = sl[x]
                            /\ r.is_initialize => fl[x] # 0 /\ r.user_nonblock_ = ak2[fl[x]]
                            /\ ~r.is_initialize => r.fd_ = x /\ ~r.pending
      BY DEF OwnCtx
    <2>1. LET r == cx[sl[x]]
          IN  /\ ~r.closed_ /\ r.fd_ \in Number /\ sl[r.fd_] = sl[x]
              /\ r.is_initialize => fl[x] # 0 /\ r.user_nonblock_ = ak[fl[x]]
              /\ ~r.is_initialize => r.fd_ = x /\ ~r.pending
      BY <1>0 DEF OwnCtx
    <2>2. cx2[sl[x]].is_initialize => cx2[sl[x]].user_nonblock_ = ak2[fl[x]]
      <3>1. CASE sl[x] = sl[f]
        <4>1. fl[x] = fl[f]
          BY <1>0, <3>1 DEF Shares
        <4> QED BY <1>2, <1>3, <1>4, <3>1, <4>1
      <3>2. CASE sl[x] # sl[f]
        <4>1. sl[x] \in H!Ctx /\ fl[x] \in H!File \cup {0}
          BY <1>0 DEF Tables
        <4>2. fl[x] # fl[f]
          BY <1>0, <3>2 DEF Shares
        <4> QED BY <1>3, <1>4, <2>1, <3>2, <4>1, <4>2
      <3> QED BY <3>1, <3>2
    <2> QED BY <1>5, <2>1, <2>2
  <1>8. Plain(fl, sl, cx2, nb, ak2)
    <2> SUFFICES ASSUME NEW x \in Number, fl[x] # 0, sl[x] = 0 \/ ~cx2[sl[x]].is_initialize
                 PROVE  ~ak2[fl[x]] /\ ~nb[fl[x]]
      BY DEF Plain
    <2>1. sl[x] = 0 \/ ~cx[sl[x]].is_initialize
      BY <1>5
    <2>2. ~ak[fl[x]] /\ ~nb[fl[x]] /\ fl[x] \in H!File
      BY <1>0, <2>1 DEF Plain, Tables
    <2>3. sl[x] # sl[f]
      BY <2>1
    <2>4. fl[x] # fl[f]
      BY <1>0, <2>3 DEF Shares
    <2> QED BY <1>4, <2>2, <2>4
  <1>9. Watched(fl, sl, cx2, wt)
    BY <1>0, <1>5 DEF Watched
  <1>10. Calls(fl, sl, cx2, p, cl)
    <2>1. ASSUME NEW t \in Reader, p[t] = "waiting"
          PROVE  cx2[cl[t].at].pending /\ t \in cx2[cl[t].at].i_tasks_
      <3>1. /\ cl[t].fd \in Number /\ cl[t].at # 0 /\ sl[cl[t].fd] = cl[t].at
            /\ cx[cl[t].at].pending /\ t \in cx[cl[t].at].i_tasks_
        BY <1>0, <2>1 DEF Calls
      <3> QED BY <1>5, <3>1
    <2>2. \A t \in Reader : /\ p[t] # "idle" => cl[t].fd \in Number /\ fl[cl[t].fd] \in {0, cl[t].on}
                            /\ p[t] = "EBADF" => cl[t].on = 0
                            /\ p[t] = "waiting" => cl[t].at # 0 /\ sl[cl[t].fd] = cl[t].at
      BY <1>0 DEF Calls
    <2> QED BY <2>1, <2>2 DEF Calls
  <1> QED BY <1>0, <1>6, <1>7, <1>8, <1>9, <1>10 DEF Good

\* the entry of epoll for the context of f is made or changes its mode,
Enrolled(fl, sl, cx, wt, f, r2, cx2, wt2) ==
    /\ f \in Number
    /\ sl[f] # 0
    /\ cx[sl[f]].is_initialize
    /\ r2 \in CtxRec
    /\ r2.fd_ = cx[sl[f]].fd_
    /\ r2.is_initialize = cx[sl[f]].is_initialize
    /\ r2.closed_ = cx[sl[f]].closed_
    /\ r2.user_nonblock_ = cx[sl[f]].user_nonblock_
    /\ r2.i_tasks_ = cx[sl[f]].i_tasks_
    /\ (cx[sl[f]].pending => r2.pending)
    /\ cx2 = [cx EXCEPT ![sl[f]] = r2]
    /\ wt2 \in [H!File -> WatchRec]
    /\ (r2.pending => wt2[fl[f]] = [fd |-> r2.fd_, et |-> r2.et_mode_])
    /\ \A k \in H!File : k # fl[f] => wt2[k] = wt[k]

\* The registration of f's context is made, or its mode changes.
LEMMA Enroll ==
    ASSUME NEW fl, NEW sl, NEW cx, NEW nb, NEW ak, NEW wt, NEW p, NEW cl,
           Good(fl, sl, cx, nb, ak, wt, p, cl),
           NEW f, NEW r2, NEW cx2, NEW wt2,
           Enrolled(fl, sl, cx, wt, f, r2, cx2, wt2)
    PROVE  Good(fl, sl, cx2, nb, ak, wt2, p, cl)
  <1>a. /\ f \in Number
        /\ sl[f] # 0
        /\ cx[sl[f]].is_initialize
        /\ r2 \in CtxRec
        /\ r2.fd_ = cx[sl[f]].fd_
        /\ r2.is_initialize = cx[sl[f]].is_initialize
        /\ r2.closed_ = cx[sl[f]].closed_
        /\ r2.user_nonblock_ = cx[sl[f]].user_nonblock_
        /\ r2.i_tasks_ = cx[sl[f]].i_tasks_
        /\ (cx[sl[f]].pending => r2.pending)
        /\ cx2 = [cx EXCEPT ![sl[f]] = r2]
        /\ wt2 \in [H!File -> WatchRec]
        /\ (r2.pending => wt2[fl[f]] = [fd |-> r2.fd_, et |-> r2.et_mode_])
        /\ \A k \in H!File : k # fl[f] => wt2[k] = wt[k]
    BY DEF Enrolled
  <1> USE <1>a
  <1>0. /\ Tables(fl, sl, cx, nb, ak) /\ Callers(p, cl)
        /\ OwnCtx(fl, sl, cx, ak) /\ Shares(fl, sl) /\ Plain(fl, sl, cx, nb, ak)
        /\ Watched(fl, sl, cx, wt) /\ Calls(fl, sl, cx, p, cl)
    BY DEF Good
  <1>1. sl[f] \in H!Ctx
    BY <1>0 DEF Tables
  <1>2. /\ cx2 \in [H!Ctx -> CtxRec] /\ cx2[sl[f]] = r2 /\ \A c \in H!Ctx : c # sl[f] => cx2[c] = cx[c]
    BY <1>0, <1>1 DEF Tables
  <1>3. \A x \in Number : sl[x] # 0 =>
           /\ cx2[sl[x]].fd_ = cx[sl[x]].fd_ /\ cx2[sl[x]].is_initialize = cx[sl[x]].is_initialize
           /\ cx2[sl[x]].closed_ = cx[sl[x]].closed_ /\ cx2[sl[x]].user_nonblock_ = cx[sl[x]].user_nonblock_
           /\ cx2[sl[x]].i_tasks_ = cx[sl[x]].i_tasks_
           /\ cx[sl[x]].pending => cx2[sl[x]].pending
    BY <1>0, <1>2 DEF Tables
  <1>4. \A x \in Number : sl[x] # 0 /\ ~cx[sl[x]].is_initialize => sl[x] # sl[f] /\ cx2[sl[x]] = cx[sl[x]]
    BY <1>0, <1>2 DEF Tables
  <1>5. Tables(fl, sl, cx2, nb, ak)
    BY <1>0, <1>2 DEF Tables
  <1>6. OwnCtx(fl, sl, cx2, ak)
    <2> SUFFICES ASSUME NEW x \in Number, sl[x] # 0
                 PROVE  LET r == cx2[sl[x]]
                        IN  /\ ~r.closed_ /\ r.fd_ \in Number /\ sl[r.fd_] = sl[x]
                            /\ r.is_initialize => fl[x] # 0 /\ r.user_nonblock_ = ak[fl[x]]
                            /\ ~r.is_initialize => r.fd_ = x /\ ~r.pending
      BY DEF OwnCtx
    <2>1. LET r == cx[sl[x]]
          IN  /\ ~r.closed_ /\ r.fd_ \in Number /\ sl[r.fd_] = sl[x]
              /\ r.is_initialize => fl[x] # 0 /\ r.user_nonblock_ = ak[fl[x]]
              /\ ~r.is_initialize => r.fd_ = x /\ ~r.pending
      BY <1>0 DEF OwnCtx
    <2>2. ~cx2[sl[x]].is_initialize => cx2[sl[x]] = cx[sl[x]]
      BY <1>3, <1>4
    <2> QED BY <1>3, <2>1, <2>2
  <1>7. Plain(fl, sl, cx2, nb, ak)
    BY <1>0, <1>3 DEF Plain
  <1>8. Watched(fl, sl, cx2, wt2)
    <2> SUFFICES ASSUME NEW x \in Number, sl[x] # 0, cx2[sl[x]].pending
                 PROVE  wt2[fl[x]] = [fd |-> cx2[sl[x]].fd_, et |-> cx2[sl[x]].et_mode_]
      BY DEF Watched
    <2>1. CASE sl[x] = sl[f]
      <3>1. fl[x] = fl[f]
        BY <1>0, <2>1 DEF Shares
      <3> QED BY <1>2, <2>1, <3>1
    <2>2. CASE sl[x] # sl[f]
      <3>1. cx2[sl[x]] = cx[sl[x]]
        BY <1>0, <1>2, <2>2 DEF Tables
      <3>2. wt[fl[x]] = [fd |-> cx[sl[x]].fd_, et |-> cx[sl[x]].et_mode_]
        BY <1>0, <3>1, Zenon DEF Watched
      <3>3. fl[x] # 0
        BY <1>0, <3>1 DEF OwnCtx
      <3>4. fl[x] \in H!File /\ fl[x] # fl[f]
        BY <1>0, <2>2, <3>3 DEF Tables, Shares
      <3> QED BY <3>1, <3>2, <3>4
    <2> QED BY <2>1, <2>2
  <1>9. Calls(fl, sl, cx2, p, cl)
    <2>1. ASSUME NEW t \in Reader, p[t] = "waiting"
          PROVE  cx2[cl[t].at].pending /\ t \in cx2[cl[t].at].i_tasks_
      <3>1. /\ cl[t].fd \in Number /\ cl[t].at # 0 /\ sl[cl[t].fd] = cl[t].at
            /\ cx[cl[t].at].pending /\ t \in cx[cl[t].at].i_tasks_
        BY <1>0, <2>1 DEF Calls
      <3> QED BY <1>3, <3>1
    <2>2. \A t \in Reader : /\ p[t] # "idle" => cl[t].fd \in Number /\ fl[cl[t].fd] \in {0, cl[t].on}
                            /\ p[t] = "EBADF" => cl[t].on = 0
                            /\ p[t] = "waiting" => cl[t].at # 0 /\ sl[cl[t].fd] = cl[t].at
      BY <1>0 DEF Calls
    <2> QED BY <2>1, <2>2 DEF Calls
  <1> QED BY <1>0, <1>5, <1>6, <1>7, <1>8, <1>9 DEF Good

\* the waiters of the context of f change.
Rewaited(fl, sl, cx, wt, p, cl, f, r2, cx2, wt2, p2, cl2) ==
    /\ f \in Number
    /\ sl[f] # 0
    /\ r2 \in CtxRec
    /\ r2.fd_ = cx[sl[f]].fd_
    /\ r2.is_initialize = cx[sl[f]].is_initialize
    /\ r2.closed_ = cx[sl[f]].closed_
    /\ r2.user_nonblock_ = cx[sl[f]].user_nonblock_
    /\ r2.et_mode_ = cx[sl[f]].et_mode_
    /\ (r2.pending => cx[sl[f]].pending)
    /\ (r2.i_tasks_ # {} => r2.pending)
    /\ cx2 = [cx EXCEPT ![sl[f]] = r2]
    /\ wt2 \in [H!File -> WatchRec]
    /\ (r2.pending => wt2[fl[f]] = wt[fl[f]])
    /\ \A k \in H!File : k # fl[f] => wt2[k] = wt[k]
    /\ Callers(p2, cl2)
    /\ \A t \in Reader :
          \/ /\ p2[t] = p[t] /\ cl2[t] = cl[t]
             /\ p[t] = "waiting" /\ cl[t].at = sl[f] => t \in r2.i_tasks_
          \/ /\ t \in r2.i_tasks_ /\ p[t] # "idle" /\ p2[t] = "waiting"
             /\ cl2[t].fd = cl[t].fd /\ cl2[t].on = cl[t].on
             /\ cl2[t].at = sl[f] /\ sl[cl[t].fd] = sl[f]
          \/ p[t] = "waiting" /\ p2[t] \in {"fn", "nothing", "triggered"} /\ cl2[t] = cl[t]

\* The entries of the context of f change: who waits there keeps its entry or
\* leaves; without entries the context may end its registration.
LEMMA Waiters ==
    ASSUME NEW fl, NEW sl, NEW cx, NEW nb, NEW ak, NEW wt, NEW p, NEW cl,
           Good(fl, sl, cx, nb, ak, wt, p, cl),
           NEW f, NEW r2, NEW cx2, NEW wt2, NEW p2, NEW cl2,
           Rewaited(fl, sl, cx, wt, p, cl, f, r2, cx2, wt2, p2, cl2)
    PROVE  Good(fl, sl, cx2, nb, ak, wt2, p2, cl2)
  <1>a. /\ f \in Number
        /\ sl[f] # 0
        /\ r2 \in CtxRec
        /\ r2.fd_ = cx[sl[f]].fd_
        /\ r2.is_initialize = cx[sl[f]].is_initialize
        /\ r2.closed_ = cx[sl[f]].closed_
        /\ r2.user_nonblock_ = cx[sl[f]].user_nonblock_
        /\ r2.et_mode_ = cx[sl[f]].et_mode_
        /\ (r2.pending => cx[sl[f]].pending)
        /\ (r2.i_tasks_ # {} => r2.pending)
        /\ cx2 = [cx EXCEPT ![sl[f]] = r2]
        /\ wt2 \in [H!File -> WatchRec]
        /\ (r2.pending => wt2[fl[f]] = wt[fl[f]])
        /\ \A k \in H!File : k # fl[f] => wt2[k] = wt[k]
        /\ Callers(p2, cl2)
        /\ \A t \in Reader :
              \/ /\ p2[t] = p[t] /\ cl2[t] = cl[t]
                 /\ p[t] = "waiting" /\ cl[t].at = sl[f] => t \in r2.i_tasks_
              \/ /\ t \in r2.i_tasks_ /\ p[t] # "idle" /\ p2[t] = "waiting"
                 /\ cl2[t].fd = cl[t].fd /\ cl2[t].on = cl[t].on
                 /\ cl2[t].at = sl[f] /\ sl[cl[t].fd] = sl[f]
              \/ p[t] = "waiting" /\ p2[t] \in {"fn", "nothing", "triggered"} /\ cl2[t] = cl[t]
    BY DEF Rewaited
  <1> USE <1>a
  <1>0. /\ Tables(fl, sl, cx, nb, ak) /\ Callers(p, cl)
        /\ OwnCtx(fl, sl, cx, ak) /\ Shares(fl, sl) /\ Plain(fl, sl, cx, nb, ak)
        /\ Watched(fl, sl, cx, wt) /\ Calls(fl, sl, cx, p, cl)
    BY DEF Good
  <1>1. sl[f] \in H!Ctx
    BY <1>0 DEF Tables
  <1>2. /\ cx2 \in [H!Ctx -> CtxRec] /\ cx2[sl[f]] = r2 /\ \A c \in H!Ctx : c # sl[f] => cx2[c] = cx[c]
    BY <1>0, <1>1 DEF Tables
  <1>3. \A x \in Number : sl[x] # 0 =>
           /\ cx2[sl[x]].fd_ = cx[sl[x]].fd_ /\ cx2[sl[x]].is_initialize = cx[sl[x]].is_initialize
           /\ cx2[sl[x]].closed_ = cx[sl[x]].closed_ /\ cx2[sl[x]].user_nonblock_ = cx[sl[x]].user_nonblock_
           /\ cx2[sl[x]].et_mode_ = cx[sl[x]].et_mode_
           /\ cx2[sl[x]].pending => cx[sl[x]].pending
    BY <1>0, <1>2 DEF Tables
  <1>4. Tables(fl, sl, cx2, nb, ak)
    BY <1>0, <1>2 DEF Tables
  <1>5. OwnCtx(fl, sl, cx2, ak)
    <2> SUFFICES ASSUME NEW x \in Number, sl[x] # 0
                 PROVE  LET r == cx2[sl[x]]
                        IN  /\ ~r.closed_ /\ r.fd_ \in Number /\ sl[r.fd_] = sl[x]
                            /\ r.is_initialize => fl[x] # 0 /\ r.user_nonblock_ = ak[fl[x]]
                            /\ ~r.is_initialize => r.fd_ = x /\ ~r.pending
      BY DEF OwnCtx
    <2>1. LET r == cx[sl[x]]
          IN  /\ ~r.closed_ /\ r.fd_ \in Number /\ sl[r.fd_] = sl[x]
              /\ r.is_initialize => fl[x] # 0 /\ r.user_nonblock_ = ak[fl[x]]
              /\ ~r.is_initialize => r.fd_ = x /\ ~r.pending
      BY <1>0 DEF OwnCtx
    <2> QED BY <1>3, <2>1
  <1>6. Plain(fl, sl, cx2, nb, ak)
    BY <1>0, <1>3 DEF Plain
  <1>7. Watched(fl, sl, cx2, wt2)
    <2> SUFFICES ASSUME NEW x \in Number, sl[x] # 0, cx2[sl[x]].pending
                 PROVE  wt2[fl[x]] = [fd |-> cx2[sl[x]].fd_, et |-> cx2[sl[x]].et_mode_]
      BY DEF Watched
    <2>0. cx[sl[x]].pending
      BY <1>3
    <2>1. wt[fl[x]] = [fd |-> cx[sl[x]].fd_, et |-> cx[sl[x]].et_mode_]
      BY <1>0, <2>0, Zenon DEF Watched
    <2>2. wt2[fl[x]] = wt[fl[x]]
      <3>1. CASE sl[x] = sl[f]
        <4>1. fl[x] = fl[f]
          BY <1>0, <3>1 DEF Shares
        <4> QED BY <1>2, <3>1, <4>1
      <3>2. CASE sl[x] # sl[f]
        <4>1. fl[x] # 0
          BY <1>0, <2>0 DEF OwnCtx
        <4>2. fl[x] \in H!File /\ fl[x] # fl[f]
          BY <1>0, <3>2, <4>1 DEF Tables, Shares
        <4> QED BY <4>2
      <3> QED BY <3>1, <3>2
    <2> QED BY <1>3, <2>1, <2>2
  <1>8. ASSUME NEW t \in Reader, p[t] = "waiting"
        PROVE  /\ cl[t].fd \in Number /\ cl[t].at # 0 /\ cl[t].at \in H!Ctx /\ sl[cl[t].fd] = cl[t].at
               /\ cx[cl[t].at].pending /\ t \in cx[cl[t].at].i_tasks_
    BY <1>0, <1>8 DEF Calls, Tables
  <1>9. Calls(fl, sl, cx2, p2, cl2)
    <2>1. ASSUME NEW t \in Reader
          PROVE  /\ p2[t] # "idle" => cl2[t].fd \in Number /\ fl[cl2[t].fd] \in {0, cl2[t].on}
                 /\ p2[t] = "EBADF" => cl2[t].on = 0
      <3>1. p2[t] # "idle" => p[t] # "idle" /\ cl2[t].fd = cl[t].fd /\ cl2[t].on = cl[t].on
        OBVIOUS
      <3>2. p2[t] = "EBADF" => p[t] = "EBADF"
        OBVIOUS
      <3> QED BY <1>0, <3>1, <3>2 DEF Calls
    <2>2. ASSUME NEW t \in Reader, p2[t] = "waiting"
          PROVE  /\ cl2[t].at # 0 /\ sl[cl2[t].fd] = cl2[t].at
                 /\ cx2[cl2[t].at].pending /\ t \in cx2[cl2[t].at].i_tasks_
      <3>1. CASE p[t] # "waiting" \/ cl2[t] # cl[t]
        BY <1>2, <2>2, <3>1
      <3>2. CASE p[t] = "waiting" /\ cl2[t] = cl[t] /\ cl[t].at = sl[f]
        BY <1>2, <1>8, <2>2, <3>2
      <3>3. CASE p[t] = "waiting" /\ cl2[t] = cl[t] /\ cl[t].at # sl[f]
        BY <1>2, <1>8, <3>3
      <3> QED BY <3>1, <3>2, <3>3
    <2> QED BY <2>1, <2>2 DEF Calls
  <1> QED BY <1>0, <1>4, <1>5, <1>6, <1>7, <1>9 DEF Good

\* The initial records have their types.
LEMMA BlankOk == H!Blank \in CtxRec /\ H!NoCall \in CallRec /\ H!Unwatched \in WatchRec
                 /\ 0 \notin H!File /\ 0 \notin H!Ctx
  BY DEF H!Blank, H!NoCall, CtxRec, CallRec, WatchRec, H!File, H!Ctx

\* Setting readable_ changes nothing else, whether or not there is such a context.
LEMMA Readable ==
    ASSUME NEW cx \in [H!Ctx -> CtxRec], NEW c, NEW b \in BOOLEAN,
           NEW cx2, cx2 = [cx EXCEPT ![c].readable_ = b]
    PROVE  cx2 \in [H!Ctx -> CtxRec] /\ \A d \in H!Ctx : Same(cx2[d], cx[d])
  <1>1. ASSUME NEW d \in H!Ctx PROVE cx2[d] \in CtxRec /\ Same(cx2[d], cx[d])
    <2>0. cx[d] \in CtxRec
      OBVIOUS
    <2>1. CASE d = c
      <3>1. cx2[d] = [cx[d] EXCEPT !.readable_ = b]
        BY <2>1
      <3> QED BY <2>0, <3>1 DEF CtxRec, Same
    <2>2. CASE d # c
      <3>1. cx2[d] = cx[d]
        BY <2>2
      <3> QED BY <2>0, <3>1 DEF Same
    <2> QED BY <2>1, <2>2
  <1>2. cx2 = [d \in H!Ctx |-> cx2[d]]
    OBVIOUS
  <1> QED BY <1>1, <1>2

\* The types that Good gives.
LEMMA GoodTypes ==
    ASSUME NEW fl, NEW sl, NEW cx, NEW nb, NEW ak, NEW wt, NEW p, NEW cl,
           Good(fl, sl, cx, nb, ak, wt, p, cl)
    PROVE  /\ fl \in [Number -> H!File \cup {0}] /\ sl \in [Number -> H!Ctx \cup {0}] /\ cx \in [H!Ctx -> CtxRec]
           /\ nb \in [H!File -> BOOLEAN] /\ ak \in [H!File -> BOOLEAN] /\ wt \in [H!File -> WatchRec]
           /\ p \in [Reader -> Label] /\ cl \in [Reader -> CallRec]
  BY DEF Good, Tables, Callers, Watched

\* The same for a context that only a call refers to.
LEMMA RefreshAll ==
    ASSUME NEW fl, NEW sl, NEW cx, NEW nb, NEW ak, NEW wt, NEW p, NEW cl,
           Good(fl, sl, cx, nb, ak, wt, p, cl),
           NEW cx2, cx2 \in [H!Ctx -> CtxRec], \A d \in H!Ctx : Same(cx2[d], cx[d])
    PROVE  Good(fl, sl, cx2, nb, ak, wt, p, cl)
  <1>1. sl \in [Number -> H!Ctx \cup {0}]
    BY GoodTypes
  <1>2. \A f \in Number : sl[f] # 0 => Same(cx2[sl[f]], cx[sl[f]])
    BY <1>1
  <1> QED BY <1>2, Refresh

\* A call that does not wait goes on to another label.
LEMMA MoveOn ==
    ASSUME NEW fl, NEW sl, NEW cx, NEW nb, NEW ak, NEW wt, NEW p, NEW cl,
           Good(fl, sl, cx, nb, ak, wt, p, cl),
           NEW t \in Reader, p[t] \notin {"waiting", "idle"},
           NEW l \in Label, l \notin {"waiting", "EBADF"},
           NEW p2, p2 = [p EXCEPT ![t] = l]
    PROVE  Good(fl, sl, cx, nb, ak, wt, p2, cl)
  <1>1. cl \in [Reader -> CallRec] /\ cl[t] \in CallRec
    BY GoodTypes
  <1>2. cl[t].fd \in Number /\ fl[cl[t].fd] \in {0, cl[t].on}
    BY DEF Good, Calls
  <1>3. Good(fl, sl, cx, nb, ak, wt, [p EXCEPT ![t] = l], [cl EXCEPT ![t] = cl[t]])
    BY <1>1, <1>2, Move
  <1>4. [cl EXCEPT ![t] = cl[t]] = cl
    BY <1>1
  <1> QED BY <1>3, <1>4

\* The end of a call frees no context that a number refers to.
LEMMA WithoutCallOk ==
    ASSUME NEW cs \in [H!Ctx -> CtxRec], NEW t \in Reader
    PROVE  /\ H!WithoutCall(cs, t) \in [H!Ctx -> CtxRec]
           /\ \A f \in Number : slot[f] \in H!Ctx => H!WithoutCall(cs, t)[slot[f]] = cs[slot[f]]
  <1>1. H!WithoutCall(cs, t) \in [H!Ctx -> CtxRec]
    BY BlankOk DEF H!WithoutCall
  <1> QED BY <1>1 DEF H!WithoutCall

\* A call ends.
LEMMA Leave ==
    ASSUME NEW cs, NEW nb, NEW wt, Good(file, slot, cs, nb, asked, wt, hpc, call),
           NEW t \in Reader
    PROVE  Good(file, slot, H!WithoutCall(cs, t), nb, asked, wt,
                [hpc EXCEPT ![t] = "idle"], [call EXCEPT ![t] = H!NoCall])
  <1>1. slot \in [Number -> H!Ctx \cup {0}] /\ cs \in [H!Ctx -> CtxRec]
    BY GoodTypes
  <1>2. \A f \in Number : slot[f] # 0 => Same(H!WithoutCall(cs, t)[slot[f]], cs[slot[f]])
    BY <1>1, WithoutCallOk DEF Same
  <1>3. Good(file, slot, H!WithoutCall(cs, t), nb, asked, wt, hpc, call)
    BY <1>1, <1>2, WithoutCallOk, Refresh
  <1>4. "idle" \in Label
    BY DEF Label
  <1> QED BY <1>3, <1>4, BlankOk, Move

\* The file of a call's number is the one it was made on, or none.
LEMMA CallFile ==
    ASSUME HookOk, NEW t \in Reader, hpc[t] # "idle"
    PROVE  /\ call[t].fd \in Number
           /\ file[call[t].fd] # 0 => ~H!Gone(t)
           /\ file[call[t].fd] = 0 => H!Gone(t)
           /\ hpc[t] = "EBADF" => H!Gone(t)
  <1>1. call[t].fd \in Number /\ file[call[t].fd] \in {0, call[t].on} /\ (hpc[t] = "EBADF" => call[t].on = 0)
    BY DEF HookOk, Good, Calls
  <1> QED BY <1>1 DEF H!Gone

\* Nothing is open at the start.
LEMMA InitHook == ASSUME H!Init PROVE HookInv
  <1>1. Tables(file, slot, ctx, nonblock, asked) /\ Callers(hpc, call)
    BY BlankOk DEF H!Init, Tables, Callers, Label
  <1>2. Watched(file, slot, ctx, epoll)
    BY BlankOk DEF H!Init, Watched
  <1>3. OwnCtx(file, slot, ctx, asked) /\ Shares(file, slot) /\ Plain(file, slot, ctx, nonblock, asked)
        /\ Calls(file, slot, ctx, hpc, call)
    BY DEF H!Init, OwnCtx, Shares, Plain, Calls
  <1> QED BY <1>1, <1>2, <1>3 DEF HookInv, HookOk, Good, H!Init

\* Steps of a call that ends or goes on without touching the tables.
LEMMA SmallSteps ==
    ASSUME HookOk, wrong = {}, NEW t \in Reader,
           H!BadFd(t) \/ H!Direct(t) \/ H!Look(t) \/ H!Triggered(t) \/ H!Fn(t) \/ H!Reset(t)
    PROVE  HookOk' /\ wrong' = {}
  <1>0. Good(file, slot, ctx, nonblock, asked, epoll, hpc, call)
    BY DEF HookOk
  <1>1. ctx \in [H!Ctx -> CtxRec]
    BY <1>0, GoodTypes
  <1>2. hpc[t] \in {"EBADF", "direct", "look", "triggered", "fn", "EAGAIN", "drained"}
    BY DEF H!BadFd, H!Direct, H!Look, H!Triggered, H!Fn, H!Reset
  <1>3. UNCHANGED <<file, slot, nonblock, asked, epoll>>
    BY DEF H!BadFd, H!Direct, H!Look, H!Triggered, H!Fn, H!Reset, H!kernelVars
  <1>4. /\ call[t].fd \in Number
        /\ file[call[t].fd] # 0 => ~H!Gone(t)
        /\ file[call[t].fd] = 0 => H!Gone(t)
        /\ hpc[t] = "EBADF" => H!Gone(t)
    BY <1>2, CallFile
  <1>5. ASSUME NEW cs, Good(file, slot, cs, nonblock, asked, epoll, hpc, call), ctx' = H!WithoutCall(cs, t),
               hpc' = [hpc EXCEPT ![t] = "idle"], call' = [call EXCEPT ![t] = H!NoCall]
        PROVE  HookOk'
    <2>1. Good(file, slot, ctx', nonblock, asked, epoll, hpc', call')
      BY <1>2, <1>5, Leave
    <2> QED BY <1>3, <2>1 DEF HookOk
  <1>6. ASSUME NEW l \in Label, l \notin {"waiting", "EBADF"}, hpc' = [hpc EXCEPT ![t] = l], call' = call,
               Good(file, slot, ctx', nonblock, asked, epoll, hpc, call)
        PROVE  HookOk'
    <2>1. Good(file, slot, ctx', nonblock, asked, epoll, hpc', call)
      BY <1>2, <1>6, MoveOn
    <2> QED BY <1>3, <1>6, <2>1 DEF HookOk
  <1>7. CASE H!BadFd(t)
    BY <1>0, <1>4, <1>5, <1>7 DEF H!BadFd, H!Return
  <1>8. CASE H!Direct(t)
    <2>1. /\ hpc' = [hpc EXCEPT ![t] = "idle"] /\ call' = [call EXCEPT ![t] = H!NoCall]
          /\ ctx' = H!WithoutCall(ctx, t)
      BY <1>8 DEF H!Direct, H!Return
    <2>2. wrong' = wrong
      BY <1>4, <1>8 DEF H!Direct, H!Return
    <2> QED BY <1>0, <1>5, <2>1, <2>2
  <1>9. CASE H!Look(t)
    <2>1. hpc' = [hpc EXCEPT ![t] = "fn"] \/ hpc' = [hpc EXCEPT ![t] = "poll"]
      BY <1>9 DEF H!Look, H!Goto
    <2>2. ctx' = ctx /\ call' = call /\ wrong' = wrong
      BY <1>9 DEF H!Look
    <2>3. "fn" \in Label /\ "poll" \in Label
      BY DEF Label
    <2>4. Good(file, slot, ctx', nonblock, asked, epoll, hpc, call)
      BY <1>0, <2>2
    <2> QED BY <1>6, <2>1, <2>2, <2>3, <2>4
  <1>10. CASE H!Triggered(t)
    <2>1. hpc' = [hpc EXCEPT ![t] = "fn"] /\ call' = call /\ wrong' = wrong
      BY <1>10 DEF H!Triggered, H!Goto
    <2>2. ctx' \in [H!Ctx -> CtxRec] /\ \A d \in H!Ctx : Same(ctx'[d], ctx[d])
      BY <1>1, <1>10, Readable DEF H!Triggered
    <2>3. Good(file, slot, ctx', nonblock, asked, epoll, hpc, call)
      BY <1>0, <2>2, RefreshAll
    <2>4. "fn" \in Label
      BY DEF Label
    <2> QED BY <1>6, <2>1, <2>3, <2>4
  <1>11. CASE H!Fn(t)
    <2>1. CASE /\ hpc' = [hpc EXCEPT ![t] = "idle"] /\ call' = [call EXCEPT ![t] = H!NoCall]
               /\ ctx' = H!WithoutCall(ctx, t)
      <3>1. wrong' = wrong
        BY <1>2, <1>4, <1>11, <2>1 DEF H!Fn, H!Return, H!Goto
      <3> QED BY <1>0, <1>5, <2>1, <3>1
    <2>2. CASE /\ hpc' = [hpc EXCEPT ![t] = "drained"] \/ hpc' = [hpc EXCEPT ![t] = "EAGAIN"]
               /\ ctx' = ctx /\ call' = call /\ wrong' = wrong
      <3>1. "drained" \in Label /\ "EAGAIN" \in Label
        BY DEF Label
      <3>2. Good(file, slot, ctx', nonblock, asked, epoll, hpc, call)
        BY <1>0, <2>2
      <3> QED BY <1>6, <2>2, <3>1, <3>2
    <2> QED BY <1>4, <1>11, <2>1, <2>2 DEF H!Fn, H!Return, H!Goto
  <1>12. CASE H!Reset(t)
    <2>1. PICK cs : cs = [ctx EXCEPT ![call[t].ctx].readable_ = FALSE]
      OBVIOUS
    <2>2. cs \in [H!Ctx -> CtxRec] /\ \A d \in H!Ctx : Same(cs[d], ctx[d])
      BY <1>1, <2>1, Readable
    <2>3. Good(file, slot, cs, nonblock, asked, epoll, hpc, call)
      BY <1>0, <2>2, RefreshAll
    <2>4. CASE hpc' = [hpc EXCEPT ![t] = "look"] /\ ctx' = cs /\ call' = call /\ wrong' = wrong
      <3>1. "look" \in Label
        BY DEF Label
      <3>2. Good(file, slot, ctx', nonblock, asked, epoll, hpc, call)
        BY <2>3, <2>4
      <3> QED BY <1>6, <2>4, <3>1, <3>2
    <2>5. CASE /\ hpc' = [hpc EXCEPT ![t] = "idle"] /\ call' = [call EXCEPT ![t] = H!NoCall]
               /\ ctx' = H!WithoutCall(cs, t) /\ wrong' = wrong
      BY <1>5, <2>3, <2>5
    <2> QED BY <1>12, <2>1, <2>4, <2>5 DEF H!Reset, H!Return, H!Goto
  <1> QED BY <1>7, <1>8, <1>9, <1>10, <1>11, <1>12

\* socket().
LEMMA OpenStep ==
    ASSUME HookOk, wrong = {}, NEW f \in Number, NEW b \in BOOLEAN, H!Open(f, b), lapse' = {}
    PROVE  HookOk' /\ wrong' = {}
  <1>0. Good(file, slot, ctx, nonblock, asked, epoll, hpc, call)
    BY DEF HookOk
  <1>1. ~b /\ ~H!InUse(f) /\ file[f] = 0
    BY DEF H!Open
  <1>2. PICK k \in H!NewFile : /\ file' = [file EXCEPT ![f] = k]
                             /\ nonblock' = [nonblock EXCEPT ![k] = b]
                             /\ asked' = [asked EXCEPT ![k] = b]
    BY DEF H!Open
  <1>3. b = FALSE
    BY <1>1
  <1>4. k \in H!File /\ \A x \in Number : file[x] # k
    BY DEF H!NewFile, H!IsOpen
  <1>5. \A t \in Reader : hpc[t] # "idle" => call[t].fd # f
    BY <1>1 DEF H!InUse
  <1>6. UNCHANGED <<slot, ctx, epoll, hpc, call, wrong>>
    BY DEF H!Open
  <1>7. Good(file', slot, ctx, nonblock', asked', epoll, hpc, call)
    BY <1>0, <1>1, <1>2, <1>3, <1>4, <1>5, BlankOk, OpenOk
  <1> QED BY <1>6, <1>7 DEF HookOk

\* The head of read_write_mode.
LEMMA ReadStep ==
    ASSUME H!ConstOk, HookOk, wrong = {}, NEW t \in Reader, NEW f \in Number, NEW big \in BOOLEAN, H!Read(t, f, big)
    PROVE  HookOk' /\ wrong' = {}
  <1>0. Good(file, slot, ctx, nonblock, asked, epoll, hpc, call)
    BY DEF HookOk
  <1>1. /\ H!Get(f).id \in H!Ctx /\ H!Get(f).slot[f] = H!Get(f).id
        /\ Good(file, H!Get(f).slot, H!Get(f).ctx, H!Get(f).nonblock, asked, epoll, hpc, call)
        /\ H!Bad(H!Get(f)) <=> file[f] = 0
        /\ H!Get(f).ctx[H!Get(f).id].is_initialize <=> file[f] # 0
    BY <1>0, GetOk
  <1>2. /\ hpc[t] = "idle" /\ slot' = H!Get(f).slot /\ ctx' = H!Get(f).ctx /\ nonblock' = H!Get(f).nonblock
        /\ UNCHANGED <<file, epoll, asked>>
    BY DEF H!Read
  <1>3. PICK l \in Label : /\ hpc' = [hpc EXCEPT ![t] = l] /\ l \notin {"idle", "waiting"}
                           /\ l = "EBADF" => file[f] = 0
    <2>1. \/ H!Bad(H!Get(f)) /\ hpc' = [hpc EXCEPT ![t] = "EBADF"]
          \/ hpc' = [hpc EXCEPT ![t] = "direct"] \/ hpc' = [hpc EXCEPT ![t] = "look"]
      BY DEF H!Read, H!Goto
    <2> QED BY <1>1, <2>1 DEF Label
  <1>4. PICK a \in CallRec : call' = [call EXCEPT ![t] = a] /\ a.fd = f /\ a.on = file[f]
    <2> DEFINE r == H!Get(f).ctx[H!Get(f).id]
               a == [fd |-> f, on |-> file[f], ctx |-> H!Get(f).id, at |-> 0, timed |-> r.recv_o_, big |-> big]
    <2>1. call' = [call EXCEPT ![t] = a]
      BY DEF H!Read
    <2>2. file[f] \in H!File \cup {0} /\ H!Get(f).ctx \in [H!Ctx -> CtxRec]
      BY <1>0, <1>1, GoodTypes
    <2>3. r.recv_o_ \in BOOLEAN
      BY <1>1, <2>2 DEF CtxRec
    <2> HIDE DEF r
    <2>4. a \in CallRec
      BY <1>1, <2>2, <2>3 DEF CallRec
    <2> QED BY <2>1, <2>4
  <1>5. Good(file, slot', ctx', nonblock', asked, epoll, hpc', call')
    <2>1. Good(file, slot', ctx', nonblock', asked, epoll, hpc, call)
      BY <1>1, <1>2
    <2>2. Good(file, slot', ctx', nonblock', asked, epoll, [hpc EXCEPT ![t] = l], [call EXCEPT ![t] = a])
      BY <1>2, <1>3, <1>4, <2>1, Move
    <2> QED BY <1>3, <1>4, <2>2
  <1>6. wrong' = {}
    <2>1. CASE H!Bad(H!Get(f))
      BY <2>1 DEF H!Read
    <2>2. CASE ~H!Bad(H!Get(f))
      <3>1. file[f] # 0 /\ H!Get(f).ctx[H!Get(f).id].is_initialize /\ H!Get(f).slot[f] # 0
        BY <1>1, <2>2, BlankOk
      <3>2. H!Get(f).ctx[H!Get(f).id].user_nonblock_ = asked[file[f]]
        BY <1>1, <3>1 DEF Good, OwnCtx
      <3>3. asked[file[f]] \in BOOLEAN
        BY <1>0, <3>1, GoodTypes
      <3>4. (file[f] # 0 /\ asked[file[f]]) = asked[file[f]]
        BY <3>1, <3>3
      <3>5. ~(H!Get(f).ctx[H!Get(f).id].user_nonblock_ # (file[f] # 0 /\ asked[file[f]]))
        BY <3>2, <3>4
      <3> QED BY <3>5 DEF H!Read
    <2> QED BY <2>1, <2>2
  <1> QED BY <1>2, <1>5, <1>6 DEF HookOk

\* fcntl, ioctl and setsockopt.
LEMMA FlagSteps ==
    ASSUME H!ConstOk, HookOk, wrong = {}, NEW f \in Number, NEW b \in BOOLEAN, H!SetFlags(f, b) \/ H!SetTimeout(f, b)
    PROVE  HookOk' /\ wrong' = {}
  <1>0. Good(file, slot, ctx, nonblock, asked, epoll, hpc, call)
    BY DEF HookOk
  <1>1. file[f] # 0 /\ slot' = H!Get(f).slot /\ UNCHANGED <<file, epoll, hpc, call, wrong>>
    BY DEF H!SetFlags, H!SetTimeout
  <1>2. /\ H!Get(f).id \in H!Ctx /\ H!Get(f).slot[f] = H!Get(f).id
        /\ Good(file, H!Get(f).slot, H!Get(f).ctx, H!Get(f).nonblock, asked, epoll, hpc, call)
        /\ ~H!Bad(H!Get(f)) /\ H!Get(f).ctx[H!Get(f).id].is_initialize
    BY <1>0, <1>1, GetOk
  <1>3. PICK c \in H!Ctx : c = H!Get(f).id /\ c # 0
    BY <1>2, BlankOk
  <1>4. PICK cx \in [H!Ctx -> CtxRec] : cx = H!Get(f).ctx
    BY <1>2, GoodTypes
  <1>5. cx[c] \in CtxRec
    OBVIOUS
  <1>6. CASE H!SetFlags(f, b)
    <2>1. /\ ctx' = [cx EXCEPT ![c].user_nonblock_ = b]
          /\ nonblock' = H!Get(f).nonblock
          /\ asked' = [asked EXCEPT ![file[f]] = b]
      BY <1>2, <1>3, <1>4, <1>6 DEF H!SetFlags
    <2>2. PICK r2 \in CtxRec : r2 = [cx[c] EXCEPT !.user_nonblock_ = b]
      BY <1>5 DEF CtxRec
    <2>3. ctx' = [cx EXCEPT ![c] = r2]
      BY <2>1, <2>2
    <2>4. H!Get(f).slot[f] = c
      BY <1>2, <1>3
    <2>5. Good(file, H!Get(f).slot, cx, H!Get(f).nonblock, asked, epoll, hpc, call) /\ cx[c].is_initialize
      BY <1>2, <1>3, <1>4
    <2>6. Good(file, H!Get(f).slot, ctx', H!Get(f).nonblock, asked', epoll, hpc, call)
      <3>1. PICK sl, nb : sl = H!Get(f).slot /\ nb = H!Get(f).nonblock /\ sl[f] = c
        BY <2>4
      <3>2. Good(file, sl, cx, nb, asked, epoll, hpc, call) /\ cx[sl[f]].is_initialize /\ sl[f] # 0
        BY <1>3, <2>5, <3>1
      <3>3. r2 = [cx[sl[f]] EXCEPT !.user_nonblock_ = b] /\ ctx' = [cx EXCEPT ![sl[f]] = r2]
        BY <2>2, <2>3, <3>1
      <3>4. Good(file, sl, ctx', nb, asked', epoll, hpc, call)
        <4>1. FlagSet(file, sl, cx, asked, f, b, r2, ctx', asked')
          BY <1>1, <2>1, <3>2, <3>3 DEF FlagSet
        <4> QED BY <3>2, <4>1, FlagOk
      <3> QED BY <3>1, <3>4
    <2> QED BY <1>1, <2>1, <2>6 DEF HookOk
  <1>7. CASE H!SetTimeout(f, b)
    <2>1. ctx' = [cx EXCEPT ![c].recv_o_ = b] /\ nonblock' = H!Get(f).nonblock /\ asked' = asked
      BY <1>3, <1>4, <1>7 DEF H!SetTimeout
    <2>2. PICK r2 \in CtxRec : r2 = [cx[c] EXCEPT !.recv_o_ = b]
      BY <1>5 DEF CtxRec
    <2>3. Same(r2, cx[c])
      BY <1>5, <2>2 DEF CtxRec, Same
    <2>4. ctx' = [cx EXCEPT ![c] = r2]
      BY <2>1, <2>2
    <2>5. ctx' \in [H!Ctx -> CtxRec] /\ \A d \in H!Ctx : Same(ctx'[d], cx[d])
      <3>1. \A d \in H!Ctx : Same(cx[d], cx[d])
        BY DEF Same
      <3> QED BY <2>3, <2>4, <3>1
    <2>6. Good(file, H!Get(f).slot, cx, H!Get(f).nonblock, asked, epoll, hpc, call)
      BY <1>2, <1>4
    <2>7. Good(file, H!Get(f).slot, ctx', H!Get(f).nonblock, asked, epoll, hpc, call)
      BY <2>5, <2>6, RefreshAll
    <2> QED BY <1>1, <2>1, <2>7 DEF HookOk
  <1> QED BY <1>6, <1>7

\* The number a context is registered with is one of its file.
LEMMA OwnNumber ==
    ASSUME NEW fl, NEW sl, NEW cx, NEW nb, NEW ak, NEW wt, NEW p, NEW cl,
           Good(fl, sl, cx, nb, ak, wt, p, cl),
           NEW f \in Number, sl[f] # 0
    PROVE  cx[sl[f]].fd_ \in Number /\ fl[cx[sl[f]].fd_] = fl[f]
  <1>1. /\ cx[sl[f]].fd_ \in Number /\ sl[cx[sl[f]].fd_] = sl[f]
    BY DEF Good, OwnCtx
  <1> QED BY <1>1 DEF Good, Shares

\* set_et_mode: an entry of epoll follows the mode of its context.
LEMMA EtStep ==
    ASSUME H!ConstOk, HookOk, wrong = {}, NEW f \in Number, H!SetEtMode(f)
    PROVE  HookOk' /\ wrong' = {}
  <1>0. Good(file, slot, ctx, nonblock, asked, epoll, hpc, call)
    BY DEF HookOk
  <1>1. /\ file[f] # 0 /\ slot' = H!Get(f).slot /\ nonblock' = H!Get(f).nonblock
        /\ UNCHANGED <<file, hpc, call, wrong, asked>>
    BY DEF H!SetEtMode
  <1>2. /\ H!Get(f).id \in H!Ctx /\ H!Get(f).slot[f] = H!Get(f).id
        /\ Good(file, H!Get(f).slot, H!Get(f).ctx, H!Get(f).nonblock, asked, epoll, hpc, call)
        /\ H!Get(f).ctx[H!Get(f).id].is_initialize
    BY <1>0, <1>1, GetOk
  <1>3. PICK c \in H!Ctx : c = H!Get(f).id /\ c # 0
    BY <1>2, BlankOk
  <1>4. PICK cx \in [H!Ctx -> CtxRec] : cx = H!Get(f).ctx
    BY <1>2, GoodTypes
  <1>5. cx[c] \in CtxRec /\ H!Get(f).slot[f] = c /\ cx[c].is_initialize
        /\ Good(file, H!Get(f).slot, cx, H!Get(f).nonblock, asked, epoll, hpc, call)
    BY <1>2, <1>3, <1>4
  <1>6. PICK r2 \in CtxRec : r2 = [cx[c] EXCEPT !.et_mode_ = TRUE]
    BY <1>5 DEF CtxRec
  <1>7. /\ r2.fd_ = cx[c].fd_ /\ r2.is_initialize = cx[c].is_initialize
        /\ r2.closed_ = cx[c].closed_ /\ r2.user_nonblock_ = cx[c].user_nonblock_
        /\ r2.i_tasks_ = cx[c].i_tasks_ /\ r2.pending = cx[c].pending /\ r2.et_mode_ = TRUE
    BY <1>5, <1>6 DEF CtxRec
  <1>8. ctx' = [cx EXCEPT ![c] = r2]
    BY <1>3, <1>4, <1>6 DEF H!SetEtMode
  <1>9. cx[c].fd_ \in Number /\ file[cx[c].fd_] = file[f]
    BY <1>3, <1>5, OwnNumber
  <1>10. epoll \in [H!File -> WatchRec] /\ file[f] \in H!File
    BY <1>0, <1>1, GoodTypes
  <1>11. /\ epoll' \in [H!File -> WatchRec]
         /\ r2.pending => epoll'[file[f]] = [fd |-> r2.fd_, et |-> r2.et_mode_]
         /\ \A k \in H!File : k # file[f] => epoll'[k] = epoll[k]
    <2>1. CASE cx[c].pending
      <3>1. epoll' = [epoll EXCEPT ![file[f]] = [fd |-> cx[c].fd_, et |-> TRUE]]
        BY <1>3, <1>4, <1>9, <2>1 DEF H!SetEtMode, H!Register
      <3>2. [fd |-> cx[c].fd_, et |-> TRUE] \in WatchRec
        BY <1>9 DEF WatchRec
      <3> QED BY <1>7, <1>10, <3>1, <3>2
    <2>2. CASE ~cx[c].pending
      <3>1. epoll' = epoll
        BY <1>3, <1>4, <2>2 DEF H!SetEtMode
      <3> QED BY <1>7, <1>10, <2>2, <3>1
    <2> QED BY <2>1, <2>2
  <1>12. Good(file, H!Get(f).slot, ctx', H!Get(f).nonblock, asked, epoll', hpc, call)
    <2>1. PICK sl, nb : sl = H!Get(f).slot /\ nb = H!Get(f).nonblock /\ sl[f] = c
      BY <1>5
    <2>2. Good(file, sl, cx, nb, asked, epoll, hpc, call) /\ cx[sl[f]].is_initialize /\ sl[f] # 0
      BY <1>3, <1>5, <2>1
    <2>3. /\ r2.fd_ = cx[sl[f]].fd_ /\ r2.is_initialize = cx[sl[f]].is_initialize
          /\ r2.closed_ = cx[sl[f]].closed_ /\ r2.user_nonblock_ = cx[sl[f]].user_nonblock_
          /\ r2.i_tasks_ = cx[sl[f]].i_tasks_ /\ (cx[sl[f]].pending => r2.pending)
          /\ ctx' = [cx EXCEPT ![sl[f]] = r2]
      BY <1>7, <1>8, <2>1
    <2>4. Good(file, sl, ctx', nb, asked, epoll', hpc, call)
      <3>1. Enrolled(file, sl, cx, epoll, f, r2, ctx', epoll')
        BY <1>11, <2>2, <2>3 DEF Enrolled
      <3> QED BY <2>2, <3>1, Enroll
    <2> QED BY <2>1, <2>4
  <1> QED BY <1>1, <1>12 DEF HookOk
\* What the kernel keeps of the files that stay open.
LEMMA AssignOk ==
    ASSUME HookOk, NEW f \in Number, NEW k \in H!File \cup {0}, file' = [file EXCEPT ![f] = k],
           epoll' = [j \in H!File |-> IF H!IsOpen(file', j) THEN epoll[j] ELSE H!Unwatched],
           asked' = [j \in H!File |-> H!IsOpen(file', j) /\ asked[j]]
    PROVE  /\ epoll' \in [H!File -> WatchRec] /\ asked' \in [H!File -> BOOLEAN]
           /\ \A x \in Number : file'[x] # 0 => /\ asked'[file'[x]] = asked[file'[x]]
                                                /\ epoll'[file'[x]] = epoll[file'[x]]
  <1>1. /\ file \in [Number -> H!File \cup {0}] /\ asked \in [H!File -> BOOLEAN] /\ epoll \in [H!File -> WatchRec]
    BY GoodTypes DEF HookOk
  <1>2. file' \in [Number -> H!File \cup {0}]
    BY <1>1
  <1>3. \A x \in Number : file'[x] # 0 => file'[x] \in H!File /\ H!IsOpen(file', file'[x])
    BY <1>2 DEF H!IsOpen
  <1>4. epoll' \in [H!File -> WatchRec]
    BY <1>1, BlankOk
  <1>5. asked' \in [H!File -> BOOLEAN]
    BY <1>1
  <1>6. ASSUME NEW j \in H!File, H!IsOpen(file', j) PROVE asked'[j] = asked[j] /\ epoll'[j] = epoll[j]
    BY <1>1, <1>6
  <1> QED BY <1>3, <1>4, <1>5, <1>6

\* A slot that goes frees its own context only.
LEMMA WithoutSlotOk ==
    ASSUME NEW cs \in [H!Ctx -> CtxRec], NEW f \in Number
    PROVE  /\ H!WithoutSlot(cs, f) \in [H!Ctx -> CtxRec]
           /\ \A c \in H!Ctx : c # slot[f] => H!WithoutSlot(cs, f)[c] = cs[c]
  BY BlankOk DEF H!WithoutSlot

\* close_without_lock changes one context.
LEMMA ClosedOk ==
    ASSUME NEW cs \in [H!Ctx -> CtxRec], NEW c \in H!Ctx, NEW cs2, cs2 = [cs EXCEPT ![c] = H!Closed(@)]
    PROVE  cs2 \in [H!Ctx -> CtxRec] /\ \A d \in H!Ctx : d # c => cs2[d] = cs[d]
  <1>1. cs[c] \in CtxRec
    OBVIOUS
  <1>2. H!Closed(cs[c]) \in CtxRec
    BY <1>1 DEF CtxRec, H!Closed
  <1>3. cs2 = [cs EXCEPT ![c] = H!Closed(cs[c])]
    OBVIOUS
  <1> QED BY <1>2, <1>3

\* Who waits at a context wakes, nobody else.
LEMMA WokenOk ==
    ASSUME HookOk, NEW c, NEW r, NEW l, l \in {"fn", "triggered"},
           \A t \in Reader : hpc[t] = "waiting" /\ call[t].at = c => t \in r.i_tasks_
    PROVE  /\ H!Woken(c, r, l) \in [Reader -> Label]
           /\ \A t \in Reader :
                 \/ H!Woken(c, r, l)[t] = hpc[t] /\ ~(hpc[t] = "waiting" /\ call[t].at = c)
                 \/ hpc[t] = "waiting" /\ H!Woken(c, r, l)[t] \in {l, "nothing"}
  <1>1. hpc \in [Reader -> Label]
    BY GoodTypes DEF HookOk
  <1> QED BY <1>1 DEF H!Woken, H!WaitsAt, Label

\* close: the context is the number's own, or a duplicate was closed.
LEMMA CloseStep ==
    ASSUME HookOk, wrong = {}, NEW f \in Number, H!Close(f), lapse' = {}
    PROVE  HookOk' /\ wrong' = {}
  <1>0. Good(file, slot, ctx, nonblock, asked, epoll, hpc, call)
    BY DEF HookOk
  <1>1. /\ file \in [Number -> H!File \cup {0}] /\ slot \in [Number -> H!Ctx \cup {0}] /\ ctx \in [H!Ctx -> CtxRec]
        /\ hpc \in [Reader -> Label]
    BY <1>0, GoodTypes
  <1>2. slot' = [slot EXCEPT ![f] = 0] /\ UNCHANGED <<nonblock, call, wrong>>
    BY DEF H!Close
  <1>3. ~H!IsShared(f)
    BY DEF H!Close, H!Lapse
  <1>4. \A x \in Number \ {f} : slot[f] # 0 => slot[x] # slot[f]
    BY <1>3 DEF H!IsShared
  <1>5. slot[f] # 0 => /\ ~ctx[slot[f]].closed_ /\ ctx[slot[f]].fd_ = f
    <2>1. slot[f] # 0 => /\ ~ctx[slot[f]].closed_ /\ ctx[slot[f]].fd_ \in Number
                         /\ slot[ctx[slot[f]].fd_] = slot[f]
      BY <1>0 DEF Good, OwnCtx
    <2> QED BY <1>4, <2>1
  <1>6. /\ file' = [file EXCEPT ![f] = 0]
        /\ epoll' = [j \in H!File |-> IF H!IsOpen(file', j) THEN epoll[j] ELSE H!Unwatched]
        /\ asked' = [j \in H!File |-> H!IsOpen(file', j) /\ asked[j]]
    BY <1>5 DEF H!Close, H!KernelClose, H!Assign
  <1>7. /\ epoll' \in [H!File -> WatchRec] /\ asked' \in [H!File -> BOOLEAN]
        /\ \A x \in Number : file'[x] # 0 => /\ asked'[file'[x]] = asked[file'[x]]
                                             /\ epoll'[file'[x]] = epoll[file'[x]]
    BY <1>6, AssignOk
  <1>8. /\ ctx' \in [H!Ctx -> CtxRec] /\ \A c \in H!Ctx : c # slot[f] => ctx'[c] = ctx[c]
        /\ hpc' \in [Reader -> Label]
        /\ \A t \in Reader : \/ hpc'[t] = hpc[t] /\ ~(hpc[t] = "waiting" /\ call[t].at = slot[f])
                             \/ hpc[t] = "waiting" /\ hpc'[t] \in {"fn", "nothing"}
    <2>1. CASE slot[f] = 0
      <3>1. ctx' = ctx /\ hpc' = hpc
        BY <2>1 DEF H!Close
      <3>2. \A t \in Reader : hpc[t] = "waiting" => call[t].at # 0
        BY <1>0 DEF Good, Calls
      <3> QED BY <1>1, <2>1, <3>1, <3>2
    <2>2. CASE slot[f] # 0
      <3>1. slot[f] \in H!Ctx
        BY <1>1, <2>2
      <3>2. PICK cs : cs = [ctx EXCEPT ![slot[f]] = H!Closed(@)]
        OBVIOUS
      <3>3. ctx' = H!WithoutSlot(cs, f) /\ hpc' = H!Woken(slot[f], ctx[slot[f]], "fn")
        BY <1>5, <2>2, <3>2 DEF H!Close, H!WakeAll
      <3>4. cs \in [H!Ctx -> CtxRec] /\ \A c \in H!Ctx : c # slot[f] => cs[c] = ctx[c]
        BY <1>1, <3>1, <3>2, ClosedOk
      <3>5. ctx' \in [H!Ctx -> CtxRec] /\ \A c \in H!Ctx : c # slot[f] => ctx'[c] = ctx[c]
        BY <3>3, <3>4, WithoutSlotOk
      <3>6. /\ hpc' \in [Reader -> Label]
            /\ \A t \in Reader : \/ hpc'[t] = hpc[t] /\ ~(hpc[t] = "waiting" /\ call[t].at = slot[f])
                                 \/ hpc[t] = "waiting" /\ hpc'[t] \in {"fn", "nothing"}
        <4>1. PICK r, c : r = ctx[slot[f]] /\ c = slot[f]
          OBVIOUS
        <4>2. hpc' = H!Woken(c, r, "fn")
          BY <3>3, <4>1
        <4>3. \A t \in Reader : hpc[t] = "waiting" /\ call[t].at = c => t \in r.i_tasks_
          BY <1>0, <4>1 DEF Good, Calls
        <4>4. /\ hpc' \in [Reader -> Label]
              /\ \A t \in Reader : \/ hpc'[t] = hpc[t] /\ ~(hpc[t] = "waiting" /\ call[t].at = c)
                                   \/ hpc[t] = "waiting" /\ hpc'[t] \in {"fn", "nothing"}
          BY <4>2, <4>3, WokenOk, "fn" \in {"fn", "triggered"}
        <4> QED BY <4>1, <4>4
      <3> QED BY <2>2, <3>5, <3>6
    <2> QED BY <2>1, <2>2
  <1>9. Dropped(file, slot, ctx, asked, epoll, hpc, call, f, file', slot', ctx', asked', epoll', hpc')
    BY <1>2, <1>4, <1>6, <1>7, <1>8 DEF Dropped
  <1>10. Good(file', slot', ctx', nonblock, asked', epoll', hpc', call)
    BY <1>0, <1>9, Drop
  <1> QED BY <1>2, <1>10 DEF HookOk

\* dup: the number was free and nobody used it.
LEMMA DupStep ==
    ASSUME H!ConstOk, HookOk, wrong = {}, NEW f \in Number, NEW x \in Number, H!Dup(f, x), lapse' = {}
    PROVE  HookOk' /\ wrong' = {}
  <1>0. Good(file, slot, ctx, nonblock, asked, epoll, hpc, call)
    BY DEF HookOk
  <1>1. /\ file[f] # 0 /\ file[x] = 0 /\ file' = [file EXCEPT ![x] = file[f]]
        /\ ctx' = H!Get(f).ctx /\ nonblock' = H!Get(f).nonblock
        /\ UNCHANGED <<epoll, hpc, call, asked, wrong>>
    BY DEF H!Dup
  <1>2. slot[x] = 0 /\ ~H!InUse(x)
    BY DEF H!Dup
  <1>3. slot' = [H!Get(f).slot EXCEPT ![x] = H!Get(f).id]
    BY <1>2 DEF H!Dup
  <1>4. /\ H!Get(f).id \in H!Ctx /\ H!Get(f).slot[f] = H!Get(f).id
        /\ Good(file, H!Get(f).slot, H!Get(f).ctx, H!Get(f).nonblock, asked, epoll, hpc, call)
        /\ H!Get(f).ctx[H!Get(f).id].is_initialize
        /\ \A y \in Number \ {f} : H!Get(f).slot[y] = slot[y]
    BY <1>0, <1>1, GetOk
  <1>5. PICK sl : sl = H!Get(f).slot
    OBVIOUS
  <1>6. Attached(file, sl, ctx', hpc, call, f, x, file', slot')
    <2>1. \A t \in Reader : hpc[t] # "idle" => call[t].fd # x
      BY <1>2 DEF H!InUse
    <2>2. sl[f] # 0 /\ sl[x] = 0 /\ ctx'[sl[f]].is_initialize /\ slot' = [sl EXCEPT ![x] = sl[f]]
      BY <1>1, <1>2, <1>3, <1>4, <1>5, BlankOk
    <2> QED BY <1>1, <2>1, <2>2 DEF Attached
  <1>7. Good(file, sl, ctx', nonblock', asked, epoll, hpc, call)
    BY <1>1, <1>4, <1>5
  <1>8. Good(file', slot', ctx', nonblock', asked, epoll, hpc, call)
    BY <1>6, <1>7, Attach
  <1> QED BY <1>1, <1>8 DEF HookOk
\* dup2: get for the original, then close of the new number, then dup.
LEMMA Dup2Step ==
    ASSUME H!ConstOk, HookOk, wrong = {}, NEW f \in Number, NEW x \in Number, H!Dup2(f, x), lapse' = {}
    PROVE  HookOk' /\ wrong' = {}
  <1>0. Good(file, slot, ctx, nonblock, asked, epoll, hpc, call)
    BY DEF HookOk
  <1>1. /\ file \in [Number -> H!File \cup {0}] /\ slot \in [Number -> H!Ctx \cup {0}] /\ hpc \in [Reader -> Label]
    BY <1>0, GoodTypes
  <1>2. /\ file[f] # 0 /\ f # x /\ file' = [file EXCEPT ![x] = file[f]]
        /\ epoll' = [j \in H!File |-> IF H!IsOpen(file', j) THEN epoll[j] ELSE H!Unwatched]
        /\ asked' = [j \in H!File |-> H!IsOpen(file', j) /\ asked[j]]
        /\ slot' = [H!Get(f).slot EXCEPT ![x] = H!Get(f).id] /\ nonblock' = H!Get(f).nonblock
        /\ UNCHANGED <<call, wrong>>
    BY DEF H!Dup2, H!Assign
  <1>3. ~H!IsShared(x) /\ ~H!InUse(x)
    BY DEF H!Dup2
  <1>4. /\ H!Get(f).id \in H!Ctx /\ H!Get(f).slot[f] = H!Get(f).id
        /\ Good(file, H!Get(f).slot, H!Get(f).ctx, H!Get(f).nonblock, asked, epoll, hpc, call)
        /\ H!Get(f).ctx[H!Get(f).id].is_initialize
        /\ slot[f] # 0 => H!Get(f).id = slot[f]
        /\ \A y \in Number \ {f} : H!Get(f).slot[y] = slot[y]
        /\ \A c \in H!Ctx : c # H!Get(f).id => H!Get(f).ctx[c] = ctx[c]
        /\ \A y \in Number : slot[f] = 0 => slot[y] # H!Get(f).id
    BY <1>0, <1>2, GetOk
  <1>5. PICK sl, cx, nb, i : sl = H!Get(f).slot /\ cx = H!Get(f).ctx /\ nb = H!Get(f).nonblock /\ i = H!Get(f).id
    BY <1>4
  <1>6. /\ i \in H!Ctx
        /\ sl[f] = i /\ Good(file, sl, cx, nb, asked, epoll, hpc, call) /\ cx[i].is_initialize
        /\ slot[f] # 0 => i = slot[f]
        /\ \A y \in Number \ {f} : sl[y] = slot[y]
        /\ \A c \in H!Ctx : c # i => cx[c] = ctx[c]
        /\ \A y \in Number : slot[f] = 0 => slot[y] # i
        /\ slot' = [sl EXCEPT ![x] = i] /\ nonblock' = nb
    BY <1>2, <1>4, <1>5
  <1>7. sl \in [Number -> H!Ctx \cup {0}] /\ cx \in [H!Ctx -> CtxRec] /\ i # 0
    BY <1>6, GoodTypes, BlankOk
  <1>8. sl[x] = slot[x] /\ (slot[x] # 0 => slot[x] \in H!Ctx)
    BY <1>1, <1>2, <1>6
  <1>9. slot[x] # 0 => \A y \in Number \ {x} : slot[y] # slot[x]
    BY <1>3 DEF H!IsShared
  <1>10. slot[x] # 0 => slot[x] # i /\ cx[slot[x]] = ctx[slot[x]] /\ ~ctx[slot[x]].closed_
    <2>1. slot[x] # 0 => slot[x] # i
      BY <1>2, <1>6, <1>9
    <2>2. slot[x] # 0 => ~ctx[slot[x]].closed_
      BY <1>0 DEF Good, OwnCtx
    <2> QED BY <1>6, <1>8, <2>1, <2>2
  <1>11. \A y \in Number \ {x} : sl[x] # 0 => sl[y] # sl[x]
    BY <1>6, <1>8, <1>9, <1>10
  <1>12. /\ ctx' \in [H!Ctx -> CtxRec] /\ \A c \in H!Ctx : c # sl[x] => ctx'[c] = cx[c]
         /\ hpc' \in [Reader -> Label]
         /\ \A t \in Reader : \/ hpc'[t] = hpc[t] /\ ~(hpc[t] = "waiting" /\ call[t].at = sl[x])
                              \/ hpc[t] = "waiting" /\ hpc'[t] \in {"fn", "nothing"}
    <2>1. CASE slot[x] = 0
      <3>1. ctx' = cx /\ hpc' = hpc
        BY <1>5, <2>1 DEF H!Dup2
      <3>2. \A t \in Reader : hpc[t] = "waiting" => call[t].at # 0
        BY <1>0 DEF Good, Calls
      <3> QED BY <1>1, <1>7, <1>8, <2>1, <3>1, <3>2
    <2>2. CASE slot[x] # 0
      <3>1. PICK cs : cs = [cx EXCEPT ![slot[x]] = H!Closed(@)]
        OBVIOUS
      <3>2. ctx' = H!WithoutSlot(cs, x) /\ hpc' = H!Woken(slot[x], ctx[slot[x]], "fn")
        BY <1>5, <1>10, <2>2, <3>1 DEF H!Dup2, H!WakeAll
      <3>3. cs \in [H!Ctx -> CtxRec] /\ \A c \in H!Ctx : c # slot[x] => cs[c] = cx[c]
        BY <1>7, <1>8, <2>2, <3>1, ClosedOk
      <3>4. ctx' \in [H!Ctx -> CtxRec] /\ \A c \in H!Ctx : c # slot[x] => ctx'[c] = cx[c]
        BY <3>2, <3>3, WithoutSlotOk
      <3>5. PICK r, c : r = cx[sl[x]] /\ c = sl[x]
        OBVIOUS
      <3>6. hpc' = H!Woken(c, r, "fn")
        BY <1>8, <1>10, <2>2, <3>2, <3>5
      <3>7. /\ hpc' \in [Reader -> Label]
            /\ \A t \in Reader : \/ hpc'[t] = hpc[t] /\ ~(hpc[t] = "waiting" /\ call[t].at = c)
                                 \/ hpc[t] = "waiting" /\ hpc'[t] \in {"fn", "nothing"}
        <4>1. \A t \in Reader : hpc[t] = "waiting" /\ call[t].at = c => t \in r.i_tasks_
          BY <1>6, <3>5 DEF Good, Calls
        <4> QED BY <3>6, <4>1, WokenOk, "fn" \in {"fn", "triggered"}
      <3> QED BY <1>8, <2>2, <3>4, <3>5, <3>7
    <2> QED BY <2>1, <2>2
  <1>13. PICK fl, s1 : fl = [file EXCEPT ![x] = 0] /\ s1 = [sl EXCEPT ![x] = 0]
    OBVIOUS
  <1>14. Dropped(file, sl, cx, asked, epoll, hpc, call, x, fl, s1, ctx', asked', epoll', hpc')
    <2>1. /\ epoll' \in [H!File -> WatchRec] /\ asked' \in [H!File -> BOOLEAN]
          /\ \A y \in Number : file'[y] # 0 => /\ asked'[file'[y]] = asked[file'[y]]
                                               /\ epoll'[file'[y]] = epoll[file'[y]]
      <3>1. PICK k \in H!File \cup {0} : k = file[f]
        BY <1>1
      <3> QED BY <1>2, <3>1, AssignOk
    <2>2. \A y \in Number : fl[y] # 0 => fl[y] = file'[y]
      BY <1>1, <1>2, <1>13
    <2>3. \A y \in Number : fl[y] # 0 => /\ asked'[fl[y]] = asked[fl[y]]
                                         /\ epoll'[fl[y]] = epoll[fl[y]]
      BY <2>1, <2>2
    <2> QED BY <1>11, <1>12, <1>13, <2>1, <2>3 DEF Dropped
  <1>15. Good(fl, s1, ctx', nb, asked', epoll', hpc', call)
    BY <1>6, <1>14, Drop
  <1>16. Attached(fl, s1, ctx', hpc', call, f, x, file', slot')
    <2>1. \A t \in Reader : hpc'[t] # "idle" => call[t].fd # x
      <3> SUFFICES ASSUME NEW t \in Reader, hpc'[t] # "idle" PROVE hpc[t] # "idle"
        BY <1>3 DEF H!InUse
      <3> QED BY <1>12
    <2>2. fl[f] = file[f] /\ fl[x] = 0 /\ s1[f] = i /\ s1[x] = 0
      BY <1>1, <1>2, <1>6, <1>7, <1>13
    <2>3. ctx'[s1[f]].is_initialize
      BY <1>6, <1>8, <1>10, <1>12, <2>2
    <2>4. file' = [fl EXCEPT ![x] = fl[f]] /\ slot' = [s1 EXCEPT ![x] = s1[f]]
      BY <1>1, <1>2, <1>6, <1>7, <1>13, <2>2
    <2> QED BY <1>2, <1>7, <2>1, <2>2, <2>3, <2>4 DEF Attached
  <1>17. Good(file', slot', ctx', nb, asked', epoll', hpc', call)
    BY <1>15, <1>16, Attach
  <1> QED BY <1>2, <1>6, <1>17 DEF HookOk
\* A timeout, while polling or before.
LEMMA ExpireStep ==
    ASSUME HookOk, wrong = {}, NEW t \in Reader, H!Expire(t)
    PROVE  HookOk' /\ wrong' = {}
  <1>0. Good(file, slot, ctx, nonblock, asked, epoll, hpc, call)
    BY DEF HookOk
  <1>1. /\ hpc' = [hpc EXCEPT ![t] = "idle"] /\ call' = [call EXCEPT ![t] = H!NoCall] /\ wrong' = wrong
        /\ ctx' = H!WithoutCall(ctx, t) /\ UNCHANGED <<file, nonblock, slot, asked, epoll>>
    BY DEF H!Expire, H!Return, H!kernelVars
  <1>2. Good(file, slot, ctx', nonblock, asked, epoll, hpc', call')
    BY <1>0, <1>1, Leave
  <1> QED BY <1>1, <1>2 DEF HookOk

\* A destructor: unless it is late the task does not wait at the context, and the
\* others keep their entries.
LEMMA ForgetStep ==
    ASSUME H!ConstOk, HookOk, wrong = {}, NEW t \in Reader, NEW f \in Number, H!Forget(t, f), lapse' = {}
    PROVE  HookOk' /\ wrong' = {}
  <1>0. Good(file, slot, ctx, nonblock, asked, epoll, hpc, call)
    BY DEF HookOk
  <1>1. /\ hpc \in [Reader -> Label] /\ call \in [Reader -> CallRec] /\ epoll \in [H!File -> WatchRec]
    BY <1>0, GoodTypes
  <1>2. PICK sl, cx, nb, i : sl = H!Get(f).slot /\ cx = H!Get(f).ctx /\ nb = H!Get(f).nonblock /\ i = H!Get(f).id
    OBVIOUS
  <1>3. slot' = sl /\ nonblock' = nb /\ UNCHANGED <<file, hpc, call, asked, wrong>>
    BY <1>2 DEF H!Forget
  <1>4. Good(file, sl, cx, nb, asked, epoll, hpc, call) /\ sl[f] = i /\ i \in H!Ctx /\ i # 0 /\ sl[f] # 0
    <2>1. /\ H!Get(f).id \in H!Ctx /\ H!Get(f).slot[f] = H!Get(f).id
          /\ Good(file, H!Get(f).slot, H!Get(f).ctx, H!Get(f).nonblock, asked, epoll, hpc, call)
      BY <1>0, GetOk
    <2> QED BY <1>2, <2>1, BlankOk
  <1>5. cx \in [H!Ctx -> CtxRec]
    BY <1>4, GoodTypes
  <1>6. PICK r \in CtxRec : r = cx[i]
    BY <1>4, <1>5
  <1>7. r.pending \in BOOLEAN /\ r.et_mode_ \in BOOLEAN /\ r.i_tasks_ \in SUBSET Reader
    BY DEF CtxRec
  <1>8. PICK found \in BOOLEAN : found <=> ~H!Bad(H!Get(f)) /\ r.pending /\ t \in r.i_tasks_
    OBVIOUS
  <1>9. CASE ~found
    <2>1. ctx' = cx /\ epoll' = epoll
      BY <1>2, <1>6, <1>8, <1>9 DEF H!Forget
    <2> QED BY <1>3, <1>4, <2>1 DEF HookOk
  <1>10. CASE found
    <2>1. r.pending = TRUE /\ ~(hpc[t] = "waiting" /\ call[t].at = i)
      BY <1>2, <1>6, <1>7, <1>8, <1>10 DEF H!Forget, H!Lapse, H!WaitsAt
    <2>2. PICK left \in SUBSET Reader, gone \in BOOLEAN :
             left = r.i_tasks_ \ {t} /\ (gone <=> left = {} /\ ~r.et_mode_)
      BY <1>7
    <2>3. PICK r2 \in CtxRec : r2 = [r EXCEPT !.i_tasks_ = left, !.pending = ~gone]
      BY DEF CtxRec
    <2>4. /\ r2.fd_ = r.fd_ /\ r2.is_initialize = r.is_initialize /\ r2.closed_ = r.closed_
          /\ r2.user_nonblock_ = r.user_nonblock_ /\ r2.et_mode_ = r.et_mode_
          /\ r2.i_tasks_ = left /\ r2.pending = ~gone
      BY <2>3 DEF CtxRec
    <2>5. /\ ctx' = [cx EXCEPT ![i].i_tasks_ = left, ![i].pending = ~gone]
          /\ epoll' = IF gone THEN [epoll EXCEPT ![file[r.fd_]] = H!Unwatched] ELSE epoll
      BY <1>2, <1>6, <1>8, <1>10, <2>2 DEF H!Forget, H!Unregister
    <2>6. ctx' = [cx EXCEPT ![i] = r2]
      <3>1. ctx' = [cx EXCEPT ![i] = [r EXCEPT !.i_tasks_ = left, !.pending = ~gone]]
        BY <1>4, <1>5, <1>6, <2>5
      <3> QED BY <2>3, <3>1
    <2>7. file[r.fd_] = file[f]
      BY <1>4, <1>6, OwnNumber
    <2>8. /\ epoll' \in [H!File -> WatchRec]
          /\ r2.pending => epoll'[file[f]] = epoll[file[f]]
          /\ \A k \in H!File : k # file[f] => epoll'[k] = epoll[k]
      BY <1>1, <2>2, <2>4, <2>5, <2>7, BlankOk
    <2>9. Rewaited(file, sl, cx, epoll, hpc, call, f, r2, ctx', epoll', hpc, call)
      <3>1. \A u \in Reader : hpc[u] = "waiting" /\ call[u].at = sl[f] => u \in r2.i_tasks_
        <4>1. \A u \in Reader : hpc[u] = "waiting" /\ call[u].at = i => u \in r.i_tasks_
          BY <1>4, <1>6 DEF Good, Calls
        <4> QED BY <1>4, <2>1, <2>2, <2>4, <4>1
      <3>2. (r2.pending => r.pending) /\ (r2.i_tasks_ # {} => r2.pending)
        BY <2>1, <2>2, <2>4
      <3>3. r = cx[sl[f]] /\ ctx' = [cx EXCEPT ![sl[f]] = r2] /\ Callers(hpc, call)
        BY <1>1, <1>4, <1>6, <2>6 DEF Callers
      <3> QED BY <1>4, <2>4, <2>8, <3>1, <3>2, <3>3 DEF Rewaited
    <2>10. Good(file, sl, ctx', nb, asked, epoll', hpc, call)
      BY <1>4, <2>9, Waiters
    <2> QED BY <1>3, <2>10 DEF HookOk
  <1> QED BY <1>9, <1>10

\* WaitLoop takes a report to the context, whose waiters all leave.
LEMMA ReportStep ==
    ASSUME H!ConstOk, HookOk, wrong = {}, NEW k \in H!File, H!Report(k)
    PROVE  HookOk' /\ wrong' = {}
  <1>0. Good(file, slot, ctx, nonblock, asked, epoll, hpc, call)
    BY DEF HookOk
  <1>1. /\ file \in [Number -> H!File \cup {0}] /\ hpc \in [Reader -> Label] /\ call \in [Reader -> CallRec]
        /\ epoll \in [H!File -> WatchRec]
    BY <1>0, GoodTypes
  <1>2. PICK f \in Number : f = epoll[k].fd
    <2>1. epoll[k] \in WatchRec /\ epoll[k] # H!Unwatched
      BY <1>1 DEF H!Report, H!Ready
    <2> QED BY <2>1 DEF WatchRec
  <1>3. slot' = H!Get(f).slot /\ nonblock' = H!Get(f).nonblock /\ UNCHANGED <<file, call, asked, wrong>>
    BY <1>2 DEF H!Report
  <1>4. /\ H!Get(f).id \in H!Ctx /\ H!Get(f).slot[f] = H!Get(f).id
        /\ Good(file, H!Get(f).slot, H!Get(f).ctx, H!Get(f).nonblock, asked, epoll, hpc, call)
    BY <1>0, GetOk
  <1>5. CASE H!Bad(H!Get(f))
    <2>1. ctx' = H!Get(f).ctx /\ UNCHANGED <<epoll, hpc>>
      BY <1>2, <1>5 DEF H!Report
    <2> QED BY <1>3, <1>4, <2>1 DEF HookOk
  <1>6. CASE ~H!Bad(H!Get(f))
    <2>1. PICK sl, cx, nb, i : sl = H!Get(f).slot /\ cx = H!Get(f).ctx /\ nb = H!Get(f).nonblock /\ i = H!Get(f).id
      OBVIOUS
    <2>2. Good(file, sl, cx, nb, asked, epoll, hpc, call) /\ sl[f] = i /\ i \in H!Ctx /\ i # 0 /\ sl[f] # 0
      BY <1>4, <2>1, BlankOk
    <2>3. cx \in [H!Ctx -> CtxRec]
      BY <2>2, GoodTypes
    <2>4. PICK r \in CtxRec : r = cx[i]
      BY <2>2, <2>3
    <2>5. r.pending \in BOOLEAN /\ r.et_mode_ \in BOOLEAN /\ r.i_tasks_ \in SUBSET Reader
      BY DEF CtxRec
    <2>6. PICK b \in BOOLEAN : b = (r.pending /\ r.et_mode_)
      OBVIOUS
    <2>7. PICK r2 \in CtxRec : r2 = [r EXCEPT !.readable_ = TRUE, !.i_tasks_ = {}, !.pending = b]
      BY DEF CtxRec
    <2>8. /\ r2.fd_ = r.fd_ /\ r2.is_initialize = r.is_initialize /\ r2.closed_ = r.closed_
          /\ r2.user_nonblock_ = r.user_nonblock_ /\ r2.et_mode_ = r.et_mode_
          /\ r2.i_tasks_ = {} /\ r2.pending = b
      BY <2>7 DEF CtxRec
    <2>9. /\ ctx' = [cx EXCEPT ![i].readable_ = TRUE, ![i].i_tasks_ = {}, ![i].pending = @ /\ H!StaysPending(cx[i])]
          /\ epoll' = IF cx[i].pending /\ ~cx[i].et_mode_ THEN H!Unregister(cx[i].fd_) ELSE epoll
          /\ hpc' = H!Woken(i, cx[i], "triggered")
      BY <1>2, <1>6, <2>1 DEF H!Report
    <2>10. ctx' = [cx EXCEPT ![i] = r2]
      <3>1. cx[i].pending = r.pending /\ H!StaysPending(cx[i]) = r.et_mode_
        BY <2>4 DEF H!StaysPending
      <3>2. ctx' = [cx EXCEPT ![i] = [r EXCEPT !.readable_ = TRUE, !.i_tasks_ = {}, !.pending = r.pending /\ r.et_mode_]]
        BY <2>2, <2>3, <2>4, <2>9, <3>1
      <3> QED BY <2>6, <2>7, <3>2
    <2>11. file[r.fd_] = file[f]
      BY <2>2, <2>4, OwnNumber
    <2>12. /\ epoll' \in [H!File -> WatchRec]
           /\ r2.pending => epoll'[file[f]] = epoll[file[f]]
           /\ \A j \in H!File : j # file[f] => epoll'[j] = epoll[j]
      <3>1. epoll' = IF r.pending /\ ~r.et_mode_ THEN [epoll EXCEPT ![file[f]] = H!Unwatched] ELSE epoll
        BY <2>4, <2>9, <2>11 DEF H!Unregister
      <3> QED BY <1>1, <2>5, <2>6, <2>8, <3>1, BlankOk
    <2>13. /\ hpc' \in [Reader -> Label]
           /\ \A t \in Reader : \/ hpc'[t] = hpc[t] /\ ~(hpc[t] = "waiting" /\ call[t].at = i)
                                \/ hpc[t] = "waiting" /\ hpc'[t] \in {"triggered", "nothing"}
      <3>1. hpc' = H!Woken(i, r, "triggered")
        BY <2>4, <2>9
      <3>2. \A t \in Reader : hpc[t] = "waiting" /\ call[t].at = i => t \in r.i_tasks_
        BY <2>2, <2>4 DEF Good, Calls
      <3> QED BY <3>1, <3>2, WokenOk, "triggered" \in {"fn", "triggered"}
    <2>14. Rewaited(file, sl, cx, epoll, hpc, call, f, r2, ctx', epoll', hpc', call)
      <3>1. Callers(hpc', call)
        BY <1>1, <2>13 DEF Callers
      <3>2. \A t \in Reader :
               \/ hpc'[t] = hpc[t] /\ (hpc[t] = "waiting" /\ call[t].at = sl[f] => t \in r2.i_tasks_)
               \/ hpc[t] = "waiting" /\ hpc'[t] \in {"fn", "nothing", "triggered"}
        BY <2>2, <2>13
      <3>3. (r2.pending => r.pending) /\ (r2.i_tasks_ # {} => r2.pending)
        BY <2>6, <2>8
      <3>4. r = cx[sl[f]] /\ ctx' = [cx EXCEPT ![sl[f]] = r2]
        BY <2>2, <2>4, <2>10
      <3> QED BY <2>2, <2>8, <2>12, <3>1, <3>2, <3>3, <3>4 DEF Rewaited
    <2>15. Good(file, sl, ctx', nb, asked, epoll', hpc', call)
      BY <2>2, <2>14, Waiters
    <2> QED BY <1>3, <2>1, <2>15 DEF HookOk
  <1> QED BY <1>5, <1>6

\* A record without the entry of t.
Trimmed(r, s, t) ==
    \/ r = s
    \/ /\ r.fd_ = s.fd_ /\ r.is_initialize = s.is_initialize /\ r.closed_ = s.closed_
       /\ r.user_nonblock_ = s.user_nonblock_ /\ r.pending = s.pending
       /\ r.et_mode_ = s.et_mode_ /\ r.i_tasks_ = s.i_tasks_ \ {t}

\* The poll that ends at once takes an older entry of its task along.
LEMMA Trim ==
    ASSUME NEW cx \in [H!Ctx -> CtxRec], NEW c, NEW t, NEW cx2, cx2 = [cx EXCEPT ![c].i_tasks_ = @ \ {t}]
    PROVE  cx2 \in [H!Ctx -> CtxRec] /\ \A d \in H!Ctx : Trimmed(cx2[d], cx[d], t)
  <1>1. ASSUME NEW d \in H!Ctx PROVE cx2[d] \in CtxRec /\ Trimmed(cx2[d], cx[d], t)
    <2>0. cx[d] \in CtxRec
      OBVIOUS
    <2>1. CASE d = c
      <3>1. PICK ts \in SUBSET Reader : ts = cx[d].i_tasks_ \ {t}
        BY <2>0 DEF CtxRec
      <3>2. cx2[d] = [cx[d] EXCEPT !.i_tasks_ = ts]
        BY <2>1, <3>1
      <3> QED BY <2>0, <3>1, <3>2 DEF CtxRec, Trimmed
    <2>2. CASE d # c
      BY <2>0, <2>2 DEF Trimmed
    <2> QED BY <2>1, <2>2
  <1>2. cx2 = [d \in H!Ctx |-> cx2[d]]
    OBVIOUS
  <1> QED BY <1>1, <1>2

\* Nothing depends on the entry of a task that does not wait.
LEMMA TrimOk ==
    ASSUME NEW fl, NEW sl, NEW cx, NEW nb, NEW ak, NEW wt, NEW p, NEW cl,
           Good(fl, sl, cx, nb, ak, wt, p, cl), NEW t \in Reader, p[t] # "waiting",
           NEW cx2, cx2 \in [H!Ctx -> CtxRec], \A d \in H!Ctx : Trimmed(cx2[d], cx[d], t)
    PROVE  Good(fl, sl, cx2, nb, ak, wt, p, cl)
  <1>0. /\ Tables(fl, sl, cx, nb, ak) /\ Callers(p, cl)
        /\ OwnCtx(fl, sl, cx, ak) /\ Shares(fl, sl) /\ Plain(fl, sl, cx, nb, ak)
        /\ Watched(fl, sl, cx, wt) /\ Calls(fl, sl, cx, p, cl)
    BY DEF Good
  <1>1. \A f \in Number : sl[f] # 0 => /\ sl[f] \in H!Ctx
                                       /\ cx2[sl[f]].fd_ = cx[sl[f]].fd_
                                       /\ cx2[sl[f]].is_initialize = cx[sl[f]].is_initialize
                                       /\ cx2[sl[f]].closed_ = cx[sl[f]].closed_
                                       /\ cx2[sl[f]].user_nonblock_ = cx[sl[f]].user_nonblock_
                                       /\ cx2[sl[f]].pending = cx[sl[f]].pending
                                       /\ cx2[sl[f]].et_mode_ = cx[sl[f]].et_mode_
                                       /\ cx[sl[f]].i_tasks_ \ {t} \subseteq cx2[sl[f]].i_tasks_
    <2> SUFFICES ASSUME NEW f \in Number, sl[f] # 0, NEW d \in H!Ctx, d = sl[f]
                 PROVE  /\ cx2[d].fd_ = cx[d].fd_
                        /\ cx2[d].is_initialize = cx[d].is_initialize
                        /\ cx2[d].closed_ = cx[d].closed_
                        /\ cx2[d].user_nonblock_ = cx[d].user_nonblock_
                        /\ cx2[d].pending = cx[d].pending
                        /\ cx2[d].et_mode_ = cx[d].et_mode_
                        /\ cx[d].i_tasks_ \ {t} \subseteq cx2[d].i_tasks_
      BY <1>0 DEF Tables
    <2>1. Trimmed(cx2[d], cx[d], t)
      OBVIOUS
    <2> QED BY <2>1 DEF Trimmed
  <1>2. Tables(fl, sl, cx2, nb, ak)
    BY <1>0 DEF Tables
  <1>3. OwnCtx(fl, sl, cx2, ak)
    BY <1>0, <1>1 DEF OwnCtx
  <1>4. Plain(fl, sl, cx2, nb, ak)
    BY <1>0, <1>1 DEF Plain
  <1>5. Watched(fl, sl, cx2, wt)
    BY <1>0, <1>1 DEF Watched
  <1>6. Calls(fl, sl, cx2, p, cl)
    <2>1. ASSUME NEW u \in Reader, p[u] = "waiting"
          PROVE  cx2[cl[u].at].pending /\ u \in cx2[cl[u].at].i_tasks_
      <3>1. /\ cl[u].fd \in Number /\ cl[u].at # 0 /\ sl[cl[u].fd] = cl[u].at
            /\ cx[cl[u].at].pending /\ u \in cx[cl[u].at].i_tasks_
        BY <1>0, <2>1 DEF Calls
      <3> QED BY <1>1, <2>1, <3>1
    <2> QED BY <1>0, <2>1 DEF Calls
  <1> QED BY <1>0, <1>2, <1>3, <1>4, <1>5, <1>6 DEF Good

\* libgo_poll registers the context, then the task waits there.
LEMMA PollStep ==
    ASSUME H!ConstOk, HookOk, wrong = {}, NEW t \in Reader, H!Poll(t)
    PROVE  HookOk' /\ wrong' = {}
  <1>0. Good(file, slot, ctx, nonblock, asked, epoll, hpc, call)
    BY DEF HookOk
  <1>1. /\ file \in [Number -> H!File \cup {0}] /\ hpc \in [Reader -> Label] /\ call \in [Reader -> CallRec]
        /\ epoll \in [H!File -> WatchRec]
    BY <1>0, GoodTypes
  <1>2. PICK f \in Number : f = call[t].fd /\ hpc[t] = "poll"
    BY <1>0 DEF H!Poll, Good, Calls
  <1>3. slot' = H!Get(f).slot /\ nonblock' = H!Get(f).nonblock /\ UNCHANGED <<file, asked, wrong>>
    BY <1>2 DEF H!Poll
  <1>4. /\ H!Get(f).id \in H!Ctx /\ H!Get(f).slot[f] = H!Get(f).id
        /\ Good(file, H!Get(f).slot, H!Get(f).ctx, H!Get(f).nonblock, asked, epoll, hpc, call)
        /\ H!Bad(H!Get(f)) <=> file[f] = 0
        /\ H!Get(f).ctx[H!Get(f).id].is_initialize <=> file[f] # 0
    BY <1>0, GetOk
  <1>5. ASSUME NEW l \in Label, l \notin {"waiting", "EBADF"}, hpc' = [hpc EXCEPT ![t] = l], ctx' = H!Get(f).ctx,
               UNCHANGED <<call, epoll>>
        PROVE  HookOk' /\ wrong' = {}
    <2>1. Good(file, H!Get(f).slot, H!Get(f).ctx, H!Get(f).nonblock, asked, epoll, hpc', call)
      BY <1>2, <1>4, <1>5, MoveOn
    <2> QED BY <1>3, <1>5, <2>1 DEF HookOk
  <1>6. CASE ctx' = H!Get(f).ctx /\ UNCHANGED <<call, epoll>> /\ hpc' = [hpc EXCEPT ![t] = "fn"]
    <2>1. "fn" \in Label
      BY DEF Label
    <2> QED BY <1>5, <1>6, <2>1
  <1>8. CASE /\ ctx' = [H!Get(f).ctx EXCEPT ![H!Get(f).id].i_tasks_ = @ \ {t}] /\ UNCHANGED <<call, epoll>>
             /\ H!Get(f).ctx[H!Get(f).id].et_mode_
             /\ \/ hpc' = [hpc EXCEPT ![t] = "triggered"] \/ hpc' = [hpc EXCEPT ![t] = "nothing"]
    <2>1. PICK sl, cx, nb, i : sl = H!Get(f).slot /\ cx = H!Get(f).ctx /\ nb = H!Get(f).nonblock /\ i = H!Get(f).id
      OBVIOUS
    <2>2. /\ Good(file, sl, cx, nb, asked, epoll, hpc, call) /\ sl[f] = i /\ i \in H!Ctx /\ i # 0 /\ sl[f] # 0
      BY <1>4, <2>1, BlankOk
    <2>3. cx \in [H!Ctx -> CtxRec]
      BY <2>2, GoodTypes
    <2>4. ctx' = [cx EXCEPT ![i].i_tasks_ = @ \ {t}]
      BY <1>8, <2>1
    <2>5. /\ ctx' \in [H!Ctx -> CtxRec]
          /\ \A d \in H!Ctx : Trimmed(ctx'[d], cx[d], t)
      BY <2>3, <2>4, Trim
    <2>6. Good(file, sl, ctx', nb, asked, epoll, hpc, call)
      BY <1>2, <2>2, <2>5, TrimOk
    <2>7. "triggered" \in Label /\ "nothing" \in Label
      BY DEF Label
    <2>8. Good(file, sl, ctx', nb, asked, epoll, hpc', call)
      BY <1>2, <1>8, <2>6, <2>7, MoveOn
    <2> QED BY <1>3, <1>8, <2>1, <2>8 DEF HookOk
  <1>7. CASE /\ ~H!Bad(H!Get(f))
             /\ ctx' = [H!Get(f).ctx EXCEPT ![H!Get(f).id].pending = TRUE, ![H!Get(f).id].i_tasks_ = @ \cup {t}]
             /\ IF H!Get(f).ctx[H!Get(f).id].pending THEN UNCHANGED epoll
                ELSE epoll' = [epoll EXCEPT ![file[H!Get(f).ctx[H!Get(f).id].fd_]] =
                         [fd |-> H!Get(f).ctx[H!Get(f).id].fd_, et |-> H!Get(f).ctx[H!Get(f).id].et_mode_]]
             /\ call' = [call EXCEPT ![t].at = H!Get(f).id]
             /\ hpc' = [hpc EXCEPT ![t] = "waiting"]
    <2>1. PICK sl, cx, nb, i : sl = H!Get(f).slot /\ cx = H!Get(f).ctx /\ nb = H!Get(f).nonblock /\ i = H!Get(f).id
      OBVIOUS
    <2>2. /\ Good(file, sl, cx, nb, asked, epoll, hpc, call) /\ sl[f] = i /\ i \in H!Ctx /\ i # 0 /\ sl[f] # 0
          /\ cx[i].is_initialize /\ file[f] # 0
      BY <1>4, <1>7, <2>1, BlankOk
    <2>3. cx \in [H!Ctx -> CtxRec] /\ file[f] \in H!File
      BY <1>1, <2>2, GoodTypes
    <2>4. PICK r \in CtxRec : r = cx[i]
      BY <2>2, <2>3
    <2>5. r.pending \in BOOLEAN /\ r.et_mode_ \in BOOLEAN /\ r.i_tasks_ \in SUBSET Reader
      BY DEF CtxRec
    <2>6. r.fd_ \in Number /\ file[r.fd_] = file[f]
      BY <2>2, <2>4, OwnNumber
    <2>7. PICK r1 \in CtxRec : r1 = [r EXCEPT !.pending = TRUE]
      BY DEF CtxRec
    <2>8. /\ r1.fd_ = r.fd_ /\ r1.is_initialize = r.is_initialize /\ r1.closed_ = r.closed_
          /\ r1.user_nonblock_ = r.user_nonblock_ /\ r1.et_mode_ = r.et_mode_
          /\ r1.i_tasks_ = r.i_tasks_ /\ r1.pending = TRUE
      BY <2>7 DEF CtxRec
    <2>9. PICK ts \in SUBSET Reader : ts = r.i_tasks_ \cup {t}
      BY <2>5
    <2>10. PICK r2 \in CtxRec : r2 = [r1 EXCEPT !.i_tasks_ = ts]
      BY DEF CtxRec
    <2>11. /\ r2.fd_ = r1.fd_ /\ r2.is_initialize = r1.is_initialize /\ r2.closed_ = r1.closed_
           /\ r2.user_nonblock_ = r1.user_nonblock_ /\ r2.et_mode_ = r1.et_mode_
           /\ r2.i_tasks_ = ts /\ r2.pending = TRUE
      BY <2>8, <2>10 DEF CtxRec
    <2>12. PICK c1 : c1 = [cx EXCEPT ![i] = r1]
      OBVIOUS
    <2>13. c1 \in [H!Ctx -> CtxRec] /\ c1[i] = r1
      BY <2>2, <2>3, <2>12
    <2>14. ctx' = [c1 EXCEPT ![i] = r2]
      <3>1. ctx' = [cx EXCEPT ![i].pending = TRUE, ![i].i_tasks_ = @ \cup {t}]
        BY <1>7, <2>1
      <3>2. ctx' = [cx EXCEPT ![i] = [r EXCEPT !.pending = TRUE, !.i_tasks_ = ts]]
        BY <2>2, <2>3, <2>4, <2>9, <3>1
      <3>3. [r EXCEPT !.pending = TRUE, !.i_tasks_ = ts] = r2
        BY <2>7, <2>10 DEF CtxRec
      <3> QED BY <2>2, <2>3, <2>12, <3>2, <3>3
    <2>15. Enrolled(file, sl, cx, epoll, f, r1, c1, epoll')
      <3>1. /\ epoll' \in [H!File -> WatchRec]
            /\ epoll'[file[f]] = [fd |-> r.fd_, et |-> r.et_mode_]
            /\ \A k \in H!File : k # file[f] => epoll'[k] = epoll[k]
        <4>1. CASE r.pending
          <5>1. epoll' = epoll
            BY <1>7, <2>1, <2>4, <4>1
          <5>2. epoll[file[f]] = [fd |-> cx[sl[f]].fd_, et |-> cx[sl[f]].et_mode_]
            BY <2>2, <2>4, <4>1 DEF Good, Watched
          <5> QED BY <1>1, <2>2, <2>4, <5>1, <5>2
        <4>2. CASE ~r.pending
          <5>1. epoll' = [epoll EXCEPT ![file[f]] = [fd |-> r.fd_, et |-> r.et_mode_]]
            BY <1>7, <2>1, <2>4, <2>6, <4>2
          <5>2. [fd |-> r.fd_, et |-> r.et_mode_] \in WatchRec
            BY <2>5, <2>6 DEF WatchRec
          <5> QED BY <1>1, <2>3, <5>1, <5>2
        <4> QED BY <4>1, <4>2
      <3>2. r = cx[sl[f]] /\ c1 = [cx EXCEPT ![sl[f]] = r1] /\ cx[sl[f]].is_initialize
        BY <2>2, <2>4, <2>12
      <3>3. epoll'[file[f]] = [fd |-> r1.fd_, et |-> r1.et_mode_]
        BY <2>8, <3>1
      <3> QED BY <2>2, <2>8, <3>1, <3>2, <3>3 DEF Enrolled
    <2>16. Good(file, sl, c1, nb, asked, epoll', hpc, call)
      BY <2>2, <2>15, Enroll
    <2>17. /\ Callers(hpc', call') /\ hpc'[t] = "waiting" /\ call'[t].fd = call[t].fd
           /\ call'[t].on = call[t].on /\ call'[t].at = i
           /\ \A u \in Reader \ {t} : hpc'[u] = hpc[u] /\ call'[u] = call[u]
      <3>1. call[t] \in CallRec
        BY <1>1
      <3>2. PICK a \in CallRec : a = [call[t] EXCEPT !.at = i]
        BY <2>2, <3>1 DEF CallRec
      <3>3. a.fd = call[t].fd /\ a.on = call[t].on /\ a.at = i
        BY <3>1, <3>2 DEF CallRec
      <3>4. call' = [call EXCEPT ![t] = a]
        BY <1>7, <2>1, <3>2
      <3>5. "waiting" \in Label
        BY DEF Label
      <3> QED BY <1>1, <1>7, <3>3, <3>4, <3>5 DEF Callers
    <2>19. Rewaited(file, sl, c1, epoll', hpc, call, f, r2, ctx', epoll', hpc', call')
      <3>1. \A u \in Reader \ {t} : /\ hpc[u] = "waiting" /\ call[u].at = sl[f] => u \in r2.i_tasks_
                                    /\ hpc'[u] = hpc[u] /\ call'[u] = call[u]
        <4>1. \A u \in Reader : hpc[u] = "waiting" /\ call[u].at = i => u \in c1[i].i_tasks_
          BY <2>16 DEF Good, Calls
        <4> QED BY <2>2, <2>8, <2>9, <2>11, <2>13, <2>17, <4>1
      <3>2. /\ t \in r2.i_tasks_ /\ hpc[t] # "idle" /\ hpc'[t] = "waiting"
            /\ call'[t].fd = call[t].fd /\ call'[t].on = call[t].on
            /\ call'[t].at = sl[f] /\ sl[call[t].fd] = sl[f]
        BY <1>2, <2>2, <2>9, <2>11, <2>17
      <3>3. r1 = c1[sl[f]] /\ ctx' = [c1 EXCEPT ![sl[f]] = r2]
        BY <2>2, <2>13, <2>14
      <3>4. epoll' \in [H!File -> WatchRec]
        BY <2>16, GoodTypes
      <3>5. r2.pending => r1.pending
        BY <2>8
      <3> QED BY <2>2, <2>11, <2>17, <3>1, <3>2, <3>3, <3>4, <3>5 DEF Rewaited
    <2>20. Good(file, sl, ctx', nb, asked, epoll', hpc', call')
      BY <2>16, <2>19, Waiters
    <2> QED BY <1>3, <2>1, <2>20 DEF HookOk
  <1> QED BY <1>2, <1>6, <1>7, <1>8 DEF H!Poll, H!Goto, H!Register

\* No step of a program that stays within what the library stands breaks it.
LEMMA HookInvStep == ASSUME H!ConstOk, HookInv, [H!Next]_(H!vars) PROVE HookInv'
  <1> SUFFICES ASSUME lapse' = {} PROVE wrong' = {} /\ HookOk'
    BY DEF HookInv
  <1>1. lapse = {}
    <2>1. ASSUME NEW f \in Number, NEW b \in BOOLEAN, H!Open(f, b) \/ H!SetFlags(f, b) \/ H!SetTimeout(f, b)
          PROVE  lapse \subseteq lapse'
      BY <2>1 DEF H!Open, H!SetFlags, H!SetTimeout
    <2>2. ASSUME NEW f \in Number, H!Close(f) \/ H!SetEtMode(f) PROVE lapse \subseteq lapse'
      BY <2>2 DEF H!Close, H!Lapse, H!SetEtMode
    <2>3. ASSUME NEW f \in Number, NEW x \in Number, H!Dup(f, x) \/ H!Dup2(f, x) PROVE lapse \subseteq lapse'
      BY <2>3 DEF H!Dup, H!Dup2
    <2>4. ASSUME NEW f \in Number, NEW t \in Reader, NEW big \in BOOLEAN, H!Read(t, f, big) PROVE lapse \subseteq lapse'
      BY <2>4 DEF H!Read
    <2>5. ASSUME NEW k \in H!File, H!Arrive(k) \/ H!Report(k) PROVE lapse \subseteq lapse'
      BY <2>5 DEF H!Arrive, H!Report
    <2>6. ASSUME NEW t \in Reader, H!Step(t) PROVE lapse \subseteq lapse'
      BY <2>6 DEF H!Step, H!BadFd, H!Direct, H!Look, H!Expire, H!Poll, H!Triggered, H!Nothing, H!Fn, H!Reset
    <2>7. CASE UNCHANGED H!vars
      BY <2>7 DEF H!vars
    <2>8. ASSUME NEW t \in Reader, NEW f \in Number, H!Forget(t, f) PROVE lapse \subseteq lapse'
      BY <2>8 DEF H!Forget, H!Lapse
    <2>9. lapse \subseteq lapse'
      BY <2>1, <2>2, <2>3, <2>4, <2>5, <2>6, <2>7, <2>8 DEF H!Next
    <2> QED BY <2>9
  <1>2. wrong = {} /\ HookOk
    BY <1>1 DEF HookInv
  <1>3. CASE UNCHANGED H!vars
    BY <1>2, <1>3 DEF H!vars, H!kernelVars, HookOk
  <1>4. ASSUME NEW f \in Number, NEW b \in BOOLEAN, H!Open(f, b) \/ H!SetFlags(f, b) \/ H!SetTimeout(f, b)
        PROVE  wrong' = {} /\ HookOk'
    BY <1>2, <1>4, OpenStep, FlagSteps
  <1>5. ASSUME NEW f \in Number, H!Close(f) \/ H!SetEtMode(f)
        PROVE  wrong' = {} /\ HookOk'
    BY <1>2, <1>5, CloseStep, EtStep
  <1>6. ASSUME NEW f \in Number, NEW x \in Number, H!Dup(f, x) \/ H!Dup2(f, x)
        PROVE  wrong' = {} /\ HookOk'
    BY <1>2, <1>6, DupStep, Dup2Step
  <1>7. ASSUME NEW f \in Number, NEW t \in Reader, NEW big \in BOOLEAN, H!Read(t, f, big)
        PROVE  wrong' = {} /\ HookOk'
    BY <1>2, <1>7, ReadStep
  <1>8. ASSUME NEW k \in H!File, H!Arrive(k)
        PROVE  wrong' = {} /\ HookOk'
    BY <1>2, <1>8 DEF H!Arrive, HookOk
  <1>9. ASSUME NEW k \in H!File, H!Report(k)
        PROVE  wrong' = {} /\ HookOk'
    BY <1>2, <1>9, ReportStep
  <1>10. ASSUME NEW t \in Reader, H!Step(t)
         PROVE  wrong' = {} /\ HookOk'
    <2>1. CASE H!BadFd(t) \/ H!Direct(t) \/ H!Look(t) \/ H!Triggered(t) \/ H!Fn(t) \/ H!Reset(t)
      BY <1>2, <2>1, SmallSteps
    <2>2. CASE H!Expire(t)
      BY <1>2, <2>2, ExpireStep
    <2>3. CASE H!Poll(t)
      BY <1>2, <2>3, PollStep
    <2>4. CASE H!Nothing(t)
      BY <2>4 DEF H!Nothing
    <2> QED BY <1>10, <2>1, <2>2, <2>3, <2>4 DEF H!Step
  <1>11. ASSUME NEW t \in Reader, NEW f \in Number, H!Forget(t, f)
         PROVE  wrong' = {} /\ HookOk'
    BY <1>2, <1>11, ForgetStep
  <1> QED BY <1>3, <1>4, <1>5, <1>6, <1>7, <1>8, <1>9, <1>10, <1>11 DEF H!Next

\* F_GETFL reads the context or, without one, the kernel's flag.
LEMMA HookInvTransparent == ASSUME HookInv PROVE H!Transparent
  <1> SUFFICES ASSUME lapse = {}, NEW f \in Number, file[f] # 0 PROVE H!GetFlags(f) = asked[file[f]]
    BY DEF HookInv, H!Transparent
  <1>1. Good(file, slot, ctx, nonblock, asked, epoll, hpc, call)
    BY DEF HookInv, HookOk
  <1>2. CASE slot[f] # 0 /\ ctx[slot[f]].is_initialize
    BY <1>1, <1>2 DEF Good, OwnCtx, H!GetFlags
  <1>3. CASE slot[f] = 0 \/ ~ctx[slot[f]].is_initialize
    <2>1. ~asked[file[f]] /\ ~nonblock[file[f]]
      BY <1>1, <1>3 DEF Good, Plain
    <2>2. asked[file[f]] \in BOOLEAN /\ nonblock[file[f]] \in BOOLEAN
      <3>1. file \in [Number -> H!File \cup {0}] /\ nonblock \in [H!File -> BOOLEAN] /\ asked \in [H!File -> BOOLEAN]
        BY <1>1, GoodTypes
      <3> QED BY <3>1
    <2>3. H!GetFlags(f) = nonblock[file[f]]
      BY <1>3 DEF H!GetFlags
    <2> QED BY <2>1, <2>2, <2>3
  <1> QED BY <1>2, <1>3

\* A waiting task has an entry of epoll, of its file and in its mode.
LEMMA HookInvHeard == ASSUME H!ConstOk, HookInv PROVE H!LevelFlagsCorrected
  <1> SUFFICES ASSUME lapse = {}, NEW t \in Reader, hpc[t] = "waiting", ~ctx[call[t].at].et_mode_,
                      call[t].on # 0, data[call[t].on] > 0
               PROVE  H!Ready(call[t].on)
    BY DEF H!LevelFlagsCorrected, H!Heard
  <1>1. Good(file, slot, ctx, nonblock, asked, epoll, hpc, call)
    BY DEF HookInv, HookOk
  <1>2. /\ call[t].fd \in Number /\ file[call[t].fd] \in {0, call[t].on}
        /\ call[t].at # 0 /\ slot[call[t].fd] = call[t].at /\ ctx[call[t].at].pending
    BY <1>1 DEF Good, Calls
  <1>3. PICK f \in Number, c \in {call[t].at} : f = call[t].fd /\ c = call[t].at /\ slot[f] = c /\ c # 0 /\ ctx[c].pending
    BY <1>2
  <1>4. ctx[c].fd_ \in Number /\ file[f] # 0
    BY <1>1, <1>3 DEF Good, OwnCtx
  <1>5. epoll[file[f]] = [fd |-> ctx[c].fd_, et |-> ctx[c].et_mode_]
    BY <1>1, <1>3 DEF Good, Watched
  <1>6. file[f] = call[t].on
    BY <1>2, <1>3, <1>4
  <1>7. epoll[call[t].on].fd # 0 /\ ~epoll[call[t].on].et
    BY <1>3, <1>4, <1>5, <1>6 DEF H!ConstOk
  <1>8. epoll[call[t].on] # H!Unwatched
    BY <1>7 DEF H!Unwatched
  <1> QED BY <1>7, <1>8 DEF H!Ready

\* The hooks cannot be told from a plain socket: whatever the descriptors, the
\* coroutines and the interleaving of their calls, with the reactor and with
\* close and dup, every read ends as on the socket it was made on and F_GETFL
\* shows what the user set, but for the recorded lapses.
THEOREM HooksTransparent == ASSUME H!ConstOk PROVE H!Spec => []Transparent
  <1>1. H!Init => HookInv
    BY InitHook
  <1>2. HookInv /\ [H!Next]_(H!vars) => HookInv'
    BY HookInvStep
  <1>3. HookInv => Transparent
    BY HookInvTransparent DEF Transparent
  <1> QED BY <1>1, <1>2, <1>3, PTL DEF H!Spec

\* Whoever waits in level-triggered mode for data that is there has a report of
\* epoll on its way, although the flags of the context are reset late.
THEOREM LateFlagsCorrected == ASSUME H!ConstOk PROVE H!Spec => []LevelFlagsCorrected
  <1>1. H!Init => HookInv
    BY InitHook
  <1>2. HookInv /\ [H!Next]_(H!vars) => HookInv'
    BY HookInvStep
  <1>3. HookInv => LevelFlagsCorrected
    BY HookInvHeard DEF LevelFlagsCorrected
  <1> QED BY <1>1, <1>2, <1>3, PTL DEF H!Spec
=============================================================================
