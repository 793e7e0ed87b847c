--------------------------- MODULE SchedulerProofs ---------------------------
(***************************************************************************)
(* Proofs about Scheduler, for any tasks, any finite set of threads and    *)
(* any bound on the Processers.  A step of a thread takes tasks from one   *)
(* place to another; Transfer says what that does to OnePlace.             *)
(***************************************************************************)
EXTENDS Scheduler, IdleThreads, QueueLemmas, FiniteSetTheorems, WellFoundedInduction

TaskState == {"new", "init", "runnable", "sleep", "sys_block", "done", "lost"}

\* Task t is at the place of kind k and index i: <<k, i>> is in Holders(t).
Held(t, k, i) ==
    \/ k = "queue" /\ i \in Proc /\ Member(queue[i], t)
    \/ k = "running" /\ i \in Thread /\ cur[i] = t
    \/ k = "stolen" /\ i \in Thread /\ Member(tasks[i], t)
    \/ k = "expired" /\ i \in Thread /\ Member(timers[i], t)
    \/ k = "created" /\ i \in Creator /\ kid[i] = t
    \/ k = "asleep" /\ i = t /\ t \in sleepers
    \/ k = "blocked" /\ i = t /\ t \in blocked

NoDups == /\ \A p \in Proc : NoDup(queue[p])
          /\ \A h \in Thread : NoDup(tasks[h]) /\ NoDup(timers[h])
Unique == \A t \in Task : \A k, i, l, j : Held(t, k, i) /\ Held(t, l, j) => k = l /\ i = j
Nowhere(t) == \A k, i : ~Held(t, k, i)
Placed == \A t \in Task : /\ t \in Living => ~Nowhere(t)
                          /\ state_[t] \in {"new", "lost"} => Nowhere(t)
                          /\ state_[t] = "done" => \A k, i : Held(t, k, i) => k = "running"

Places == NoDups /\ Unique /\ Placed

LEMMA HolderHeld ==
    ASSUME NEW t \in Task
    PROVE  \A x : x \in Holders(t) <=> \E k, i : x = <<k, i>> /\ Held(t, k, i)
  <1> TAKE x
  <1>1. ASSUME x \in Holders(t) PROVE \E k, i : x = <<k, i>> /\ Held(t, k, i)
    BY <1>1 DEF Holders, Held
  <1>2. ASSUME NEW k, NEW i, x = <<k, i>>, Held(t, k, i) PROVE x \in Holders(t)
    BY <1>2 DEF Holders, Held
  <1> QED BY <1>1, <1>2

LEMMA PlacesMean == ASSUME TypeOK PROVE Places <=> OnePlace /\ EndedInv
  <1>0. \A t \in Task : state_[t] \in TaskState
    BY DEF TypeOK, TaskState
  <1>1. ASSUME NEW t \in Task
        PROVE  /\ Nowhere(t) <=> Holders(t) = {}
               /\ (\A k, i, l, j : Held(t, k, i) /\ Held(t, l, j) => k = l /\ i = j)
                     <=> \A x, y \in Holders(t) : x = y
               /\ (\A k, i : Held(t, k, i) => k = "running")
                     <=> Holders(t) \subseteq {<<"running", h>> : h \in Thread}
    <2>1. Nowhere(t) <=> Holders(t) = {}
      BY HolderHeld DEF Nowhere
    <2>2. ASSUME \A k, i, l, j : Held(t, k, i) /\ Held(t, l, j) => k = l /\ i = j,
                 NEW x \in Holders(t), NEW y \in Holders(t)
          PROVE  x = y
      BY <2>2, HolderHeld
    <2>3. ASSUME \A x, y \in Holders(t) : x = y,
                 NEW k, NEW i, NEW l, NEW j, Held(t, k, i), Held(t, l, j)
          PROVE  k = l /\ i = j
      <3>1. <<k, i>> \in Holders(t) /\ <<l, j>> \in Holders(t)
        BY <2>3, HolderHeld
      <3>2. <<k, i>> = <<l, j>>
        BY <2>3, <3>1
      <3> QED BY <3>2
    <2>4. ASSUME \A k, i : Held(t, k, i) => k = "running", NEW x \in Holders(t)
          PROVE  x \in {<<"running", h>> : h \in Thread}
      <3>1. PICK k, i : x = <<k, i>> /\ Held(t, k, i)
        BY HolderHeld
      <3>2. k = "running" /\ i \in Thread
        BY <2>4, <3>1 DEF Held
      <3> QED BY <3>1, <3>2
    <2>5. ASSUME Holders(t) \subseteq {<<"running", h>> : h \in Thread},
                 NEW k, NEW i, Held(t, k, i)
          PROVE  k = "running"
      <3>1. <<k, i>> \in Holders(t)
        BY <2>5, HolderHeld
      <3>2. PICK h \in Thread : <<k, i>> = <<"running", h>>
        BY <2>5, <3>1
      <3> QED BY <3>2
    <2> QED BY <2>1, <2>2, <2>3, <2>4, <2>5
  <1>2. ASSUME Places PROVE OnePlace /\ EndedInv
    <2>1. EndedInv
      BY <1>1, <1>2 DEF Places, Placed, Unique, EndedInv
    <2>2. ASSUME NEW t \in Task, t \in Living PROVE \E x \in Holders(t) : Holders(t) = {x}
      <3>1. Holders(t) # {} /\ \A x, y \in Holders(t) : x = y
        BY <1>1, <1>2, <2>2 DEF Places, Placed, Unique
      <3> QED BY <3>1
    <2>3. ASSUME NEW t \in Task, t \notin Living
          PROVE  Holders(t) \subseteq {<<"running", h>> : h \in Thread}
      <3>1. CASE state_[t] = "done"
        BY <1>1, <1>2, <3>1 DEF Places, Placed
      <3>2. CASE state_[t] \in {"new", "lost"}
        BY <2>1, <3>2 DEF EndedInv
      <3> QED BY <1>0, <2>3, <3>1, <3>2 DEF Living, TaskState
    <2> QED BY <1>2, <2>1, <2>2, <2>3 DEF OnePlace, Places, NoDups
  <1>3. ASSUME OnePlace, EndedInv PROVE Places
    <2>1. NoDups
      BY <1>3 DEF OnePlace, NoDups
    <2>2. Unique
      BY <1>1, <1>3 DEF EndedInv, Unique
    <2>3. ASSUME NEW t \in Task
          PROVE  /\ t \in Living => ~Nowhere(t)
                 /\ state_[t] \in {"new", "lost"} => Nowhere(t)
                 /\ state_[t] = "done" => \A k, i : Held(t, k, i) => k = "running"
      <3>1. t \in Living => Holders(t) # {}
        BY <1>3 DEF OnePlace
      <3>2. state_[t] \in {"new", "lost"} => Holders(t) = {}
        BY <1>3 DEF EndedInv
      <3>3. state_[t] = "done" => Holders(t) \subseteq {<<"running", h>> : h \in Thread}
        BY <1>3 DEF OnePlace, Living
      <3> QED BY <1>1, <3>1, <3>2, <3>3
    <2> QED BY <2>1, <2>2, <2>3 DEF Places, Placed
  <1> QED BY <1>2, <1>3
-----------------------------------------------------------------------------
(* What a step may do to the places of tasks.                              *)

\* The tasks of G leave place a for place b.
Change(G, ka, ia, kb, ib) ==
    \A u \in Task : \A k, i :
       Held(u, k, i)' <=> \/ Held(u, k, i) /\ ~(u \in G /\ k = ka /\ i = ia)
                          \/ u \in G /\ k = kb /\ i = ib

\* Nobody moves; t appears at place b; t vanishes.
Stays == \A u \in Task : \A k, i : Held(u, k, i)' <=> Held(u, k, i)
Appears(t, kb, ib) ==
    \A u \in Task : \A k, i :
       Held(u, k, i)' <=> Held(u, k, i) \/ (u = t /\ k = kb /\ i = ib)
Vanishes(t) == \A u \in Task : \A k, i : Held(u, k, i)' <=> Held(u, k, i) /\ u # t

\* The states of tasks outside G stay; those in G are alive after the step.
AliveAfter(G) == /\ \A u \in G : state_'[u] \notin {"new", "done", "lost"}
                 /\ \A u \in Task \ G : state_'[u] = state_[u]

LEMMA Transfer ==
    ASSUME Unique, Placed, NEW G \in SUBSET Task, NEW ka, NEW ia, NEW kb, NEW ib,
           \A u \in G : Held(u, ka, ia), Change(G, ka, ia, kb, ib), AliveAfter(G)
    PROVE  Unique' /\ Placed'
  <1>1. ASSUME NEW u \in Task, u \notin G
        PROVE  \A k, i : Held(u, k, i)' <=> Held(u, k, i)
    BY <1>1 DEF Change
  <1>2. ASSUME NEW u \in G
        PROVE  \A k, i : Held(u, k, i)' <=> k = kb /\ i = ib
    <2>1. \A k, i : Held(u, k, i) => k = ka /\ i = ia
      BY DEF Unique
    <2> QED BY <2>1 DEF Change
  <1>3. Unique'
    <2> SUFFICES ASSUME NEW u \in Task, NEW k, NEW i, NEW l, NEW j,
                        Held(u, k, i)', Held(u, l, j)'
                 PROVE  k = l /\ i = j
      BY DEF Unique
    <2> QED BY <1>1, <1>2 DEF Unique
  <1>4. ASSUME NEW u \in Task
        PROVE  /\ u \in Living' => ~Nowhere(u)'
               /\ state_'[u] \in {"new", "lost"} => Nowhere(u)'
               /\ state_'[u] = "done" => \A k, i : Held(u, k, i)' => k = "running"
    <2>1. CASE u \in G
      BY <1>2, <2>1 DEF AliveAfter, Nowhere
    <2>2. CASE u \notin G
      <3>1. state_'[u] = state_[u] /\ (u \in Living' <=> u \in Living)
        BY <2>2 DEF AliveAfter, Living
      <3>2. Nowhere(u)' <=> Nowhere(u)
        BY <1>1, <2>2 DEF Nowhere
      <3> QED BY <1>1, <2>2, <3>1, <3>2 DEF Placed
    <2> QED BY <2>1, <2>2
  <1> QED BY <1>3, <1>4 DEF Placed

\* Nobody moves, and only a running task of thread h may change its state.
LEMMA StayPut ==
    ASSUME Unique, Placed, Stays,
           NEW G \in SUBSET Task, \A u \in G : \E h : Held(u, "running", h),
           \A u \in G : state_'[u] \notin {"new", "lost"},
           \A u \in Task \ G : state_'[u] = state_[u]
    PROVE  Unique' /\ Placed'
  <1>1. Unique'
    BY DEF Unique, Stays
  <1>2. ASSUME NEW u \in Task
        PROVE  /\ u \in Living' => ~Nowhere(u)'
               /\ state_'[u] \in {"new", "lost"} => Nowhere(u)'
               /\ state_'[u] = "done" => \A k, i : Held(u, k, i)' => k = "running"
    <2>1. Nowhere(u)' <=> Nowhere(u)
      BY DEF Nowhere, Stays
    <2>2. CASE u \in G
      BY <2>1, <2>2 DEF Unique, Stays, Nowhere
    <2>3. CASE u \notin G
      BY <2>1, <2>3 DEF Placed, Stays, Living
    <2> QED BY <2>2, <2>3
  <1> QED BY <1>1, <1>2 DEF Placed

LEMMA StayAll == ASSUME Unique, Placed, Stays, state_' = state_ PROVE Unique' /\ Placed'
  <1> DEFINE G == {}
  <1>1. /\ G \in SUBSET Task /\ \A u \in G : \E h : Held(u, "running", h)
        /\ \A u \in G : state_'[u] \notin {"new", "lost"}
        /\ \A u \in Task \ G : state_'[u] = state_[u]
    OBVIOUS
  <1> HIDE DEF G
  <1> QED BY <1>1, StayPut

LEMMA Arrive ==
    ASSUME Unique, Placed, NEW t \in Task, Nowhere(t), NEW kb, NEW ib,
           Appears(t, kb, ib), AliveAfter({t})
    PROVE  Unique' /\ Placed'
  <1>1. ASSUME NEW u \in Task, u # t
        PROVE  \A k, i : Held(u, k, i)' <=> Held(u, k, i)
    BY <1>1 DEF Appears
  <1>2. \A k, i : Held(t, k, i)' <=> k = kb /\ i = ib
    BY DEF Appears, Nowhere
  <1>3. Unique'
    <2> SUFFICES ASSUME NEW u \in Task, NEW k, NEW i, NEW l, NEW j,
                        Held(u, k, i)', Held(u, l, j)'
                 PROVE  k = l /\ i = j
      BY DEF Unique
    <2> QED BY <1>1, <1>2 DEF Unique
  <1>4. ASSUME NEW u \in Task
        PROVE  /\ u \in Living' => ~Nowhere(u)'
               /\ state_'[u] \in {"new", "lost"} => Nowhere(u)'
               /\ state_'[u] = "done" => \A k, i : Held(u, k, i)' => k = "running"
    <2>1. CASE u = t
      BY <1>2, <2>1 DEF AliveAfter, Nowhere
    <2>2. CASE u # t
      <3>1. state_'[u] = state_[u] /\ (u \in Living' <=> u \in Living)
        BY <2>2 DEF AliveAfter, Living
      <3>2. Nowhere(u)' <=> Nowhere(u)
        BY <1>1, <2>2 DEF Nowhere
      <3> QED BY <1>1, <2>2, <3>1, <3>2 DEF Placed
    <2> QED BY <2>1, <2>2
  <1> QED BY <1>3, <1>4 DEF Placed

LEMMA Leave ==
    ASSUME Unique, Placed, NEW t \in Task, Vanishes(t),
           state_'[t] \in {"done", "lost"}, \A u \in Task \ {t} : state_'[u] = state_[u]
    PROVE  Unique' /\ Placed'
  <1>1. Unique'
    BY DEF Unique, Vanishes
  <1>2. ASSUME NEW u \in Task
        PROVE  /\ u \in Living' => ~Nowhere(u)'
               /\ state_'[u] \in {"new", "lost"} => Nowhere(u)'
               /\ state_'[u] = "done" => \A k, i : Held(u, k, i)' => k = "running"
    <2>1. CASE u = t
      BY <2>1 DEF Vanishes, Nowhere, Living
    <2>2. CASE u # t
      <3>1. Nowhere(u)' <=> Nowhere(u)
        BY <2>2 DEF Nowhere, Vanishes
      <3> QED BY <2>2, <3>1 DEF Placed, Vanishes, Living
    <2> QED BY <2>1, <2>2
  <1> QED BY <1>1, <1>2 DEF Placed
-----------------------------------------------------------------------------
(* The steps that leave every task where it is.                            *)

Inv == TypeOK /\ ThreadInv /\ IdInv /\ ParkedInv /\ Places

LEMMA StartedFinite == IsFiniteSet({h \in Thread : pc[h] # "start"})
  BY ConstAssumption, FS_Subset

LEMMA GotoType ==
    ASSUME TypeOK, NEW h \in Thread, NEW l \in ThreadPc, Goto(h, l)
    PROVE  pc' \in [Thread -> ThreadPc]
  BY DEF TypeOK, Goto

LEMMA Half == \A n \in Nat : (n + 1) \div 2 \in Nat
  OBVIOUS

\* A thread that has its id goes on.
LEMMA IdKept ==
    ASSUME TypeOK, IdInv, NEW h \in Thread, NEW l, l # "start", pc[h] # "start",
           Goto(h, l), thread_id_' = thread_id_
    PROVE  IdInv'
  <1>1. {x \in Thread : pc'[x] # "start"} = {x \in Thread : pc[x] # "start"}
    BY DEF TypeOK, Goto
  <1> QED BY <1>1 DEF IdInv

\* A step of thread h leaves the others as they are.
OthersKept(h) ==
    /\ \A x \in Thread \ {h} :
          /\ pc'[x] = pc[x] /\ cur'[x] = cur[x] /\ kid'[x] = kid[x] /\ tid'[x] = tid[x]
          /\ tasks'[x] = tasks[x] /\ timers'[x] = timers[x]
          /\ pc[x] \in {"in", "spawn"} => state_'[cur[x]] # "done"
          /\ pc[x] = "out" => proc_'[cur[x]] \in Proc

LEMMA ThreadKept ==
    ASSUME ThreadInv, NEW h \in Thread, OthersKept(h), ThreadOk(h)'
    PROVE  ThreadInv'
  <1> SUFFICES ASSUME NEW x \in Thread PROVE ThreadOk(x)'
    BY DEF ThreadInv
  <1>1. CASE x = h
    BY <1>1
  <1>2. CASE x # h
    <2>1. ThreadOk(x)
      BY DEF ThreadInv
    <2> QED BY <1>2, <2>1 DEF OthersKept, ThreadOk
  <1> QED BY <1>1, <1>2

\* A step within a thread: no task is moved.
LEMMA LocalStep ==
    ASSUME Inv, NEW h \in Thread, NEW l \in ThreadPc, Goto(h, l), TypeOK',
           l \notin {"start", "in", "spawn", "out", "share"},
           pc[h] \notin {"start", "in", "spawn", "out", "share"},
           timers[h] # <<>> => l \in {"sleepers", "wake"},
           l = "wake" => timers[h] # <<>>,
           UNCHANGED <<idVars, queueVars, kid, waitVars, cur, tasks, timers>>
    PROVE  Inv'
  <1>0. /\ procs' = procs /\ thread_id_' = thread_id_ /\ tid' = tid
        /\ queue' = queue /\ state_' = state_ /\ proc_' = proc_ /\ kid' = kid
        /\ blocked' = blocked /\ sleepers' = sleepers
        /\ cur' = cur /\ tasks' = tasks /\ timers' = timers
    BY DEF idVars, queueVars, waitVars
  <1>1. IdInv'
    BY <1>0, IdKept DEF Inv
  <1>2. ThreadInv'
    <2>1. pc \in [Thread -> ThreadPc] /\ pc' = [pc EXCEPT ![h] = l]
      BY DEF Inv, TypeOK, Goto
    <2>2. OthersKept(h)
      BY <1>0, <2>1 DEF Inv, ThreadInv, ThreadOk, OthersKept
    <2>3. ThreadOk(h)'
      BY <1>0, <2>1 DEF Inv, ThreadInv, ThreadOk
    <2> QED BY <2>2, <2>3, ThreadKept DEF Inv
  <1>3. ParkedInv'
    BY <1>0 DEF Inv, ParkedInv
  <1>4. Places'
    <2>1. Stays
      BY <1>0 DEF Stays, Held
    <2>2. Unique' /\ Placed'
      BY <1>0, <2>1, StayAll DEF Inv, Places
    <2>3. NoDups'
      BY <1>0 DEF Inv, Places, NoDups
    <2> QED BY <2>2, <2>3 DEF Places
  <1> QED BY <1>1, <1>2, <1>3, <1>4 DEF Inv

LEMMA ReadSizeInv == ASSUME Inv, NEW h \in Thread, ReadSize(h) PROVE Inv'
  <1> DEFINE l == IF c[h] >= Len(queue[tid[h]]) THEN "settle" ELSE "pop"
  <1>1. l \in {"settle", "pop"} /\ l \in ThreadPc /\ Goto(h, l) /\ pc[h] = "size"
    BY DEF ReadSize, ThreadPc
  <1> HIDE DEF l
  <1>2. TypeOK'
    <2>1. pc' \in [Thread -> ThreadPc]
      BY <1>1, GotoType DEF Inv
    <2> QED BY <2>1 DEF Inv, TypeOK, ReadSize, idVars, queueVars, taskVars, waitVars, stealVars
  <1>3. timers[h] = <<>>
    BY <1>1 DEF Inv, ThreadInv, ThreadOk
  <1>4. UNCHANGED <<idVars, queueVars, kid, waitVars, cur, tasks, timers>>
    BY DEF ReadSize, stealVars
  <1> QED BY <1>1, <1>2, <1>3, <1>4, LocalStep

LEMMA SettleInv == ASSUME Inv, NEW h \in Thread, Settle(h) PROVE Inv'
  <1> DEFINE l == IF c[h] = 0 /\ done_count[h] = 0 /\ allow_steal[h] /\ procs > 1
                  THEN "victim" ELSE "sleepers"
  <1>1. l \in {"victim", "sleepers"} /\ l \in ThreadPc /\ Goto(h, l) /\ pc[h] = "settle"
    BY DEF Settle, ThreadPc
  <1> HIDE DEF l
  <1>2. TypeOK'
    <2>1. pc' \in [Thread -> ThreadPc]
      BY <1>1, GotoType DEF Inv
    <2>2. c' \in [Thread -> Nat] /\ done_count' \in [Thread -> Nat] /\ task_count_' \in Int
      BY DEF Inv, TypeOK, Settle
    <2> QED BY <2>1, <2>2 DEF Inv, TypeOK, Settle, idVars, queueVars, taskVars, waitVars
  <1>3. timers[h] = <<>>
    BY <1>1 DEF Inv, ThreadInv, ThreadOk
  <1>4. UNCHANGED <<idVars, queueVars, kid, waitVars, cur, tasks, timers>>
    BY DEF Settle
  <1> QED BY <1>1, <1>2, <1>3, <1>4, LocalStep

LEMMA CatchInv == ASSUME Inv, NEW h \in Thread, Catch(h) PROVE Inv'
  <1>1. "size" \in ThreadPc /\ Goto(h, "size") /\ pc[h] = "catch"
    BY DEF Catch, ThreadPc
  <1>2. TypeOK'
    <2>1. pc' \in [Thread -> ThreadPc]
      BY <1>1, GotoType DEF Inv
    <2>2. c' \in [Thread -> Nat] /\ done_count' \in [Thread -> Nat] /\ task_count_' \in Int
      BY DEF Inv, TypeOK, Catch
    <2> QED BY <2>1, <2>2 DEF Inv, TypeOK, Catch, idVars, queueVars, taskVars, waitVars
  <1>3. timers[h] = <<>>
    BY <1>1 DEF Inv, ThreadInv, ThreadOk
  <1>4. UNCHANGED <<idVars, queueVars, kid, waitVars, cur, tasks, timers>>
    BY DEF Catch
  <1> QED BY <1>1, <1>2, <1>3, <1>4, LocalStep

LEMMA ChooseVictimInv ==
    ASSUME Inv, NEW h \in Thread, NEW p \in Proc, ChooseVictim(h, p) PROVE Inv'
  <1>1. "loot" \in ThreadPc /\ Goto(h, "loot") /\ pc[h] = "victim"
    BY DEF ChooseVictim, ThreadPc
  <1>2. TypeOK'
    <2>1. (Len(queue[p]) + 1) \div 2 \in Nat
      <3>1. Len(queue[p]) \in Nat
        BY DEF Inv, TypeOK
      <3> QED BY <3>1, Half
    <2>2. want' \in [Thread -> Nat] /\ r' \in [Thread -> Proc] /\ pc' \in [Thread -> ThreadPc]
      BY <1>1, <2>1 DEF Inv, TypeOK, ChooseVictim, Goto
    <2> QED BY <2>2 DEF Inv, TypeOK, ChooseVictim, idVars, queueVars, taskVars, waitVars
  <1>3. timers[h] = <<>>
    BY <1>1 DEF Inv, ThreadInv, ThreadOk
  <1>4. UNCHANGED <<idVars, queueVars, kid, waitVars, cur, tasks, timers>>
    BY DEF ChooseVictim
  <1> QED BY <1>1, <1>2, <1>3, <1>4, LocalStep

LEMMA CallTimersInv == ASSUME Inv, NEW h \in Thread, CallTimers(h) PROVE Inv'
  <1>1. "wake" \in ThreadPc /\ Goto(h, "wake") /\ pc[h] = "sleepers" /\ timers[h] # <<>>
    BY DEF CallTimers, ThreadPc
  <1>2. TypeOK'
    <2>1. pc' \in [Thread -> ThreadPc]
      BY <1>1, GotoType DEF Inv
    <2> QED BY <2>1 DEF Inv, TypeOK, CallTimers, idVars, queueVars, taskVars, waitVars, stealVars
  <1>3. UNCHANGED <<idVars, queueVars, kid, waitVars, cur, tasks, timers>>
    BY DEF CallTimers, stealVars
  <1> QED BY <1>1, <1>2, <1>3, LocalStep

LEMMA AgainInv == ASSUME Inv, NEW h \in Thread, Again(h) PROVE Inv'
  <1> DEFINE l == IF h \in Looper \/ task_count_ > 0 THEN "size" ELSE "returned"
  <1>1. /\ l \in {"size", "returned"} /\ l \in ThreadPc /\ Goto(h, l)
        /\ pc[h] = "sleepers" /\ timers[h] = <<>>
    BY DEF Again, ThreadPc
  <1> HIDE DEF l
  <1>2. TypeOK'
    <2>1. pc' \in [Thread -> ThreadPc]
      BY <1>1, GotoType DEF Inv
    <2> QED BY <2>1 DEF Inv, TypeOK, Again, idVars, queueVars, taskVars, waitVars, stealVars
  <1>3. UNCHANGED <<idVars, queueVars, kid, waitVars, cur, tasks, timers>>
    BY DEF Again, stealVars
  <1> QED BY <1>1, <1>2, <1>3, LocalStep

\* The first Run of a thread: an id that no Processer lacks.
LEMMA EnterInv == ASSUME Inv, NEW h \in Thread, Enter(h) PROVE Inv'
  <1>0. /\ pc[h] = "start" /\ Goto(h, "size") /\ "size" \in ThreadPc
        /\ tid' = [tid EXCEPT ![h] = thread_id_] /\ thread_id_' = thread_id_ + 1
        /\ GetProcesser(thread_id_)
        /\ queue' = queue /\ state_' = state_ /\ proc_' = proc_ /\ kid' = kid
        /\ blocked' = blocked /\ sleepers' = sleepers
        /\ cur' = cur /\ tasks' = tasks /\ timers' = timers
    BY DEF Enter, ThreadPc, queueVars, waitVars, stealVars
  <1>1. thread_id_ \in Proc
    <2> DEFINE S == {x \in Thread : pc[x] # "start"}
    <2>1. S \subseteq Thread /\ S # Thread /\ IsFiniteSet(Thread)
      BY <1>0, ConstAssumption
    <2>2. Cardinality(S) < Cardinality(Thread) /\ Cardinality(Thread) \in Nat
          /\ Cardinality(S) \in Nat
      BY <2>1, FS_Subset, FS_CardinalityType
    <2>3. thread_id_ = Cardinality(S)
      BY DEF Inv, IdInv
    <2> HIDE DEF S
    <2> QED BY <2>2, <2>3, ConstAssumption DEF Proc
  <1>2. IdInv'
    <2> DEFINE S == {x \in Thread : pc[x] # "start"}
    <2>1. {x \in Thread : pc'[x] # "start"} = S \cup {h} /\ h \notin S
      BY <1>0 DEF Inv, TypeOK, Goto
    <2>2. IsFiniteSet(S)
      BY StartedFinite
    <2>3. Cardinality(S \cup {h}) = Cardinality(S) + 1
      BY <2>1, <2>2, FS_AddElement
    <2>4. thread_id_ = Cardinality(S)
      BY DEF Inv, IdInv
    <2> QED BY <1>0, <2>1, <2>3, <2>4 DEF IdInv
  <1>3. TypeOK'
    <2>1. pc' \in [Thread -> ThreadPc]
      BY <1>0, GotoType DEF Inv
    <2>2. thread_id_' \in Nat /\ tid' \in [Thread -> -1..(MaxProc - 1)]
      BY <1>0, <1>1, ConstAssumption DEF Inv, TypeOK, Proc
    <2>3. procs' \in 0..MaxProc
      BY <1>0, <1>1, ConstAssumption DEF Inv, TypeOK, Proc, GetProcesser
    <2> QED BY <2>1, <2>2, <2>3 DEF Inv, TypeOK, Enter, queueVars, taskVars, waitVars, stealVars
  <1>4. ThreadInv'
    <2>1. pc \in [Thread -> ThreadPc] /\ pc' = [pc EXCEPT ![h] = "size"]
      BY <1>0 DEF Inv, TypeOK, Goto
    <2>2. tid'[h] = thread_id_ /\ \A x \in Thread \ {h} : tid'[x] = tid[x]
      BY <1>0 DEF Inv, TypeOK
    <2>3. OthersKept(h)
      BY <1>0, <2>1, <2>2 DEF Inv, ThreadInv, ThreadOk, OthersKept
    <2>4. ThreadOk(h)'
      BY <1>0, <1>1, <2>1, <2>2 DEF Inv, ThreadInv, ThreadOk
    <2> QED BY <2>3, <2>4, ThreadKept DEF Inv
  <1>5. ParkedInv'
    BY <1>0 DEF Inv, ParkedInv
  <1>6. Places'
    <2>1. Stays
      BY <1>0 DEF Stays, Held
    <2>2. Unique' /\ Placed'
      BY <1>0, <2>1, StayAll DEF Inv, Places
    <2>3. NoDups'
      BY <1>0 DEF Inv, Places, NoDups
    <2> QED BY <2>2, <2>3 DEF Places
  <1> QED BY <1>2, <1>3, <1>4, <1>5, <1>6 DEF Inv

\* The task a thread runs, and no other thread has it.
LEMMA Current ==
    ASSUME Inv, NEW h \in Thread, pc[h] \in {"in", "spawn", "out"}
    PROVE  /\ cur[h] \in Task /\ tid[h] \in Proc /\ Held(cur[h], "running", h)
           /\ \A x \in Thread \ {h} : cur[x] # cur[h]
           /\ \A k, i : Held(cur[h], k, i) => k = "running" /\ i = h
           /\ state_[cur[h]] \notin {"new", "lost"}
  <1>1. cur[h] \in Task /\ tid[h] \in Proc
    BY DEF Inv, TypeOK, ThreadInv, ThreadOk
  <1>2. Held(cur[h], "running", h)
    BY DEF Held
  <1>3. \A k, i : Held(cur[h], k, i) => k = "running" /\ i = h
    BY <1>1, <1>2 DEF Inv, Places, Unique
  <1>4. \A x \in Thread \ {h} : cur[x] # cur[h]
    BY <1>3 DEF Held
  <1>5. state_[cur[h]] \notin {"new", "lost"}
    BY <1>1, <1>2 DEF Inv, Places, Placed, Nowhere
  <1> QED BY <1>1, <1>2, <1>3, <1>4, <1>5

\* The running task gives up the processor or ends: it gets a state and the
\* Processer it ran on.
LEMMA SwitchInv ==
    ASSUME Inv, NEW h \in Thread, NEW s \in {"runnable", "sleep", "sys_block", "done"},
           pc[h] = "in", Goto(h, "out"), TypeOK',
           state_' = [state_ EXCEPT ![cur[h]] = s], proc_' = [proc_ EXCEPT ![cur[h]] = tid[h]],
           UNCHANGED <<idVars, queue, kid, waitVars, cur, tasks, timers>>
    PROVE  Inv'
  <1>0. /\ thread_id_' = thread_id_ /\ tid' = tid
        /\ queue' = queue /\ kid' = kid /\ blocked' = blocked /\ sleepers' = sleepers
        /\ cur' = cur /\ tasks' = tasks /\ timers' = timers
    BY DEF idVars, waitVars
  <1>1. /\ cur[h] \in Task /\ tid[h] \in Proc /\ Held(cur[h], "running", h)
        /\ \A x \in Thread \ {h} : cur[x] # cur[h]
    BY Current
  <1>2. /\ state_'[cur[h]] = s /\ \A u \in Task \ {cur[h]} : state_'[u] = state_[u]
        /\ proc_'[cur[h]] = tid[h] /\ \A u \in Task \ {cur[h]} : proc_'[u] = proc_[u]
    BY <1>1 DEF Inv, TypeOK
  <1>3. IdInv'
    BY <1>0, IdKept DEF Inv
  <1>4. ThreadInv'
    <2>1. pc \in [Thread -> ThreadPc] /\ pc' = [pc EXCEPT ![h] = "out"]
      BY DEF Inv, TypeOK, Goto
    <2>2. \A x \in Thread \ {h} : pc[x] \in {"in", "spawn", "out"} => cur[x] \in Task \ {cur[h]}
      BY <1>1, Current
    <2>3. OthersKept(h)
      BY <1>0, <1>2, <2>1, <2>2 DEF Inv, ThreadInv, ThreadOk, OthersKept
    <2>4. ThreadOk(h)'
      BY <1>0, <1>1, <1>2, <2>1 DEF Inv, ThreadInv, ThreadOk
    <2> QED BY <2>3, <2>4, ThreadKept DEF Inv
  <1>5. ParkedInv'
    BY <1>0, <1>1, <1>2 DEF Inv, ParkedInv
  <1>6. Places'
    <2>1. Stays
      BY <1>0 DEF Stays, Held
    <2> DEFINE G == {cur[h]}
    <2>2. /\ G \in SUBSET Task /\ \A u \in G : \E i : Held(u, "running", i)
          /\ \A u \in G : state_'[u] \notin {"new", "lost"}
          /\ \A u \in Task \ G : state_'[u] = state_[u]
      BY <1>1, <1>2
    <2> HIDE DEF G
    <2>3. Unique' /\ Placed'
      BY <2>1, <2>2, StayPut DEF Inv, Places
    <2>4. NoDups'
      BY <1>0 DEF Inv, Places, NoDups
    <2> QED BY <2>3, <2>4 DEF Places
  <1> QED BY <1>3, <1>4, <1>5, <1>6 DEF Inv

LEMMA CoYieldInv ==
    ASSUME Inv, NEW h \in Thread, NEW s \in {"runnable", "sleep", "sys_block"}, CoYield(h, s)
    PROVE  Inv'
  <1>1. pc[h] = "in" /\ Goto(h, "out") /\ "out" \in ThreadPc
    BY DEF CoYield, ThreadPc
  <1>2. cur[h] \in Task /\ tid[h] \in Proc
    BY <1>1, Current
  <1>3. TypeOK'
    <2>1. pc' \in [Thread -> ThreadPc]
      BY <1>1, GotoType DEF Inv
    <2>2. state_' \in [Task -> TaskState]
      BY <1>2 DEF Inv, TypeOK, TaskState, CoYield
    <2>3. proc_' \in [Task -> -1..(MaxProc - 1)]
      BY <1>2 DEF Inv, TypeOK, CoYield
    <2>4. switches' \in [Task -> Nat]
      BY <1>2 DEF Inv, TypeOK, CoYield
    <2> QED BY <2>1, <2>2, <2>3, <2>4 DEF Inv, TypeOK, TaskState, CoYield, idVars, waitVars, stealVars
  <1>4. /\ state_' = [state_ EXCEPT ![cur[h]] = s] /\ proc_' = [proc_ EXCEPT ![cur[h]] = tid[h]]
        /\ UNCHANGED <<idVars, queue, kid, waitVars, cur, tasks, timers>>
    BY DEF CoYield, stealVars
  <1> QED BY <1>1, <1>3, <1>4, SwitchInv

LEMMA FinishInv ==
    ASSUME Inv, NEW h \in Thread, NEW threw \in BOOLEAN, Finish(h, threw)
    PROVE  Inv'
  <1>1. pc[h] = "in" /\ Goto(h, "out") /\ "out" \in ThreadPc
    BY DEF Finish, ThreadPc
  <1>2. cur[h] \in Task /\ tid[h] \in Proc
    BY <1>1, Current
  <1>3. TypeOK'
    <2>1. pc' \in [Thread -> ThreadPc]
      BY <1>1, GotoType DEF Inv
    <2>2. state_' \in [Task -> TaskState]
      BY <1>2 DEF Inv, TypeOK, TaskState, Finish
    <2>3. proc_' \in [Task -> -1..(MaxProc - 1)]
      BY <1>2 DEF Inv, TypeOK, Finish
    <2>4. eptr_' \in [Task -> BOOLEAN]
      BY <1>2 DEF Inv, TypeOK, Finish
    <2> QED BY <2>1, <2>2, <2>3, <2>4 DEF Inv, TypeOK, TaskState, Finish, idVars, waitVars, stealVars
  <1>4. /\ state_' = [state_ EXCEPT ![cur[h]] = "done"]
        /\ proc_' = [proc_ EXCEPT ![cur[h]] = tid[h]]
        /\ UNCHANGED <<idVars, queue, kid, waitVars, cur, tasks, timers>>
    BY DEF Finish, stealVars
  <1> QED BY <1>1, <1>3, <1>4, SwitchInv
-----------------------------------------------------------------------------
(* The steps that move tasks.                                              *)

\* A list of tasks per index, one of them replaced.
LEMMA ListSet ==
    ASSUME NEW I, NEW f \in [I -> Seq(Task)], \A x \in I : NoDup(f[x]),
           NEW p \in I, NEW q \in Seq(Task), NoDup(q)
    PROVE  /\ [f EXCEPT ![p] = q] \in [I -> Seq(Task)]
           /\ \A x \in I : NoDup([f EXCEPT ![p] = q][x])
           /\ [f EXCEPT ![p] = q][p] = q
           /\ \A x \in I \ {p} : [f EXCEPT ![p] = q][x] = f[x]
  OBVIOUS

\* A task joins a list it is not in.
LEMMA ListPush ==
    ASSUME NEW I, NEW f \in [I -> Seq(Task)], \A x \in I : NoDup(f[x]),
           NEW p \in I, NEW t \in Task, ~Member(f[p], t)
    PROVE  /\ [f EXCEPT ![p] = Append(f[p], t)] \in [I -> Seq(Task)]
           /\ \A x \in I : NoDup([f EXCEPT ![p] = Append(f[p], t)][x])
           /\ \A x \in I : \A u : Member([f EXCEPT ![p] = Append(f[p], t)][x], u)
                                     <=> Member(f[x], u) \/ (x = p /\ u = t)
  <1> DEFINE q == Append(f[p], t)
  <1>1. q \in Seq(Task) /\ NoDup(q) /\ \A u : Member(q, u) <=> Member(f[p], u) \/ u = t
    BY QueueAppend
  <1> HIDE DEF q
  <1>2. /\ [f EXCEPT ![p] = q] \in [I -> Seq(Task)]
        /\ \A x \in I : NoDup([f EXCEPT ![p] = q][x])
        /\ [f EXCEPT ![p] = q][p] = q
        /\ \A x \in I \ {p} : [f EXCEPT ![p] = q][x] = f[x]
    BY <1>1, ListSet
  <1>3. \A x \in I : \A u : Member([f EXCEPT ![p] = q][x], u)
                               <=> Member(f[x], u) \/ (x = p /\ u = t)
    BY <1>1, <1>2
  <1> QED BY <1>2, <1>3 DEF q

\* What the lists are.
LEMMA Lists ==
    ASSUME Inv
    PROVE  /\ queue \in [Proc -> Seq(Task)] /\ \A p \in Proc : NoDup(queue[p])
           /\ tasks \in [Thread -> Seq(Task)] /\ \A h \in Thread : NoDup(tasks[h])
           /\ timers \in [Thread -> Seq(Task)] /\ \A h \in Thread : NoDup(timers[h])
  BY DEF Inv, TypeOK, Places, NoDups

\* Processer::AddTaskRunnable of a task that is somewhere else.
LEMMA AddToEffect ==
    ASSUME Inv, NEW p \in Proc, NEW t \in Task, ~Member(queue[p], t), AddTo(p, t)
    PROVE  /\ queue' \in [Proc -> Seq(Task)] /\ \A x \in Proc : NoDup(queue'[x])
           /\ \A x \in Proc : \A u : Member(queue'[x], u)
                                        <=> Member(queue[x], u) \/ (x = p /\ u = t)
           /\ state_' \in [Task -> TaskState] /\ AliveAfter({t})
           /\ \A u \in Task : state_'[u] = "done" => state_[u] = "done"
  <1>1. queue' = [queue EXCEPT ![p] = Append(queue[p], t)]
    BY DEF AddTo
  <1>2. /\ queue' \in [Proc -> Seq(Task)] /\ \A x \in Proc : NoDup(queue'[x])
        /\ \A x \in Proc : \A u : Member(queue'[x], u)
                                     <=> Member(queue[x], u) \/ (x = p /\ u = t)
    <2> DEFINE q == [queue EXCEPT ![p] = Append(queue[p], t)]
    <2>1. /\ q \in [Proc -> Seq(Task)] /\ \A x \in Proc : NoDup(q[x])
          /\ \A x \in Proc : \A u : Member(q[x], u)
                                       <=> Member(queue[x], u) \/ (x = p /\ u = t)
      <3>1. queue \in [Proc -> Seq(Task)] /\ \A x \in Proc : NoDup(queue[x])
        BY Lists
      <3> HIDE DEF Inv, AddTo
      <3> QED BY <3>1, ListPush
    <2> HIDE DEF q
    <2> QED BY <1>1, <2>1 DEF q
  <1>3. /\ state_' \in [Task -> TaskState] /\ AliveAfter({t})
        /\ \A u \in Task : state_'[u] = "done" => state_[u] = "done"
    BY DEF AddTo, Inv, TypeOK, TaskState, AliveAfter
  <1> QED BY <1>2, <1>3

PopsFrom(p) == queue[p] # <<>> /\ queue' = [queue EXCEPT ![p] = Tail(queue[p])]

LEMMA PopEffect ==
    ASSUME Inv, NEW p \in Proc, PopsFrom(p)
    PROVE  /\ queue' \in [Proc -> Seq(Task)] /\ \A x \in Proc : NoDup(queue'[x])
           /\ Head(queue[p]) \in Task /\ Member(queue[p], Head(queue[p]))
           /\ \A x \in Proc : \A u : Member(queue'[x], u)
                  <=> Member(queue[x], u) /\ ~(x = p /\ u = Head(queue[p]))
  <1> DEFINE q == Tail(queue[p])
  <1>0. queue[p] \in Seq(Task) /\ queue[p] # <<>> /\ NoDup(queue[p])
    BY Lists DEF PopsFrom
  <1>1. /\ q \in Seq(Task) /\ NoDup(q) /\ Head(queue[p]) \in Task
        /\ Member(queue[p], Head(queue[p]))
        /\ \A u : Member(q, u) <=> Member(queue[p], u) /\ u # Head(queue[p])
    BY <1>0, QueueTail
  <1>2. queue' = [queue EXCEPT ![p] = q]
    BY DEF PopsFrom
  <1> HIDE DEF q
  <1>3. /\ queue' \in [Proc -> Seq(Task)] /\ queue'[p] = q
        /\ \A x \in Proc \ {p} : queue'[x] = queue[x]
    BY <1>1, <1>2, Lists
  <1>4. \A x \in Proc : NoDup(queue'[x])
    BY <1>1, <1>3, Lists
  <1>5. \A x \in Proc : \A u : Member(queue'[x], u)
                  <=> Member(queue[x], u) /\ ~(x = p /\ u = Head(queue[p]))
    BY <1>1, <1>3
  <1> QED BY <1>1, <1>3, <1>4, <1>5

LEMMA PopTaskInv == ASSUME Inv, NEW h \in Thread, PopTask(h) PROVE Inv'
  <1>0. pc[h] = "pop" /\ tid[h] \in Proc /\ {"settle", "in"} \subseteq ThreadPc
    BY DEF PopTask, Inv, ThreadInv, ThreadOk, ThreadPc
  <1>1. CASE queue[tid[h]] = <<>> /\ Goto(h, "settle") /\ UNCHANGED <<queue, cur, c>>
    <2>1. TypeOK'
      <3>1. pc' \in [Thread -> ThreadPc]
        BY <1>0, <1>1, GotoType DEF Inv
      <3> QED BY <1>1, <3>1 DEF Inv, TypeOK, PopTask, idVars, taskVars, waitVars, stealVars
    <2>2. timers[h] = <<>>
      BY <1>0 DEF Inv, ThreadInv, ThreadOk
    <2>3. UNCHANGED <<idVars, queueVars, kid, waitVars, cur, tasks, timers>>
      BY <1>1 DEF PopTask, stealVars, queueVars
    <2> QED BY <1>0, <1>1, <2>1, <2>2, <2>3, LocalStep
  <1>2. CASE /\ queue[tid[h]] # <<>>
             /\ queue' = [queue EXCEPT ![tid[h]] = Tail(queue[tid[h]])]
             /\ cur' = [cur EXCEPT ![h] = Head(queue[tid[h]])]
             /\ c' = [c EXCEPT ![h] = @ + 1]
             /\ Goto(h, "in")
    <2> DEFINE t == Head(queue[tid[h]])
    <2>1. /\ queue' \in [Proc -> Seq(Task)] /\ \A x \in Proc : NoDup(queue'[x])
          /\ t \in Task /\ Member(queue[tid[h]], t)
          /\ \A x \in Proc : \A u : Member(queue'[x], u)
                                       <=> Member(queue[x], u) /\ ~(x = tid[h] /\ u = t)
      BY <1>0, <1>2, PopEffect DEF PopsFrom
    <2>2. /\ thread_id_' = thread_id_ /\ tid' = tid /\ state_' = state_ /\ proc_' = proc_
          /\ kid' = kid /\ blocked' = blocked /\ sleepers' = sleepers
          /\ tasks' = tasks /\ timers' = timers
      BY DEF PopTask, idVars, waitVars, stealVars
    <2>3. cur \in [Thread -> Task \cup {NoTask}] /\ cur[h] = NoTask /\ cur' = [cur EXCEPT ![h] = t]
      BY <1>0, <1>2 DEF Inv, TypeOK, ThreadInv, ThreadOk
    <2> HIDE DEF t
    <2>4. cur'[h] = t /\ \A x \in Thread \ {h} : cur'[x] = cur[x]
      BY <2>3
    <2>5. TypeOK'
      <3>1. pc' \in [Thread -> ThreadPc]
        BY <1>0, <1>2, GotoType DEF Inv
      <3>2. cur' \in [Thread -> Task \cup {NoTask}]
        BY <2>1, <2>3
      <3>3. c' \in [Thread -> Nat]
        <4>1. c \in [Thread -> Nat] /\ c' = [c EXCEPT ![h] = c[h] + 1]
          BY <1>2 DEF Inv, TypeOK
        <4> QED BY <4>1
      <3> QED BY <2>1, <3>1, <3>2, <3>3
              DEF Inv, TypeOK, PopTask, idVars, taskVars, waitVars, stealVars
    <2>6. IdInv'
      BY <1>0, <1>2, <2>2, IdKept DEF Inv
    <2>7. Held(t, "queue", tid[h])
      BY <1>0, <2>1 DEF Held
    <2>8. ThreadInv'
      <3>1. pc \in [Thread -> ThreadPc] /\ pc' = [pc EXCEPT ![h] = "in"]
        BY <1>2 DEF Inv, TypeOK, Goto
      <3>2. OthersKept(h)
        BY <2>2, <2>4, <3>1 DEF Inv, ThreadInv, ThreadOk, OthersKept
      <3>3. state_[t] # "done" /\ t # NoTask
        BY <2>1, <2>7, ConstAssumption DEF Inv, Places, Placed
      <3>4. ThreadOk(h)'
        BY <1>0, <2>2, <2>4, <3>1, <3>3 DEF Inv, ThreadInv, ThreadOk
      <3> QED BY <3>2, <3>4, ThreadKept DEF Inv
    <2>9. ParkedInv'
      BY <2>2 DEF Inv, ParkedInv
    <2>10. Places'
      <3>1. Change({t}, "queue", tid[h], "running", h)
        BY <1>0, <2>1, <2>2, <2>3, <2>4, ConstAssumption DEF Change, Held
      <3>2. AliveAfter({t})
        BY <2>1, <2>2, <2>7 DEF AliveAfter, Inv, Places, Placed, Nowhere
      <3>3. {t} \in SUBSET Task /\ \A u \in {t} : Held(u, "queue", tid[h])
        BY <2>1, <2>7
      <3>4. Unique' /\ Placed'
        BY <3>1, <3>2, <3>3, Transfer DEF Inv, Places
      <3>5. NoDups'
        BY <2>1, <2>2, Lists DEF NoDups
      <3> QED BY <3>4, <3>5 DEF Places
    <2> QED BY <2>5, <2>6, <2>8, <2>9, <2>10 DEF Inv
  <1> QED BY <1>1, <1>2 DEF PopTask

\* A thread lets go of its task, at whatever place the task is left.
LEMMA LetGo ==
    ASSUME Inv, NEW h \in Thread, pc[h] \in {"in", "out"}, NEW l \in {"size", "catch"},
           Goto(h, l), cur' = [cur EXCEPT ![h] = NoTask],
           UNCHANGED <<idVars, proc_, kid, tasks, timers>>,
           \A u \in Task \ {cur[h]} : state_'[u] = state_[u]
    PROVE  /\ IdInv' /\ ThreadInv'
           /\ pc' \in [Thread -> ThreadPc] /\ cur' \in [Thread -> Task \cup {NoTask}]
           /\ cur'[h] = NoTask /\ \A x \in Thread \ {h} : cur'[x] = cur[x]
  <1>0. thread_id_' = thread_id_ /\ tid' = tid /\ proc_' = proc_ /\ kid' = kid
        /\ tasks' = tasks /\ timers' = timers
    BY DEF idVars
  <1>1. IdInv'
    BY <1>0, IdKept DEF Inv
  <1>2. /\ pc \in [Thread -> ThreadPc] /\ pc' = [pc EXCEPT ![h] = l] /\ l \in ThreadPc
        /\ cur \in [Thread -> Task \cup {NoTask}]
    BY DEF Inv, TypeOK, Goto, ThreadPc
  <1>3. \A x \in Thread \ {h} : pc[x] \in {"in", "spawn", "out"} => cur[x] \in Task \ {cur[h]}
    BY Current
  <1>4. OthersKept(h)
    BY <1>0, <1>2, <1>3 DEF Inv, ThreadInv, ThreadOk, OthersKept
  <1>5. ThreadOk(h)'
    BY <1>0, <1>2 DEF Inv, ThreadInv, ThreadOk
  <1>6. ThreadInv'
    BY <1>4, <1>5, ThreadKept DEF Inv
  <1> QED BY <1>1, <1>2, <1>6

LEMMA SwapInFailsInv == ASSUME Inv, NEW h \in Thread, SwapInFails(h) PROVE Inv'
  <1>0. /\ pc[h] = "in" /\ Goto(h, "catch") /\ cur' = [cur EXCEPT ![h] = NoTask]
        /\ state_' = [state_ EXCEPT ![cur[h]] = "lost"]
        /\ UNCHANGED <<idVars, proc_, kid, tasks, timers>>
        /\ queue' = queue /\ kid' = kid /\ blocked' = blocked /\ sleepers' = sleepers
        /\ proc_' = proc_ /\ tasks' = tasks /\ timers' = timers
    BY DEF SwapInFails, stealVars, waitVars
  <1>1. /\ cur[h] \in Task /\ \A x \in Thread \ {h} : cur[x] # cur[h]
        /\ \A k, i : Held(cur[h], k, i) => k = "running" /\ i = h
    BY <1>0, Current
  <1>2. /\ state_' \in [Task -> TaskState] /\ state_'[cur[h]] = "lost"
        /\ \A u \in Task \ {cur[h]} : state_'[u] = state_[u]
    BY <1>0, <1>1 DEF Inv, TypeOK, TaskState
  <1>3. /\ IdInv' /\ ThreadInv'
        /\ pc' \in [Thread -> ThreadPc] /\ cur' \in [Thread -> Task \cup {NoTask}]
        /\ cur'[h] = NoTask /\ \A x \in Thread \ {h} : cur'[x] = cur[x]
    BY <1>0, <1>2, LetGo
  <1>4. TypeOK'
    BY <1>2, <1>3 DEF Inv, TypeOK, TaskState, SwapInFails, idVars, taskVars, waitVars, stealVars
  <1>5. ParkedInv'
    BY <1>0 DEF Inv, ParkedInv
  <1>6. Places'
    <2>1. Vanishes(cur[h])
      BY <1>0, <1>1, <1>3, ConstAssumption DEF Vanishes, Held
    <2>2. Unique' /\ Placed'
      BY <1>1, <1>2, <2>1, Leave DEF Inv, Places
    <2>3. NoDups'
      BY <1>0 DEF Inv, Places, NoDups
    <2> QED BY <2>2, <2>3 DEF Places
  <1> QED BY <1>3, <1>4, <1>5, <1>6 DEF Inv

LEMMA SwitchOutInv == ASSUME Inv, NEW h \in Thread, SwitchOut(h) PROVE Inv'
  <1> DEFINE t == cur[h]
  <1>0. /\ pc[h] = "out" /\ cur' = [cur EXCEPT ![h] = NoTask]
        /\ UNCHANGED <<idVars, proc_, kid, tasks, timers>>
        /\ kid' = kid /\ proc_' = proc_ /\ tasks' = tasks /\ timers' = timers
    BY DEF SwitchOut, stealVars
  <1>1. /\ t \in Task /\ tid[h] \in Proc /\ \A x \in Thread \ {h} : cur[x] # t
        /\ Held(t, "running", h)
        /\ \A k, i : Held(t, k, i) => k = "running" /\ i = h
        /\ state_[t] \notin {"new", "lost"} /\ proc_[t] \in Proc
    BY <1>0, Current DEF Inv, ThreadInv, ThreadOk
  <1>2. ~Member(queue[tid[h]], t)
    BY <1>1 DEF Held
  <1>3. ASSUME NEW l \in {"size", "catch"}, Goto(h, l), \A u \in Task \ {t} : state_'[u] = state_[u]
        PROVE  /\ IdInv' /\ ThreadInv'
               /\ pc' \in [Thread -> ThreadPc] /\ cur' \in [Thread -> Task \cup {NoTask}]
               /\ cur'[h] = NoTask /\ \A x \in Thread \ {h} : cur'[x] = cur[x]
    BY <1>0, <1>3, LetGo
  <1>4. ASSUME AddTo(tid[h], t), Goto(h, "size"), UNCHANGED <<waitVars, done_count>>
        PROVE  Inv'
    <2>1. /\ queue' \in [Proc -> Seq(Task)] /\ \A x \in Proc : NoDup(queue'[x])
          /\ \A x \in Proc : \A u : Member(queue'[x], u)
                                       <=> Member(queue[x], u) \/ (x = tid[h] /\ u = t)
          /\ state_' \in [Task -> TaskState] /\ AliveAfter({t})
      BY <1>1, <1>2, <1>4, AddToEffect
    <2>2. /\ IdInv' /\ ThreadInv'
          /\ pc' \in [Thread -> ThreadPc] /\ cur' \in [Thread -> Task \cup {NoTask}]
          /\ cur'[h] = NoTask /\ \A x \in Thread \ {h} : cur'[x] = cur[x]
      BY <1>3, <1>4, <2>1 DEF AliveAfter
    <2>3. blocked' = blocked /\ sleepers' = sleepers
      BY <1>4 DEF waitVars
    <2>4. TypeOK'
      BY <1>4, <2>1, <2>2 DEF Inv, TypeOK, TaskState, SwitchOut, idVars, taskVars, waitVars, stealVars
    <2>5. ParkedInv'
      BY <1>0, <2>3 DEF Inv, ParkedInv
    <2>6. Change({t}, "running", h, "queue", tid[h])
      BY <1>0, <1>1, <2>1, <2>2, <2>3, ConstAssumption DEF Change, Held
    <2>7. Unique' /\ Placed'
      <3>1. {t} \in SUBSET Task /\ \A u \in {t} : Held(u, "running", h)
        BY <1>1
      <3> QED BY <2>1, <2>6, <3>1, Transfer DEF Inv, Places
    <2>8. NoDups'
      BY <1>0, <2>1, Lists DEF NoDups
    <2> QED BY <2>2, <2>4, <2>5, <2>7, <2>8 DEF Inv, Places
  <1>5. CASE LeaveRunnable(h)
    <2>1. state_[t] = "runnable" /\ state_' = state_
      BY <1>5 DEF LeaveRunnable
    <2>2. state_' = [state_ EXCEPT ![t] = "runnable"]
      BY <1>1, <2>1 DEF Inv, TypeOK
    <2>3. AddTo(tid[h], t)
      BY <1>5, <2>2 DEF LeaveRunnable, AddTo
    <2> QED BY <1>4, <1>5, <2>3 DEF LeaveRunnable
  <1>6. CASE LeaveBlock(h) /\ AddTo(tid[h], t) /\ UNCHANGED blocked
    BY <1>4, <1>6 DEF LeaveBlock, waitVars
  <1>7. ASSUME NEW kb \in {"asleep", "blocked"}, Goto(h, "size"), UNCHANGED <<queue, state_, done_count>>,
               state_[t] \in {"sleep", "sys_block"},
               sleepers' = IF kb = "asleep" THEN sleepers \cup {t} ELSE sleepers,
               blocked' = IF kb = "blocked" THEN blocked \cup {t} ELSE blocked,
               wait_tasks_' = IF kb = "asleep" THEN wait_tasks_ \cup {t} ELSE wait_tasks_
        PROVE  Inv'
    <2>1. queue' = queue /\ state_' = state_
      BY <1>7
    <2>2. /\ IdInv' /\ ThreadInv'
          /\ pc' \in [Thread -> ThreadPc] /\ cur' \in [Thread -> Task \cup {NoTask}]
          /\ cur'[h] = NoTask /\ \A x \in Thread \ {h} : cur'[x] = cur[x]
      BY <1>3, <1>7, <2>1
    <2>3. blocked' \cup wait_tasks_' \cup sleepers' \subseteq Task
      BY <1>1, <1>7 DEF Inv, TypeOK
    <2>4. TypeOK'
      BY <1>7, <2>2, <2>3 DEF Inv, TypeOK, SwitchOut, idVars, taskVars, stealVars
    <2>5. ParkedInv'
      BY <1>0, <1>1, <1>7 DEF Inv, ParkedInv
    <2>6. Change({t}, "running", h, kb, t)
      BY <1>0, <1>1, <1>7, <2>1, <2>2, ConstAssumption DEF Change, Held
    <2>7. Unique' /\ Placed'
      <3>1. {t} \in SUBSET Task /\ \A u \in {t} : Held(u, "running", h)
        BY <1>1
      <3>2. AliveAfter({t})
        BY <1>7, <2>1 DEF AliveAfter
      <3> QED BY <2>6, <3>1, <3>2, Transfer DEF Inv, Places
    <2>8. NoDups'
      BY <1>0, <2>1 DEF Inv, Places, NoDups
    <2> QED BY <2>2, <2>4, <2>5, <2>7, <2>8 DEF Inv, Places
  <1>8. CASE LeaveSleep(h)
    <2> DEFINE kb == "asleep"
    <2>1. /\ Goto(h, "size") /\ UNCHANGED <<queue, state_, done_count>>
          /\ state_[t] \in {"sleep", "sys_block"} /\ kb \in {"asleep", "blocked"}
          /\ sleepers' = IF kb = "asleep" THEN sleepers \cup {t} ELSE sleepers
          /\ blocked' = IF kb = "blocked" THEN blocked \cup {t} ELSE blocked
          /\ wait_tasks_' = IF kb = "asleep" THEN wait_tasks_ \cup {t} ELSE wait_tasks_
      BY <1>8 DEF LeaveSleep
    <2> HIDE DEF kb
    <2> QED BY <1>7, <2>1
  <1>9. CASE LeaveBlock(h) /\ blocked' = blocked \cup {t} /\ UNCHANGED <<queue, state_>>
    <2> DEFINE kb == "blocked"
    <2>1. /\ Goto(h, "size") /\ UNCHANGED <<queue, state_, done_count>>
          /\ state_[t] \in {"sleep", "sys_block"} /\ kb \in {"asleep", "blocked"}
          /\ sleepers' = IF kb = "asleep" THEN sleepers \cup {t} ELSE sleepers
          /\ blocked' = IF kb = "blocked" THEN blocked \cup {t} ELSE blocked
          /\ wait_tasks_' = IF kb = "asleep" THEN wait_tasks_ \cup {t} ELSE wait_tasks_
      BY <1>9 DEF LeaveBlock
    <2> HIDE DEF kb
    <2> QED BY <1>7, <2>1
  <1>10. CASE LeaveDone(h)
    <2> DEFINE l == IF eptr_[t] THEN "catch" ELSE "size"
    <2>1. /\ l \in {"size", "catch"} /\ Goto(h, l) /\ state_[t] = "done"
          /\ queue' = queue /\ state_' = state_ /\ blocked' = blocked /\ sleepers' = sleepers
      BY <1>10 DEF LeaveDone, waitVars
    <2> HIDE DEF l
    <2>2. /\ IdInv' /\ ThreadInv'
          /\ pc' \in [Thread -> ThreadPc] /\ cur' \in [Thread -> Task \cup {NoTask}]
          /\ cur'[h] = NoTask /\ \A x \in Thread \ {h} : cur'[x] = cur[x]
      BY <1>3, <2>1
    <2>3. done_count' \in [Thread -> Nat]
      BY <1>10 DEF LeaveDone, Inv, TypeOK
    <2>4. TypeOK'
      BY <1>10, <2>1, <2>2, <2>3
         DEF Inv, TypeOK, SwitchOut, LeaveDone, idVars, taskVars, stealVars, waitVars
    <2>5. ParkedInv'
      BY <1>0, <2>1 DEF Inv, ParkedInv
    <2>6. Vanishes(t)
      BY <1>0, <1>1, <2>1, <2>2, ConstAssumption DEF Vanishes, Held
    <2>7. Unique' /\ Placed'
      BY <1>1, <2>1, <2>6, Leave DEF Inv, Places
    <2>8. NoDups'
      BY <1>0, <2>1 DEF Inv, Places, NoDups
    <2> QED BY <2>2, <2>4, <2>5, <2>7, <2>8 DEF Inv, Places
  <1> QED BY <1>5, <1>6, <1>8, <1>9, <1>10 DEF SwitchOut, LeaveBlock

\* pop_back takes no more than there is, whatever the size was when it was read.
LEMMA PopBackRange ==
    ASSUME NEW q \in Seq(Task), NEW n \in Nat
    PROVE  Len(q) - PopBack(q, n) \in 0..Len(q)
  <1>1. Len(q) \in Nat
    OBVIOUS
  <1> QED BY <1>1 DEF PopBack

\* The stolen tasks leave the victim's queue together.
LEMMA PopLootInv == ASSUME Inv, NEW h \in Thread, PopLoot(h) PROVE Inv'
  <1> DEFINE q == queue[r[h]]
             m == Len(q) - PopBack(q, want[h])
             front == SubSeq(q, 1, m)
             back == SubSeq(q, m + 1, Len(q))
             l == IF q = <<>> THEN "sleepers" ELSE "share"
             G == {u \in Task : Member(back, u)}
  <1>0. /\ pc[h] = "loot" /\ r[h] \in Proc /\ want[h] \in Nat
        /\ q \in Seq(Task) /\ NoDup(q)
    BY Lists DEF PopLoot, Inv, TypeOK
  <1>1. m \in 0..Len(q)
    BY <1>0, PopBackRange
  <1>2. /\ tasks' = [tasks EXCEPT ![h] = back] /\ queue' = [queue EXCEPT ![r[h]] = front]
        /\ Goto(h, l) /\ l \in {"sleepers", "share"} /\ l \in ThreadPc
        /\ q = <<>> => l = "sleepers"
        /\ q # <<>> => l = "share"
    BY DEF PopLoot, ThreadPc
  <1>3. /\ thread_id_' = thread_id_ /\ tid' = tid /\ state_' = state_ /\ proc_' = proc_
        /\ kid' = kid /\ blocked' = blocked /\ sleepers' = sleepers
        /\ cur' = cur /\ timers' = timers
    BY DEF PopLoot, idVars, waitVars
  <1> HIDE DEF m, l
  <1>4. /\ front \in Seq(Task) /\ back \in Seq(Task)
        /\ NoDup(front) /\ NoDup(back)
        /\ \A x : Member(front, x) <=> Member(q, x) /\ ~Member(back, x)
        /\ \A x : Member(back, x) => Member(q, x)
    BY <1>0, <1>1, QueueSplit
  <1>5. q = <<>> => back = <<>>
    <2> SUFFICES ASSUME q = <<>>, back # <<>> PROVE FALSE
      OBVIOUS
    <2> HIDE DEF q, back
    <2>1. Member(back, back[1])
      BY <1>4 DEF Member
    <2>2. Member(q, back[1])
      BY <1>4, <2>1
    <2> QED BY <2>2 DEF Member
  <1>6. tasks[h] = <<>>
    BY <1>0 DEF Inv, ThreadInv, ThreadOk
  <1> HIDE DEF front, back
  <1>7. /\ queue' \in [Proc -> Seq(Task)] /\ \A x \in Proc : NoDup(queue'[x])
        /\ queue'[r[h]] = front /\ \A x \in Proc \ {r[h]} : queue'[x] = queue[x]
    BY <1>0, <1>2, <1>4, Lists
  <1>8. /\ tasks' \in [Thread -> Seq(Task)] /\ \A x \in Thread : NoDup(tasks'[x])
        /\ tasks'[h] = back /\ \A x \in Thread \ {h} : tasks'[x] = tasks[x]
    BY <1>2, <1>4, Lists
  <1>9. IdInv'
    BY <1>0, <1>2, <1>3, IdKept DEF Inv
  <1>10. TypeOK'
    <2>1. pc' \in [Thread -> ThreadPc]
      BY <1>2, GotoType DEF Inv
    <2>2. r' \in [Thread -> Proc] /\ want' \in [Thread -> Nat]
      <3>1. 0 \in Proc /\ r \in [Thread -> Proc] /\ want \in [Thread -> Nat]
        BY ConstAssumption DEF Inv, TypeOK, Proc
      <3> QED BY <3>1 DEF PopLoot
    <2> QED BY <1>7, <1>8, <2>1, <2>2 DEF Inv, TypeOK, PopLoot, idVars, taskVars, waitVars
  <1>11. ThreadInv'
    <2>1. pc \in [Thread -> ThreadPc] /\ pc' = [pc EXCEPT ![h] = l]
      BY <1>2 DEF Inv, TypeOK, Goto
    <2>2. OthersKept(h)
      BY <1>3, <1>8, <2>1 DEF Inv, ThreadInv, ThreadOk, OthersKept
    <2>3. ThreadOk(h)'
      BY <1>0, <1>2, <1>3, <1>5, <1>8, <2>1 DEF Inv, ThreadInv, ThreadOk
    <2> QED BY <2>2, <2>3, ThreadKept DEF Inv
  <1>12. ParkedInv'
    BY <1>3 DEF Inv, ParkedInv
  <1>13. Places'
    <2>0. \A u \in G : Held(u, "queue", r[h])
      BY <1>0, <1>4 DEF Held
    <2>1. G \in SUBSET Task
      OBVIOUS
    <2>2. Change(G, "queue", r[h], "stolen", h)
      <3>1. \A x \in Proc : \A u \in Task : Member(queue'[x], u)
                  <=> Member(queue[x], u) /\ ~(u \in G /\ x = r[h])
        BY <1>4, <1>7
      <3>2. ~\E u : Member(tasks[h], u)
        BY <1>6 DEF Member
      <3>3. \A x \in Thread : \A u \in Task : Member(tasks'[x], u)
                  <=> Member(tasks[x], u) \/ (u \in G /\ x = h)
        BY <1>8, <3>2
      <3> HIDE DEF G
      <3> QED BY <1>0, <1>3, <3>1, <3>3 DEF Change, Held
    <2>3. AliveAfter(G)
      BY <1>3, <2>0 DEF AliveAfter, Inv, Places, Placed, Nowhere
    <2> HIDE DEF G
    <2>4. Unique' /\ Placed'
      BY <2>0, <2>1, <2>2, <2>3, Transfer DEF Inv, Places
    <2>5. NoDups'
      BY <1>3, <1>7, <1>8, Lists DEF NoDups
    <2> QED BY <2>4, <2>5 DEF Places
  <1> QED BY <1>9, <1>10, <1>11, <1>12, <1>13 DEF Inv

\* ... and enter the thief's.
LEMMA PushLootInv == ASSUME Inv, NEW h \in Thread, PushLoot(h) PROVE Inv'
  <1> DEFINE q == queue[tid[h]]
             u0 == tasks[h]
             G == {u \in Task : Member(u0, u)}
  <1>0. /\ pc[h] = "share" /\ tid[h] \in Proc /\ q \in Seq(Task) /\ u0 \in Seq(Task)
        /\ NoDup(q) /\ NoDup(u0) /\ "size" \in ThreadPc
    BY Lists DEF PushLoot, Inv, ThreadInv, ThreadOk, ThreadPc
  <1>1. /\ queue' = [queue EXCEPT ![tid[h]] = q \o u0] /\ tasks' = [tasks EXCEPT ![h] = <<>>]
        /\ Goto(h, "size")
    BY DEF PushLoot
  <1>2. /\ thread_id_' = thread_id_ /\ tid' = tid /\ state_' = state_ /\ proc_' = proc_
        /\ kid' = kid /\ blocked' = blocked /\ sleepers' = sleepers
        /\ cur' = cur /\ timers' = timers
    BY DEF PushLoot, idVars, waitVars
  <1>3. \A x : ~(Member(q, x) /\ Member(u0, x))
    <2> SUFFICES ASSUME NEW x, Member(q, x), Member(u0, x) PROVE FALSE
      OBVIOUS
    <2>1. x \in Task
      BY <1>0 DEF Member
    <2>2. Held(x, "queue", tid[h]) /\ Held(x, "stolen", h)
      BY <1>0 DEF Held
    <2> QED BY <2>1, <2>2 DEF Inv, Places, Unique
  <1>4. /\ q \o u0 \in Seq(Task) /\ NoDup(q \o u0)
        /\ \A x : Member(q \o u0, x) <=> Member(q, x) \/ Member(u0, x)
    BY <1>0, <1>3, QueueConcat
  <1>5. NoDup(<<>>) /\ \A x : ~Member(<<>>, x)
    BY DEF NoDup, Member
  <1> DEFINE w == q \o u0
  <1>6. /\ w \in Seq(Task) /\ NoDup(w) /\ queue' = [queue EXCEPT ![tid[h]] = w]
        /\ \A x : Member(w, x) <=> Member(q, x) \/ Member(u0, x)
    BY <1>1, <1>4
  <1> HIDE DEF w
  <1>7. /\ queue' \in [Proc -> Seq(Task)] /\ \A x \in Proc : NoDup(queue'[x])
        /\ queue'[tid[h]] = w /\ \A x \in Proc \ {tid[h]} : queue'[x] = queue[x]
    BY <1>0, <1>6, Lists
  <1>8. /\ tasks' \in [Thread -> Seq(Task)] /\ \A x \in Thread : NoDup(tasks'[x])
        /\ tasks'[h] = <<>> /\ \A x \in Thread \ {h} : tasks'[x] = tasks[x]
    BY <1>1, <1>5, Lists
  <1>9. IdInv'
    BY <1>0, <1>1, <1>2, IdKept DEF Inv
  <1>10. TypeOK'
    <2>1. pc' \in [Thread -> ThreadPc]
      BY <1>0, <1>1, GotoType DEF Inv
    <2> QED BY <1>7, <1>8, <2>1 DEF Inv, TypeOK, PushLoot, idVars, taskVars, waitVars
  <1>11. ThreadInv'
    <2>1. pc \in [Thread -> ThreadPc] /\ pc' = [pc EXCEPT ![h] = "size"]
      BY <1>1 DEF Inv, TypeOK, Goto
    <2>2. OthersKept(h)
      BY <1>2, <1>8, <2>1 DEF Inv, ThreadInv, ThreadOk, OthersKept
    <2>3. ThreadOk(h)'
      BY <1>0, <1>2, <1>8, <2>1 DEF Inv, ThreadInv, ThreadOk
    <2> QED BY <2>2, <2>3, ThreadKept DEF Inv
  <1>12. ParkedInv'
    BY <1>2 DEF Inv, ParkedInv
  <1>13. Places'
    <2>0. G \in SUBSET Task /\ \A u \in G : Held(u, "stolen", h)
      BY <1>0 DEF Held
    <2>1. Change(G, "stolen", h, "queue", tid[h])
      <3>1. \A x \in Proc : \A u \in Task : Member(queue'[x], u)
                  <=> Member(queue[x], u) \/ (u \in G /\ x = tid[h])
        BY <1>6, <1>7
      <3>2. \A x \in Thread : \A u \in Task : Member(tasks'[x], u)
                  <=> Member(tasks[x], u) /\ ~(u \in G /\ x = h)
        BY <1>5, <1>8
      <3> HIDE DEF G
      <3> QED BY <1>0, <1>2, <3>1, <3>2 DEF Change, Held
    <2>2. AliveAfter(G)
      BY <1>2, <2>0 DEF AliveAfter, Inv, Places, Placed, Nowhere
    <2> HIDE DEF G
    <2>3. Unique' /\ Placed'
      BY <2>0, <2>1, <2>2, Transfer DEF Inv, Places
    <2>4. NoDups'
      BY <1>2, <1>7, <1>8, Lists DEF NoDups
    <2> QED BY <2>3, <2>4 DEF Places
  <1> QED BY <1>9, <1>10, <1>11, <1>12, <1>13 DEF Inv

\* An expired timer leaves the manager for the list of the thread that found it.
LEMMA GetExpiredInv ==
    ASSUME Inv, NEW h \in Thread, NEW t \in Task, GetExpired(h, t)
    PROVE  Inv'
  <1>0. /\ pc[h] = "sleepers" /\ t \in sleepers
        /\ timers' = [timers EXCEPT ![h] = Append(timers[h], t)]
        /\ sleepers' = sleepers \ {t}
    BY DEF GetExpired
  <1>1. /\ thread_id_' = thread_id_ /\ tid' = tid /\ state_' = state_ /\ proc_' = proc_
        /\ queue' = queue /\ kid' = kid /\ blocked' = blocked /\ pc' = pc
        /\ cur' = cur /\ tasks' = tasks
    BY DEF GetExpired, idVars, queueVars, stealVars
  <1>2. Held(t, "asleep", t)
    BY <1>0 DEF Held
  <1>3. ~Member(timers[h], t)
    BY <1>2 DEF Inv, Places, Unique, Held
  <1>4. /\ timers' \in [Thread -> Seq(Task)] /\ \A x \in Thread : NoDup(timers'[x])
        /\ \A x \in Thread : \A u : Member(timers'[x], u)
                                       <=> Member(timers[x], u) \/ (x = h /\ u = t)
    <2> DEFINE q == [timers EXCEPT ![h] = Append(timers[h], t)]
    <2>1. /\ q \in [Thread -> Seq(Task)] /\ \A x \in Thread : NoDup(q[x])
          /\ \A x \in Thread : \A u : Member(q[x], u)
                                         <=> Member(timers[x], u) \/ (x = h /\ u = t)
      BY <1>3, Lists, ListPush
    <2>2. timers' = q
      BY <1>0
    <2> HIDE DEF q
    <2> QED BY <2>1, <2>2
  <1>5. IdInv'
    BY <1>1 DEF Inv, IdInv
  <1>6. TypeOK'
    BY <1>0, <1>4 DEF Inv, TypeOK, GetExpired, idVars, queueVars, taskVars, stealVars
  <1>7. ThreadInv'
    <2>1. \A x \in Thread \ {h} : timers'[x] = timers[x]
      BY <1>0, Lists
    <2>2. OthersKept(h)
      BY <1>1, <2>1 DEF Inv, ThreadInv, ThreadOk, OthersKept
    <2>3. ThreadOk(h)'
      BY <1>0, <1>1 DEF Inv, ThreadInv, ThreadOk
    <2> QED BY <2>2, <2>3, ThreadKept DEF Inv
  <1>8. ParkedInv'
    BY <1>0, <1>1, <1>4 DEF Inv, ParkedInv
  <1>9. Places'
    <2>1. Change({t}, "asleep", t, "expired", h)
      BY <1>0, <1>1, <1>4 DEF Change, Held
    <2>2. AliveAfter({t})
      BY <1>1, <1>2 DEF AliveAfter, Inv, Places, Placed, Nowhere
    <2>3. {t} \in SUBSET Task /\ \A u \in {t} : Held(u, "asleep", t)
      BY <1>2
    <2>4. Unique' /\ Placed'
      BY <2>1, <2>2, <2>3, Transfer DEF Inv, Places
    <2>5. NoDups'
      BY <1>1, <1>4, Lists DEF NoDups
    <2> QED BY <2>4, <2>5 DEF Places
  <1> QED BY <1>5, <1>6, <1>7, <1>8, <1>9 DEF Inv

\* The task of an expired timer goes back to the Processer it last ran on.
LEMMA WakeupInv == ASSUME Inv, NEW h \in Thread, Wakeup(h) PROVE Inv'
  <1> DEFINE t == Head(timers[h])
             p == proc_[t]
             l == IF Len(timers[h]) = 1 THEN "sleepers" ELSE "wake"
             q == Tail(timers[h])
  <1>0. /\ pc[h] = "wake" /\ AddTo(p, t) /\ timers' = [timers EXCEPT ![h] = q]
        /\ Goto(h, l) /\ l \in {"sleepers", "wake"} /\ l \in ThreadPc
        /\ wait_tasks_' = wait_tasks_ \ {t}
    BY DEF Wakeup, ThreadPc
  <1>1. /\ thread_id_' = thread_id_ /\ tid' = tid /\ proc_' = proc_
        /\ kid' = kid /\ blocked' = blocked /\ sleepers' = sleepers
        /\ cur' = cur /\ tasks' = tasks
    BY DEF Wakeup, idVars, stealVars
  <1>2. timers[h] # <<>> /\ timers[h] \in Seq(Task) /\ NoDup(timers[h])
    BY <1>0, Lists DEF Inv, ThreadInv, ThreadOk
  <1>3. /\ q \in Seq(Task) /\ t \in Task /\ Member(timers[h], t) /\ NoDup(q)
        /\ \A u : Member(q, u) <=> Member(timers[h], u) /\ u # t
    BY <1>2, QueueTail
  <1>4. l = "wake" => q # <<>>
    <2>1. Len(timers[h]) \in Nat /\ Len(timers[h]) # 0 /\ Len(q) = Len(timers[h]) - 1
      BY <1>2
    <2>2. Len(timers[h]) # 1 => q # <<>>
      <3> HIDE DEF q
      <3>1. ASSUME q = <<>> PROVE Len(q) = 0
        BY <3>1
      <3> QED BY <2>1, <3>1
    <2> QED BY <2>2 DEF l
  <1> HIDE DEF t, q, l
  <1>5. p \in Proc
    BY <1>3 DEF Inv, ParkedInv
  <1> HIDE DEF p
  <1>6. Held(t, "expired", h)
    BY <1>3 DEF Held
  <1>7. ~Member(queue[p], t)
    BY <1>3, <1>5, <1>6 DEF Inv, Places, Unique, Held
  <1>8. /\ queue' \in [Proc -> Seq(Task)] /\ \A x \in Proc : NoDup(queue'[x])
        /\ \A x \in Proc : \A u : Member(queue'[x], u)
                                     <=> Member(queue[x], u) \/ (x = p /\ u = t)
        /\ state_' \in [Task -> TaskState] /\ AliveAfter({t})
        /\ \A u \in Task : state_'[u] = "done" => state_[u] = "done"
    BY <1>0, <1>3, <1>5, <1>7, AddToEffect
  <1>9. /\ timers' \in [Thread -> Seq(Task)] /\ timers'[h] = q
        /\ \A x \in Thread \ {h} : timers'[x] = timers[x]
    BY <1>0, <1>3, Lists
  <1>10. /\ \A x \in Thread : NoDup(timers'[x])
         /\ \A x \in Thread : \A u : Member(timers'[x], u)
                                        <=> Member(timers[x], u) /\ ~(x = h /\ u = t)
    BY <1>3, <1>9, Lists
  <1>11. IdInv'
    BY <1>0, <1>1, IdKept DEF Inv
  <1>12. TypeOK'
    <2>1. pc' \in [Thread -> ThreadPc]
      BY <1>0, GotoType DEF Inv
    <2>2. blocked' \cup wait_tasks_' \cup sleepers' \subseteq Task
      BY <1>0, <1>1 DEF Inv, TypeOK
    <2> QED BY <1>8, <1>9, <2>1, <2>2 DEF Inv, TypeOK, TaskState, Wakeup, idVars, taskVars, stealVars
  <1>13. ThreadInv'
    <2>1. pc \in [Thread -> ThreadPc] /\ pc' = [pc EXCEPT ![h] = l]
      BY <1>0 DEF Inv, TypeOK, Goto
    <2>2. \A x \in Thread : pc[x] \in {"in", "spawn"} => state_'[cur[x]] # "done"
      BY <1>8, Current DEF Inv, ThreadInv, ThreadOk
    <2>3. OthersKept(h)
      BY <1>1, <1>9, <2>1, <2>2 DEF Inv, ThreadInv, ThreadOk, OthersKept
    <2>4. ThreadOk(h)'
      BY <1>0, <1>1, <1>4, <1>9, <2>1 DEF Inv, ThreadInv, ThreadOk
    <2> QED BY <2>3, <2>4, ThreadKept DEF Inv
  <1>14. ParkedInv'
    BY <1>1, <1>10 DEF Inv, ParkedInv
  <1>15. Places'
    <2>1. Change({t}, "expired", h, "queue", p)
      <3> SUFFICES ASSUME NEW u \in Task, NEW k, NEW i
                   PROVE  Held(u, k, i)' <=> \/ Held(u, k, i) /\ ~(u = t /\ k = "expired" /\ i = h)
                                             \/ u = t /\ k = "queue" /\ i = p
        BY DEF Change
      <3>1. CASE k = "queue"
        BY <3>1, <1>5, <1>8 DEF Held
      <3>2. CASE k = "expired"
        BY <3>2, <1>10 DEF Held
      <3>3. CASE k \notin {"queue", "expired"}
        BY <3>3, <1>1 DEF Held
      <3> QED BY <3>1, <3>2, <3>3
    <2>2. {t} \in SUBSET Task /\ \A u \in {t} : Held(u, "expired", h)
      BY <1>3, <1>6
    <2>3. Unique' /\ Placed'
      BY <1>8, <2>1, <2>2, Transfer DEF Inv, Places
    <2>4. NoDups'
      BY <1>1, <1>8, <1>10, Lists DEF NoDups
    <2> QED BY <2>3, <2>4 DEF Places
  <1> QED BY <1>11, <1>12, <1>13, <1>14, <1>15 DEF Inv

LEMMA UnblockInv == ASSUME Inv, NEW t \in Task, Unblock(t) PROVE Inv'
  <1> DEFINE p == proc_[t]
  <1>0. t \in blocked /\ blocked' = blocked \ {t} /\ AddTo(p, t)
    BY DEF Unblock
  <1>1. /\ thread_id_' = thread_id_ /\ tid' = tid /\ proc_' = proc_
        /\ kid' = kid /\ sleepers' = sleepers /\ wait_tasks_' = wait_tasks_ /\ pc' = pc
        /\ cur' = cur /\ tasks' = tasks /\ timers' = timers
    BY DEF Unblock, idVars, stealVars
  <1>2. p \in Proc
    BY <1>0 DEF Inv, ParkedInv
  <1> HIDE DEF p
  <1>3. Held(t, "blocked", t)
    BY <1>0 DEF Held
  <1>4. ~Member(queue[p], t)
    BY <1>2, <1>3 DEF Inv, Places, Unique, Held
  <1>5. /\ queue' \in [Proc -> Seq(Task)] /\ \A x \in Proc : NoDup(queue'[x])
        /\ \A x \in Proc : \A u : Member(queue'[x], u)
                                     <=> Member(queue[x], u) \/ (x = p /\ u = t)
        /\ state_' \in [Task -> TaskState] /\ AliveAfter({t})
        /\ \A u \in Task : state_'[u] = "done" => state_[u] = "done"
    BY <1>0, <1>2, <1>4, AddToEffect
  <1>6. IdInv'
    BY <1>1 DEF Inv, IdInv
  <1>7. TypeOK'
    <2>1. blocked' \cup wait_tasks_' \cup sleepers' \subseteq Task
      BY <1>0, <1>1 DEF Inv, TypeOK
    <2> QED BY <1>5, <2>1 DEF Inv, TypeOK, TaskState, Unblock, idVars, taskVars, stealVars
  <1>8. ThreadInv'
    <2>1. \A x \in Thread : pc[x] \in {"in", "spawn"} => state_'[cur[x]] # "done"
      BY <1>5, Current DEF Inv, ThreadInv, ThreadOk
    <2> QED BY <1>1, <2>1 DEF Inv, ThreadInv, ThreadOk
  <1>9. ParkedInv'
    BY <1>0, <1>1 DEF Inv, ParkedInv
  <1>10. Places'
    <2>1. Change({t}, "blocked", t, "queue", p)
      BY <1>0, <1>1, <1>2, <1>5 DEF Change, Held
    <2>2. {t} \in SUBSET Task /\ \A u \in {t} : Held(u, "blocked", t)
      BY <1>3
    <2>3. Unique' /\ Placed'
      BY <1>5, <2>1, <2>2, Transfer DEF Inv, Places
    <2>4. NoDups'
      BY <1>1, <1>5, Lists DEF NoDups
    <2> QED BY <2>3, <2>4 DEF Places
  <1> QED BY <1>6, <1>7, <1>8, <1>9, <1>10 DEF Inv
-----------------------------------------------------------------------------
(* Creating and dispatching a task.                                        *)

\* A new task is with its creator.
LEMMA CreateTaskInv ==
    ASSUME Inv, NEW m \in Creator, NEW t \in Task, CreateTask(m, t) PROVE Inv'
  <1>0. /\ state_[t] = "new" /\ kid[m] = NoTask
        /\ state_' = [state_ EXCEPT ![t] = "init"] /\ kid' = [kid EXCEPT ![m] = t]
        /\ IF m = Main THEN pc' = pc ELSE pc[m] = "in" /\ Goto(m, "spawn")
    BY DEF CreateTask
  <1>1. /\ thread_id_' = thread_id_ /\ tid' = tid /\ queue' = queue /\ proc_' = proc_
        /\ blocked' = blocked /\ sleepers' = sleepers
        /\ cur' = cur /\ tasks' = tasks /\ timers' = timers
    BY DEF CreateTask, idVars, waitVars, stealVars
  <1>2. /\ kid \in [Creator -> Task \cup {NoTask}] /\ kid' \in [Creator -> Task \cup {NoTask}]
        /\ kid'[m] = t /\ \A x \in Creator \ {m} : kid'[x] = kid[x]
        /\ t # NoTask
    BY <1>0, ConstAssumption DEF Inv, TypeOK
  <1>3. /\ state_' \in [Task -> TaskState] /\ state_'[t] = "init"
        /\ \A u \in Task \ {t} : state_'[u] = state_[u]
    BY <1>0 DEF Inv, TypeOK, TaskState
  <1>4. m = Main \/ (m \in Thread /\ m # Main)
    BY DEF Creator
  <1>5. "spawn" \in ThreadPc
    BY DEF ThreadPc
  <1>6. IdInv'
    <2>1. CASE m = Main
      BY <1>0, <1>1, <2>1 DEF Inv, IdInv
    <2>2. CASE m \in Thread /\ m # Main
      BY <1>0, <1>1, <2>2, IdKept DEF Inv
    <2> QED BY <1>4, <2>1, <2>2
  <1>7. TypeOK'
    <2>1. pc' \in [Thread -> ThreadPc]
      <3>1. CASE m = Main
        BY <1>0, <3>1 DEF Inv, TypeOK
      <3>2. CASE m \in Thread /\ m # Main
        BY <1>0, <1>5, <3>2, GotoType DEF Inv
      <3> QED BY <1>4, <3>1, <3>2
    <2>2. task_count_' \in Int
      BY DEF Inv, TypeOK, CreateTask
    <2> QED BY <1>2, <1>3, <2>1, <2>2
            DEF Inv, TypeOK, TaskState, CreateTask, idVars, taskVars, waitVars, stealVars
  <1>8. ThreadInv'
    <2>0. \A x \in Thread : pc[x] \in {"in", "spawn"} => state_'[cur[x]] # "done"
      <3> SUFFICES ASSUME NEW x \in Thread, pc[x] \in {"in", "spawn"}
                   PROVE  state_'[cur[x]] # "done"
        OBVIOUS
      <3>1. cur[x] \in Task /\ state_[cur[x]] # "done"
        BY Current DEF Inv, ThreadInv, ThreadOk
      <3> QED BY <1>3, <3>1
    <2>1. CASE m = Main
      <3>1. \A x \in Thread : kid'[x] = kid[x]
        BY <1>2, <2>1, ConstAssumption DEF Creator
      <3>2. pc' = pc
        BY <1>0, <2>1
      <3> SUFFICES ASSUME NEW x \in Thread PROVE ThreadOk(x)'
        BY DEF ThreadInv
      <3>3. ThreadOk(x)
        BY DEF Inv, ThreadInv
      <3> QED BY <1>1, <2>0, <3>1, <3>2, <3>3 DEF ThreadOk
    <2>2. CASE m \in Thread /\ m # Main
      <3>1. pc \in [Thread -> ThreadPc] /\ pc' = [pc EXCEPT ![m] = "spawn"] /\ pc[m] = "in"
        BY <1>0, <2>2 DEF Inv, TypeOK, Goto
      <3>2. \A x \in Thread \ {m} : kid'[x] = kid[x]
        BY <1>2 DEF Creator
      <3>3. OthersKept(m)
        BY <1>1, <2>0, <2>2, <3>1, <3>2 DEF Inv, ThreadInv, ThreadOk, OthersKept
      <3>4. ThreadOk(m)
        BY <2>2 DEF Inv, ThreadInv
      <3>5. ThreadOk(m)'
        BY <1>1, <1>2, <2>0, <2>2, <3>1, <3>4 DEF ThreadOk
      <3> QED BY <2>2, <3>3, <3>5, ThreadKept DEF Inv
    <2> QED BY <1>4, <2>1, <2>2
  <1>9. ParkedInv'
    BY <1>1 DEF Inv, ParkedInv
  <1>10. Places'
    <2>1. Nowhere(t)
      BY <1>0 DEF Inv, Places, Placed
    <2>2. Appears(t, "created", m)
      <3> SUFFICES ASSUME NEW u \in Task, NEW k, NEW i
                   PROVE  Held(u, k, i)' <=> Held(u, k, i) \/ (u = t /\ k = "created" /\ i = m)
        BY DEF Appears
      <3>1. CASE k = "created"
        <4>1. u # NoTask
          BY ConstAssumption
        <4> QED BY <1>0, <1>2, <3>1, <4>1 DEF Held
      <3>2. CASE k # "created"
        BY <1>1, <3>2 DEF Held
      <3> QED BY <3>1, <3>2
    <2>3. AliveAfter({t})
      BY <1>3 DEF AliveAfter
    <2>4. Unique' /\ Placed'
      BY <2>1, <2>2, <2>3, Arrive DEF Inv, Places
    <2>5. NoDups'
      BY <1>1 DEF Inv, Places, NoDups
    <2> QED BY <2>4, <2>5 DEF Places
  <1> QED BY <1>6, <1>7, <1>8, <1>9, <1>10 DEF Inv

\* Every dispatch mode names a Processer that may exist.
LEMMA TargetsProc ==
    ASSUME Inv, NEW m \in Creator, kid[m] # NoTask, NEW d \in Dispatch, NEW p \in Targets(m, d)
    PROVE  p \in Proc
  <1>1. d \in {"robin", "local", "index"} /\ MaxProc \in Nat \ {0} /\ procs \in 0..MaxProc
    BY ConstAssumption DEF Inv, TypeOK
  <1>2. CASE d = "robin"
    <2>1. p \in 0..(IF procs = 0 THEN 0 ELSE procs - 1)
      BY <1>2 DEF Targets
    <2> QED BY <1>1, <2>1 DEF Proc
  <1>3. CASE d = "local"
    <2>1. p = IF m \in Thread THEN tid[m] ELSE 0
      BY <1>3 DEF Targets
    <2>2. m \in Thread => tid[m] \in Proc
      BY DEF Inv, ThreadInv, ThreadOk
    <2> QED BY <1>1, <2>1, <2>2 DEF Proc
  <1>4. CASE d = "index"
    BY <1>4 DEF Targets
  <1> QED BY <1>1, <1>2, <1>3, <1>4

\* The new task goes from its creator to a Processer.
LEMMA DispatchTaskInv == ASSUME Inv, NEW m \in Creator, DispatchTask(m) PROVE Inv'
  <1> DEFINE t == kid[m]
  <1>0. PICK p \in Proc : GetProcesser(p) /\ AddTo(p, t)
    <2>1. PICK d \in Dispatch : \E p \in Targets(m, d) : GetProcesser(p) /\ AddTo(p, t)
      BY DEF DispatchTask
    <2>2. PICK p \in Targets(m, d) : GetProcesser(p) /\ AddTo(p, t)
      BY <2>1
    <2>3. kid[m] # NoTask
      BY DEF DispatchTask
    <2> QED BY <2>2, <2>3, TargetsProc
  <1>1. /\ t # NoTask /\ kid' = [kid EXCEPT ![m] = NoTask]
        /\ IF m = Main THEN pc' = pc ELSE Goto(m, "in")
    BY DEF DispatchTask
  <1>2. /\ thread_id_' = thread_id_ /\ tid' = tid /\ proc_' = proc_
        /\ blocked' = blocked /\ sleepers' = sleepers /\ wait_tasks_' = wait_tasks_
        /\ cur' = cur /\ tasks' = tasks /\ timers' = timers
    BY DEF DispatchTask, waitVars, stealVars
  <1>3. /\ t \in Task /\ kid \in [Creator -> Task \cup {NoTask}]
        /\ kid' \in [Creator -> Task \cup {NoTask}]
        /\ kid'[m] = NoTask /\ \A x \in Creator \ {m} : kid'[x] = kid[x]
    BY <1>1 DEF Inv, TypeOK
  <1>4. Held(t, "created", m)
    BY DEF Held
  <1> HIDE DEF t
  <1>5. ~Member(queue[p], t)
    BY <1>3, <1>4 DEF Inv, Places, Unique, Held
  <1>6. /\ queue' \in [Proc -> Seq(Task)] /\ \A x \in Proc : NoDup(queue'[x])
        /\ \A x \in Proc : \A u : Member(queue'[x], u)
                                     <=> Member(queue[x], u) \/ (x = p /\ u = t)
        /\ state_' \in [Task -> TaskState] /\ AliveAfter({t})
        /\ \A u \in Task : state_'[u] = "done" => state_[u] = "done"
    BY <1>0, <1>3, <1>5, AddToEffect
  <1>7. (m = Main /\ pc' = pc) \/ (m \in Thread /\ m # Main /\ Goto(m, "in") /\ pc[m] = "spawn")
    BY <1>1 DEF Creator, Inv, ThreadInv, ThreadOk, t
  <1>8. "in" \in ThreadPc
    BY DEF ThreadPc
  <1>9. IdInv'
    <2>1. CASE pc' = pc
      BY <1>2, <2>1 DEF Inv, IdInv
    <2>2. CASE m \in Thread /\ Goto(m, "in") /\ pc[m] = "spawn"
      BY <1>2, <2>2, IdKept DEF Inv
    <2> QED BY <1>7, <2>1, <2>2
  <1>10. TypeOK'
    <2>1. pc' \in [Thread -> ThreadPc]
      <3>1. CASE pc' = pc
        BY <3>1 DEF Inv, TypeOK
      <3>2. CASE m \in Thread /\ Goto(m, "in")
        BY <1>8, <3>2, GotoType DEF Inv
      <3> QED BY <1>7, <3>1, <3>2
    <2>2. procs' \in 0..MaxProc
      BY <1>0, ConstAssumption DEF Inv, TypeOK, GetProcesser, Proc
    <2> QED BY <1>2, <1>3, <1>6, <2>1, <2>2 DEF Inv, TypeOK, TaskState, DispatchTask, taskVars, stealVars
  <1>11. ThreadInv'
    <2>0. \A x \in Thread : pc[x] \in {"in", "spawn"} => state_'[cur[x]] # "done"
      BY <1>6, Current DEF Inv, ThreadInv, ThreadOk
    <2>1. CASE m = Main /\ pc' = pc
      <3>1. \A x \in Thread : kid'[x] = kid[x]
        BY <1>3, <2>1, ConstAssumption DEF Creator
      <3> SUFFICES ASSUME NEW x \in Thread PROVE ThreadOk(x)'
        BY DEF ThreadInv
      <3>2. ThreadOk(x)
        BY DEF Inv, ThreadInv
      <3> QED BY <1>2, <2>0, <2>1, <3>1, <3>2 DEF ThreadOk
    <2>2. CASE m \in Thread /\ m # Main /\ Goto(m, "in") /\ pc[m] = "spawn"
      <3>1. pc \in [Thread -> ThreadPc] /\ pc' = [pc EXCEPT ![m] = "in"] /\ pc[m] = "spawn"
        BY <2>2 DEF Inv, TypeOK, Goto
      <3>2. \A x \in Thread \ {m} : kid'[x] = kid[x]
        BY <1>3 DEF Creator
      <3>3. OthersKept(m)
        BY <1>2, <2>0, <2>2, <3>1, <3>2 DEF Inv, ThreadInv, ThreadOk, OthersKept
      <3>4. ThreadOk(m)
        BY <2>2 DEF Inv, ThreadInv
      <3>5. ThreadOk(m)'
        BY <1>2, <1>3, <2>0, <2>2, <3>1, <3>4 DEF ThreadOk
      <3> QED BY <2>2, <3>3, <3>5, ThreadKept DEF Inv
    <2> QED BY <1>7, <2>1, <2>2
  <1>12. ParkedInv'
    BY <1>2 DEF Inv, ParkedInv
  <1>13. Places'
    <2>1. Change({t}, "created", m, "queue", p)
      <3> SUFFICES ASSUME NEW u \in Task, NEW k, NEW i
                   PROVE  Held(u, k, i)' <=> \/ Held(u, k, i) /\ ~(u = t /\ k = "created" /\ i = m)
                                             \/ u = t /\ k = "queue" /\ i = p
        BY DEF Change
      <3>1. CASE k = "queue"
        BY <1>0, <1>6, <3>1 DEF Held
      <3>2. CASE k = "created"
        <4>1. u # NoTask
          BY ConstAssumption
        <4> QED BY <1>3, <3>2, <4>1 DEF Held, t
      <3>3. CASE k \notin {"queue", "created"}
        BY <1>2, <3>3 DEF Held
      <3> QED BY <3>1, <3>2, <3>3
    <2>2. {t} \in SUBSET Task /\ \A u \in {t} : Held(u, "created", m)
      BY <1>3, <1>4
    <2>3. Unique' /\ Placed'
      BY <1>6, <2>1, <2>2, Transfer DEF Inv, Places
    <2>4. NoDups'
      BY <1>2, <1>6, Lists DEF NoDups
    <2> QED BY <2>3, <2>4 DEF Places
  <1> QED BY <1>9, <1>10, <1>11, <1>12, <1>13 DEF Inv
-----------------------------------------------------------------------------
LEMMA InitInv == ASSUME Init PROVE Inv
  <1>0. \A t : ~Member(<<>>, t)
    BY DEF Member
  <1>1. TypeOK
    BY ConstAssumption DEF Init, TypeOK, Proc, Creator, ThreadPc
  <1>2. ThreadInv
    BY DEF Init, ThreadInv, ThreadOk, Creator
  <1>3. IdInv
    <2>1. {h \in Thread : pc[h] # "start"} = {}
      BY DEF Init
    <2> QED BY <2>1, FS_EmptySet DEF Init, IdInv
  <1>4. ParkedInv
    BY <1>0 DEF Init, ParkedInv
  <1>5. \A t \in Task : Nowhere(t)
    BY <1>0, ConstAssumption DEF Init, Nowhere, Held
  <1>6. Unique /\ Placed
    BY <1>5 DEF Unique, Placed, Nowhere, Living, Init
  <1>7. NoDups
    BY DEF Init, NoDups, NoDup
  <1> QED BY <1>1, <1>2, <1>3, <1>4, <1>6, <1>7 DEF Inv, Places

LEMMA NextInv == ASSUME Inv, [Next]_vars PROVE Inv'
  <1>1. ASSUME NEW h \in Thread, Cycle(h) PROVE Inv'
    BY <1>1, EnterInv, ReadSizeInv, PopTaskInv, SwitchOutInv, SettleInv, CatchInv,
       PopLootInv, PushLootInv, CallTimersInv, WakeupInv, AgainInv DEF Cycle
  <1>2. ASSUME NEW h \in Thread, Running(h) PROVE Inv'
    BY <1>2, CoYieldInv, FinishInv DEF Running
  <1>3. ASSUME vars' = vars PROVE Inv'
    <2>1. /\ TypeOK' = TypeOK /\ ThreadInv' = ThreadInv /\ IdInv' = IdInv
          /\ ParkedInv' = ParkedInv /\ NoDups' = NoDups
      BY <1>3 DEF vars, idVars, queueVars, taskVars, waitVars, stealVars, TypeOK,
                  ThreadInv, ThreadOk, IdInv, ParkedInv, NoDups
    <2>2. Stays /\ state_' = state_
      BY <1>3 DEF vars, idVars, queueVars, taskVars, waitVars, stealVars, Stays, Held
    <2>3. Unique' /\ Placed'
      BY <2>2, StayAll DEF Inv, Places
    <2> QED BY <2>1, <2>3 DEF Inv, Places
  <1> QED BY <1>1, <1>2, <1>3, SwapInFailsInv, ChooseVictimInv, GetExpiredInv,
             DispatchTaskInv, CreateTaskInv, UnblockInv DEF Next
-----------------------------------------------------------------------------
(* The count of tasks.                                                     *)

\* One element for each task that a thread has finished and not yet settled.
Slots(f) == UNION {{x} \X (1..f[x]) : x \in Thread}

LEMMA SlotsOfOne ==
    ASSUME NEW h, NEW n \in Nat
    PROVE  IsFiniteSet({h} \X (1..n)) /\ Cardinality({h} \X (1..n)) = n
  <1>1. IsFiniteSet({h}) /\ Cardinality({h}) = 1
    BY FS_Singleton
  <1>2. IsFiniteSet(1..n) /\ Cardinality(1..n) = IF 1 > n THEN 0 ELSE n - 1 + 1
    BY FS_Interval
  <1>3. IsFiniteSet({h} \X (1..n)) /\ Cardinality({h} \X (1..n)) = Cardinality({h}) * Cardinality(1..n)
    BY <1>1, <1>2, FS_Product
  <1>4. Cardinality(1..n) = n
    BY <1>2
  <1> QED BY <1>1, <1>3, <1>4

\* Changing the number of one thread changes the sum by as much.
LEMMA SlotsChange ==
    ASSUME NEW f \in [Thread -> Nat], NEW g \in [Thread -> Nat], NEW h \in Thread,
           \A x \in Thread \ {h} : g[x] = f[x], IsFiniteSet(Slots(f))
    PROVE  /\ IsFiniteSet(Slots(g))
           /\ Cardinality(Slots(f)) \in Nat /\ Cardinality(Slots(g)) \in Nat
           /\ Cardinality(Slots(g)) + f[h] = Cardinality(Slots(f)) + g[h]
  <1> DEFINE R == UNION {{x} \X (1..f[x]) : x \in Thread \ {h}}
             A == {h} \X (1..f[h])
             B == {h} \X (1..g[h])
  <1>1. Slots(f) = R \cup A /\ Slots(g) = R \cup B
    BY DEF Slots
  <1>2. R \cap A = {} /\ R \cap B = {}
    OBVIOUS
  <1>3. IsFiniteSet(A) /\ Cardinality(A) = f[h] /\ IsFiniteSet(B) /\ Cardinality(B) = g[h]
    BY SlotsOfOne
  <1>4. f[h] \in Nat /\ g[h] \in Nat
    OBVIOUS
  <1> HIDE DEF R, A, B
  <1>5. IsFiniteSet(R)
    BY <1>1, FS_Subset
  <1>6. /\ Cardinality(R \cup A) = Cardinality(R) + Cardinality(A) - Cardinality(R \cap A)
        /\ Cardinality(R \cup B) = Cardinality(R) + Cardinality(B) - Cardinality(R \cap B)
        /\ IsFiniteSet(R \cup B)
    BY <1>3, <1>5, FS_Union
  <1>7. Cardinality({}) = 0 /\ Cardinality(R) \in Nat
    BY <1>5, FS_EmptySet, FS_CardinalityType
  <1> DEFINE cr == Cardinality(R)
             cf == Cardinality(Slots(f))
             cg == Cardinality(Slots(g))
  <1>8. cf = cr + f[h] - 0 /\ cg = cr + g[h] - 0 /\ cr \in Nat
    BY <1>1, <1>2, <1>3, <1>6, <1>7
  <1> HIDE DEF cr, cf, cg
  <1>9. cf \in Nat /\ cg \in Nat /\ cg + f[h] = cf + g[h]
    BY <1>4, <1>8
  <1> QED BY <1>1, <1>6, <1>9 DEF cf, cg

Alive == {t \in Created : state_[t] # "done"}
CountInv == IsFiniteSet(Alive) /\ IsFiniteSet(AllUnsettled) /\ CountExact

LEMMA UnsettledType ==
    ASSUME TypeOK
    PROVE  /\ [h \in Thread |-> Unsettled(h)] \in [Thread -> Nat]
           /\ AllUnsettled = Slots([h \in Thread |-> Unsettled(h)])
  <1>1. \A h \in Thread : Unsettled(h) \in Nat
    BY DEF Unsettled, TypeOK
  <1> HIDE DEF Unsettled
  <1>2. AllUnsettled = Slots([h \in Thread |-> Unsettled(h)])
    BY DEF AllUnsettled, Slots
  <1> QED BY <1>1, <1>2

\* What thread h finished or settled.
LEMMA UnsettledChange ==
    ASSUME TypeOK, TypeOK', NEW h \in Thread, IsFiniteSet(AllUnsettled),
           \A x \in Thread \ {h} : Unsettled(x)' = Unsettled(x)
    PROVE  /\ IsFiniteSet(AllUnsettled)'
           /\ Cardinality(AllUnsettled) \in Nat /\ Cardinality(AllUnsettled)' \in Nat
           /\ Cardinality(AllUnsettled)' + Unsettled(h) = Cardinality(AllUnsettled) + Unsettled(h)'
  <1> DEFINE f == [x \in Thread |-> Unsettled(x)]
             g == [x \in Thread |-> Unsettled(x)']
  <1>1. f \in [Thread -> Nat] /\ AllUnsettled = Slots(f)
    BY UnsettledType
  <1>2. g \in [Thread -> Nat] /\ AllUnsettled' = Slots(g)
    <2>0. done_count' \in [Thread -> Nat]
      BY DEF TypeOK
    <2>1. \A x \in Thread : Unsettled(x)' \in Nat
      BY <2>0 DEF Unsettled
    <2> HIDE DEF Unsettled
    <2>2. AllUnsettled' = Slots(g)
      BY DEF AllUnsettled, Slots
    <2> QED BY <2>1, <2>2
  <1>3. \A x \in Thread \ {h} : g[x] = f[x]
    OBVIOUS
  <1>4. f[h] = Unsettled(h) /\ g[h] = Unsettled(h)'
    OBVIOUS
  <1> HIDE DEF f, g
  <1>5. /\ IsFiniteSet(Slots(g))
        /\ Cardinality(Slots(f)) \in Nat /\ Cardinality(Slots(g)) \in Nat
        /\ Cardinality(Slots(g)) + f[h] = Cardinality(Slots(f)) + g[h]
    BY <1>1, <1>2, <1>3, SlotsChange
  <1> QED BY <1>1, <1>2, <1>4, <1>5

\* A step that creates, ends and settles nothing.
Quiet == /\ task_count_' = task_count_ /\ done_count' = done_count
         /\ \A u \in Task : /\ state_'[u] = "new" <=> state_[u] = "new"
                            /\ state_'[u] = "done" <=> state_[u] = "done"
         /\ \A x \in Thread :
               \/ cur'[x] = cur[x]
               \/ cur'[x] = NoTask /\ state_[cur[x]] # "done"
               \/ cur[x] = NoTask /\ cur'[x] \in Task /\ state_[cur'[x]] # "done"

LEMMA QuietCount == ASSUME TypeOK, CountInv, Quiet PROVE CountInv'
  <1>1. Alive' = Alive
    BY DEF Quiet, Alive, Created
  <1>2. \A x \in Thread : Unsettled(x)' = Unsettled(x)
    <2> SUFFICES ASSUME NEW x \in Thread PROVE Unsettled(x)' = Unsettled(x)
      OBVIOUS
    <2>1. cur[x] \in Task \cup {NoTask}
      BY DEF TypeOK
    <2>2. (cur'[x] # NoTask /\ state_'[cur'[x]] = "done")
             <=> (cur[x] # NoTask /\ state_[cur[x]] = "done")
      BY <2>1 DEF Quiet
    <2> QED BY <2>2 DEF Unsettled, Quiet
  <1>3. AllUnsettled' = AllUnsettled
    <2> HIDE DEF Unsettled
    <2> QED BY <1>2 DEF AllUnsettled
  <1>4. task_count_' = task_count_
    BY DEF Quiet
  <1> QED BY <1>1, <1>3, <1>4 DEF CountInv, CountExact, Alive

\* States and running tasks stay.
LEMMA StillQuiet ==
    ASSUME task_count_' = task_count_, done_count' = done_count, state_' = state_, cur' = cur
    PROVE  Quiet
  BY DEF Quiet

\* A task that is somewhere other than on a thread is queued.
LEMMA AddToQuiet ==
    ASSUME Inv, NEW p, NEW t \in Task, NEW k, NEW i, Held(t, k, i), k # "running",
           AddTo(p, t), task_count_' = task_count_, done_count' = done_count, cur' = cur
    PROVE  Quiet
  <1>1. state_[t] \notin {"new", "done"}
    BY DEF Inv, Places, Placed, Nowhere
  <1>2. state_'[t] = "runnable" /\ \A u \in Task \ {t} : state_'[u] = state_[u]
    BY DEF AddTo, Inv, TypeOK
  <1> QED BY <1>1, <1>2 DEF Quiet

LEMMA PopTaskQuiet == ASSUME Inv, NEW h \in Thread, PopTask(h) PROVE Quiet
  <1>0. task_count_' = task_count_ /\ done_count' = done_count /\ state_' = state_
    BY DEF PopTask
  <1>1. CASE queue[tid[h]] = <<>>
    BY <1>0, <1>1, StillQuiet DEF PopTask
  <1>2. CASE queue[tid[h]] # <<>>
    <2> DEFINE t == Head(queue[tid[h]])
    <2>1. pc[h] = "pop" /\ tid[h] \in Proc /\ cur[h] = NoTask /\ PopsFrom(tid[h])
      BY <1>2 DEF PopTask, PopsFrom, Inv, ThreadInv, ThreadOk
    <2>2. t \in Task /\ Member(queue[tid[h]], t)
      BY <2>1, PopEffect
    <2>3. cur' = [cur EXCEPT ![h] = t] /\ cur \in [Thread -> Task \cup {NoTask}]
      BY <1>2 DEF PopTask, Inv, TypeOK
    <2> HIDE DEF t
    <2>4. cur'[h] = t /\ \A x \in Thread \ {h} : cur'[x] = cur[x]
      BY <2>3
    <2>5. Held(t, "queue", tid[h])
      BY <2>1, <2>2 DEF Held
    <2>6. state_[t] # "done"
      BY <2>2, <2>5 DEF Inv, Places, Placed
    <2> QED BY <1>0, <2>1, <2>2, <2>4, <2>6 DEF Quiet
  <1> QED BY <1>1, <1>2

LEMMA SwapInFailsQuiet == ASSUME Inv, NEW h \in Thread, SwapInFails(h) PROVE Quiet
  <1>1. /\ pc[h] = "in" /\ task_count_' = task_count_ /\ done_count' = done_count
        /\ state_' = [state_ EXCEPT ![cur[h]] = "lost"] /\ cur' = [cur EXCEPT ![h] = NoTask]
    BY DEF SwapInFails
  <1>2. cur[h] \in Task /\ state_[cur[h]] \notin {"new", "done"}
    BY <1>1, Current DEF Inv, ThreadInv, ThreadOk
  <1>3. /\ state_'[cur[h]] = "lost" /\ \A u \in Task \ {cur[h]} : state_'[u] = state_[u]
        /\ cur'[h] = NoTask /\ \A x \in Thread \ {h} : cur'[x] = cur[x]
    BY <1>1, <1>2 DEF Inv, TypeOK
  <1> QED BY <1>1, <1>2, <1>3 DEF Quiet

LEMMA CoYieldQuiet ==
    ASSUME Inv, NEW h \in Thread, NEW s \in {"runnable", "sleep", "sys_block"}, CoYield(h, s)
    PROVE  Quiet
  <1>1. /\ pc[h] = "in" /\ task_count_' = task_count_ /\ done_count' = done_count
        /\ state_' = [state_ EXCEPT ![cur[h]] = s] /\ cur' = cur
    BY DEF CoYield
  <1>2. cur[h] \in Task /\ state_[cur[h]] \notin {"new", "done"}
    BY <1>1, Current DEF Inv, ThreadInv, ThreadOk
  <1>3. state_'[cur[h]] = s /\ \A u \in Task \ {cur[h]} : state_'[u] = state_[u]
    BY <1>1, <1>2 DEF Inv, TypeOK
  <1> QED BY <1>1, <1>2, <1>3 DEF Quiet

LEMMA CreateTaskCount ==
    ASSUME Inv, CountInv, NEW m \in Creator, NEW t \in Task, CreateTask(m, t)
    PROVE  CountInv'
  <1>1. /\ state_[t] = "new" /\ state_' = [state_ EXCEPT ![t] = "init"]
        /\ task_count_' = task_count_ + 1 /\ cur' = cur /\ done_count' = done_count
    BY DEF CreateTask
  <1>2. state_'[t] = "init" /\ \A u \in Task \ {t} : state_'[u] = state_[u]
    BY <1>1 DEF Inv, TypeOK
  <1>3. Alive' = Alive \cup {t} /\ t \notin Alive
    BY <1>1, <1>2 DEF Alive, Created
  <1>4. \A x \in Thread : Unsettled(x)' = Unsettled(x)
    <2> SUFFICES ASSUME NEW x \in Thread PROVE Unsettled(x)' = Unsettled(x)
      OBVIOUS
    <2>1. cur[x] \in Task \cup {NoTask}
      BY DEF Inv, TypeOK
    <2> QED BY <1>1, <1>2, <2>1 DEF Unsettled
  <1>5. AllUnsettled' = AllUnsettled
    <2> HIDE DEF Unsettled
    <2> QED BY <1>4 DEF AllUnsettled
  <1>6. IsFiniteSet(Alive \cup {t}) /\ Cardinality(Alive \cup {t}) = Cardinality(Alive) + 1
    BY <1>3, FS_AddElement DEF CountInv
  <1>7. Cardinality(Alive) \in Nat
    BY FS_CardinalityType DEF CountInv
  <1> DEFINE a == Cardinality(Alive)
             u == Cardinality(AllUnsettled)
  <1>8. task_count_ = a + u
    BY DEF CountInv, CountExact, Alive
  <1>9. u \in Int
    BY FS_CardinalityType DEF CountInv
  <1> HIDE DEF a, u
  <1>10. task_count_' = (a + 1) + u
    BY <1>1, <1>7, <1>8, <1>9 DEF a
  <1> QED BY <1>3, <1>5, <1>6, <1>10 DEF CountInv, CountExact, Alive, a, u

LEMMA FinishCount ==
    ASSUME Inv, Inv', CountInv, NEW h \in Thread, NEW threw \in BOOLEAN, Finish(h, threw)
    PROVE  CountInv'
  <1> DEFINE t == cur[h]
  <1>1. /\ pc[h] = "in" /\ state_' = [state_ EXCEPT ![t] = "done"]
        /\ task_count_' = task_count_ /\ cur' = cur /\ done_count' = done_count
    BY DEF Finish
  <1>2. t \in Task /\ state_[t] \notin {"new", "done"} /\ \A x \in Thread \ {h} : cur[x] # t
    BY <1>1, Current DEF Inv, ThreadInv, ThreadOk
  <1>3. state_'[t] = "done" /\ \A u \in Task \ {t} : state_'[u] = state_[u]
    BY <1>1, <1>2 DEF Inv, TypeOK
  <1>4. Alive' = Alive \ {t} /\ t \in Alive
    BY <1>2, <1>3 DEF Alive, Created
  <1>5. \A x \in Thread \ {h} : Unsettled(x)' = Unsettled(x)
    <2> SUFFICES ASSUME NEW x \in Thread \ {h} PROVE Unsettled(x)' = Unsettled(x)
      OBVIOUS
    <2>1. cur[x] \in Task \cup {NoTask}
      BY DEF Inv, TypeOK
    <2> QED BY <1>1, <1>2, <1>3, <2>1 DEF Unsettled
  <1>6. Unsettled(h) = done_count[h] /\ Unsettled(h)' = done_count[h] + 1 /\ done_count[h] \in Nat
    <2>1. t # NoTask /\ done_count[h] \in Nat
      BY <1>2, ConstAssumption DEF Inv, TypeOK
    <2> QED BY <1>1, <1>2, <1>3, <2>1 DEF Unsettled
  <1> HIDE DEF t
  <1>7. /\ IsFiniteSet(AllUnsettled)'
        /\ Cardinality(AllUnsettled) \in Nat /\ Cardinality(AllUnsettled)' \in Nat
        /\ Cardinality(AllUnsettled)' + Unsettled(h) = Cardinality(AllUnsettled) + Unsettled(h)'
    BY <1>5, UnsettledChange DEF Inv, CountInv
  <1>8. IsFiniteSet(Alive \ {t}) /\ Cardinality(Alive \ {t}) = Cardinality(Alive) - 1
    BY <1>4, FS_RemoveElement DEF CountInv
  <1>9. Cardinality(Alive) \in Nat
    BY FS_CardinalityType DEF CountInv
  <1> DEFINE a == Cardinality(Alive)
             u == Cardinality(AllUnsettled)
             v == Cardinality(AllUnsettled)'
             d == done_count[h]
  <1>10. task_count_ = a + u
    BY DEF CountInv, CountExact, Alive
  <1>11. v + d = u + (d + 1) /\ v \in Nat /\ u \in Nat /\ d \in Nat /\ a \in Nat
    BY <1>6, <1>7, <1>9
  <1> HIDE DEF a, u, v, d
  <1>12. task_count_' = (a - 1) + v
    BY <1>1, <1>10, <1>11
  <1> QED BY <1>4, <1>7, <1>8, <1>12 DEF CountInv, CountExact, Alive, a, v

\* DoRunnable subtracts what Processer::Run finished.
Settles(h) == /\ task_count_' = task_count_ - done_count[h]
              /\ done_count' = [done_count EXCEPT ![h] = 0]
              /\ cur' = cur /\ state_' = state_

LEMMA SettleCount ==
    ASSUME Inv, Inv', CountInv, NEW h \in Thread, pc[h] \in {"settle", "catch"}, Settles(h)
    PROVE  CountInv'
  <1>1. cur[h] = NoTask /\ done_count \in [Thread -> Nat]
    BY DEF Inv, TypeOK, ThreadInv, ThreadOk
  <1>2. Alive' = Alive
    BY DEF Alive, Created, Settles
  <1>3. done_count'[h] = 0 /\ \A x \in Thread \ {h} : done_count'[x] = done_count[x]
    BY <1>1 DEF Settles
  <1>4. \A x \in Thread \ {h} : Unsettled(x)' = Unsettled(x)
    BY <1>3 DEF Unsettled, Settles
  <1>5. Unsettled(h) = done_count[h] /\ Unsettled(h)' = 0 /\ done_count[h] \in Nat
    BY <1>1, <1>3 DEF Unsettled, Settles
  <1>6. /\ IsFiniteSet(AllUnsettled)'
        /\ Cardinality(AllUnsettled) \in Nat /\ Cardinality(AllUnsettled)' \in Nat
        /\ Cardinality(AllUnsettled)' + Unsettled(h) = Cardinality(AllUnsettled) + Unsettled(h)'
    BY <1>4, UnsettledChange DEF Inv, CountInv
  <1>7. Cardinality(Alive) \in Nat
    BY FS_CardinalityType DEF CountInv
  <1> DEFINE a == Cardinality(Alive)
             u == Cardinality(AllUnsettled)
             v == Cardinality(AllUnsettled)'
             d == done_count[h]
  <1>8. task_count_ = a + u /\ task_count_' = task_count_ - d
    BY DEF CountInv, CountExact, Alive, Settles
  <1>9. v + d = u + 0 /\ v \in Nat /\ u \in Nat /\ d \in Nat /\ a \in Nat
    BY <1>5, <1>6, <1>7
  <1> HIDE DEF a, u, v, d
  <1>10. task_count_' = a + v
    BY <1>8, <1>9
  <1> QED BY <1>2, <1>6, <1>10 DEF CountInv, CountExact, Alive, a, v

LEMMA SwitchOutCount ==
    ASSUME Inv, Inv', CountInv, NEW h \in Thread, SwitchOut(h) PROVE CountInv'
  <1>1. /\ pc[h] = "out" /\ task_count_' = task_count_ /\ cur' = [cur EXCEPT ![h] = NoTask]
    BY DEF SwitchOut
  <1>2. cur[h] \in Task /\ cur[h] # NoTask
    BY <1>1, Current, ConstAssumption
  <1>3. cur'[h] = NoTask /\ \A x \in Thread \ {h} : cur'[x] = cur[x]
    BY <1>1 DEF Inv, TypeOK
  <1>4. CASE state_[cur[h]] # "done"
    <2>1. done_count' = done_count
      BY <1>4 DEF SwitchOut, LeaveRunnable, LeaveSleep, LeaveBlock, LeaveDone
    <2>2. CASE state_' = state_
      BY <1>1, <1>3, <1>4, <2>1, <2>2, QuietCount DEF Quiet, Inv
    <2>3. CASE AddTo(tid[h], cur[h])
      <3>1. state_'[cur[h]] = "runnable" /\ \A u \in Task \ {cur[h]} : state_'[u] = state_[u]
        BY <1>2, <2>3 DEF AddTo, Inv, TypeOK
      <3>2. state_[cur[h]] # "new"
        BY <1>1, Current
      <3>3. Quiet
        BY <1>1, <1>3, <1>4, <2>1, <3>1, <3>2 DEF Quiet
      <3> QED BY <3>3, QuietCount DEF Inv
    <2> QED BY <2>2, <2>3 DEF SwitchOut, LeaveRunnable, LeaveSleep, LeaveBlock, LeaveDone
  <1>5. CASE state_[cur[h]] = "done"
    <2>1. state_' = state_ /\ done_count' = [done_count EXCEPT ![h] = @ + 1]
      BY <1>5 DEF SwitchOut, LeaveRunnable, LeaveSleep, LeaveBlock, LeaveDone
    <2>2. done_count \in [Thread -> Nat] /\ done_count'[h] = done_count[h] + 1
          /\ \A x \in Thread \ {h} : done_count'[x] = done_count[x]
      BY <2>1 DEF Inv, TypeOK
    <2>3. \A x \in Thread \ {h} : Unsettled(x)' = Unsettled(x)
      BY <1>3, <2>1, <2>2 DEF Unsettled
    <2>4. Unsettled(h)' = Unsettled(h)
      BY <1>2, <1>3, <1>5, <2>2 DEF Unsettled
    <2>5. AllUnsettled' = AllUnsettled
      <3>1. \A x \in Thread : Unsettled(x)' = Unsettled(x)
        BY <2>3, <2>4
      <3> HIDE DEF Unsettled
      <3> QED BY <3>1 DEF AllUnsettled
    <2>6. Alive' = Alive
      BY <2>1 DEF Alive, Created
    <2> QED BY <1>1, <2>5, <2>6 DEF CountInv, CountExact, Alive
  <1> QED BY <1>4, <1>5

LEMMA CycleCount == ASSUME Inv, Inv', CountInv, NEW h \in Thread, Cycle(h) PROVE CountInv'
  <1>1. CASE \/ Enter(h) \/ ReadSize(h) \/ PopLoot(h) \/ PushLoot(h)
             \/ CallTimers(h) \/ Again(h)
    <2>1. task_count_' = task_count_ /\ done_count' = done_count /\ state_' = state_ /\ cur' = cur
      BY <1>1 DEF Enter, ReadSize, PopLoot, PushLoot, CallTimers, Again, queueVars
    <2> QED BY <2>1, StillQuiet, QuietCount DEF Inv
  <1>2. CASE PopTask(h)
    BY <1>2, PopTaskQuiet, QuietCount DEF Inv
  <1>3. CASE SwitchOut(h)
    BY <1>3, SwitchOutCount
  <1>4. CASE Settle(h)
    <2>1. pc[h] = "settle" /\ Settles(h)
      BY <1>4 DEF Settle, Settles, queueVars
    <2> QED BY <2>1, SettleCount
  <1>5. CASE Catch(h)
    <2>1. pc[h] = "catch" /\ Settles(h)
      BY <1>5 DEF Catch, Settles, queueVars
    <2> QED BY <2>1, SettleCount
  <1>6. CASE Wakeup(h)
    <2> DEFINE t == Head(timers[h])
               p == proc_[t]
    <2>1. /\ pc[h] = "wake" /\ AddTo(p, t) /\ task_count_' = task_count_
          /\ done_count' = done_count /\ cur' = cur
      BY <1>6 DEF Wakeup
    <2>2. timers[h] # <<>> /\ timers[h] \in Seq(Task) /\ NoDup(timers[h])
      BY <2>1, Lists DEF Inv, ThreadInv, ThreadOk
    <2>3. t \in Task /\ Member(timers[h], t)
      BY <2>2, QueueTail
    <2> HIDE DEF t, p
    <2>4. Held(t, "expired", h)
      BY <2>3 DEF Held
    <2>5. Quiet
      BY <2>1, <2>3, <2>4, AddToQuiet
    <2> QED BY <2>5, QuietCount DEF Inv
  <1> QED BY <1>1, <1>2, <1>3, <1>4, <1>5, <1>6 DEF Cycle

LEMMA OtherCount ==
    ASSUME Inv, CountInv
    PROVE  /\ \A h \in Thread : \A p \in Proc : ChooseVictim(h, p) => CountInv'
           /\ \A h \in Thread : \A t \in Task : GetExpired(h, t) => CountInv'
           /\ \A m \in Creator : DispatchTask(m) => CountInv'
           /\ \A t \in Task : Unblock(t) => CountInv'
           /\ vars' = vars => CountInv'
  <1>1. ASSUME task_count_' = task_count_, done_count' = done_count, state_' = state_, cur' = cur
        PROVE  CountInv'
    BY <1>1, StillQuiet, QuietCount DEF Inv
  <1>2. \A h \in Thread : \A p \in Proc : ChooseVictim(h, p) => CountInv'
    BY <1>1 DEF ChooseVictim, queueVars
  <1>3. \A h \in Thread : \A t \in Task : GetExpired(h, t) => CountInv'
    BY <1>1 DEF GetExpired, queueVars
  <1>4. ASSUME NEW m \in Creator, DispatchTask(m) PROVE CountInv'
    <2> DEFINE t == kid[m]
    <2>1. PICK p : AddTo(p, t)
      BY <1>4 DEF DispatchTask
    <2>2. /\ t # NoTask /\ task_count_' = task_count_ /\ done_count' = done_count /\ cur' = cur
      BY <1>4 DEF DispatchTask
    <2>3. t \in Task /\ Held(t, "created", m)
      BY <2>2 DEF Inv, TypeOK, Held
    <2> HIDE DEF t
    <2>4. Quiet
      BY <2>1, <2>2, <2>3, AddToQuiet
    <2> QED BY <2>4, QuietCount DEF Inv
  <1>5. ASSUME NEW t \in Task, Unblock(t) PROVE CountInv'
    <2> DEFINE p == proc_[t]
    <2>1. /\ AddTo(p, t) /\ task_count_' = task_count_ /\ done_count' = done_count /\ cur' = cur
      BY <1>5 DEF Unblock
    <2>2. Held(t, "blocked", t)
      BY <1>5 DEF Unblock, Held
    <2> HIDE DEF p
    <2>3. Quiet
      BY <2>1, <2>2, AddToQuiet
    <2> QED BY <2>3, QuietCount DEF Inv
  <1>6. vars' = vars => CountInv'
    BY <1>1 DEF vars, queueVars
  <1> QED BY <1>2, <1>3, <1>4, <1>5, <1>6

LEMMA InitCount == ASSUME Init PROVE CountInv
  <1>1. Alive = {}
    BY DEF Init, Alive, Created
  <1>2. \A h \in Thread : Unsettled(h) = 0
    BY DEF Init, Unsettled
  <1>3. AllUnsettled = {}
    <2> HIDE DEF Unsettled
    <2>1. 1..0 = {}
      OBVIOUS
    <2> QED BY <1>2, <2>1 DEF AllUnsettled
  <1>4. task_count_ = 0 + 0
    BY DEF Init
  <1> QED BY <1>1, <1>3, <1>4, FS_EmptySet DEF CountInv, CountExact, Alive

LEMMA NextCount == ASSUME Inv, Inv', CountInv, [Next]_vars PROVE CountInv'
  <1>1. ASSUME NEW h \in Thread, Running(h) PROVE CountInv'
    <2>1. ASSUME NEW s \in {"runnable", "sleep", "sys_block"}, CoYield(h, s) PROVE CountInv'
      BY <2>1, CoYieldQuiet, QuietCount DEF Inv
    <2> QED BY <1>1, <2>1, FinishCount DEF Running
  <1>2. ASSUME NEW h \in Thread, SwapInFails(h) PROVE CountInv'
    BY <1>2, SwapInFailsQuiet, QuietCount DEF Inv
  <1> QED BY <1>1, <1>2, CycleCount, OtherCount, CreateTaskCount DEF Next
-----------------------------------------------------------------------------
\* The invariant of the scheduler: in every state, each task is in one place,
\* each thread holds what its position in the cycle says, thread ids are given
\* out once, and the counter is exact.
THEOREM SchedulerInductive == Spec => []IInv
  <1>1. Init => Inv /\ CountInv
    BY InitInv, InitCount
  <1>2. Inv /\ CountInv /\ [Next]_vars => (Inv /\ CountInv)'
    BY NextInv, NextCount
  <1>3. Inv /\ CountInv => IInv
    BY PlacesMean DEF Inv, CountInv, IInv
  <1> QED BY <1>1, <1>2, <1>3, PTL DEF Spec

\* A task that is alive is in exactly one run queue, list or hand, whatever
\* Processer::Run, StealHalf, AddTaskRunnable and the wakeups of any number of
\* threads do in between each other's steps.
THEOREM SchedulerOnePlace == Spec => []OnePlace
  <1>1. IInv => OnePlace
    BY DEF IInv
  <1> QED BY <1>1, SchedulerInductive, PTL

\* task_count_ is exact but for what each thread finished in its current cycle,
\* also when an exception ended the cycle.
THEOREM SchedulerCountExact == Spec => []CountExact
  <1>1. IInv => CountExact
    BY DEF IInv
  <1> QED BY <1>1, SchedulerInductive, PTL

\* Only Again makes a thread return, and only when nothing is counted.
LEMMA ReturnCounted ==
    ASSUME Inv, [Next]_vars, NEW h \in Thread, pc[h] # "returned", pc'[h] = "returned"
    PROVE  ~(task_count_ > 0)
  <1>0. pc \in [Thread -> ThreadPc]
    BY DEF Inv, TypeOK
  <1>1. ASSUME NEW x \in Thread, NEW l, Goto(x, l) PROVE x = h /\ l = "returned"
    BY <1>0, <1>1 DEF Goto
  <1>2. ASSUME NEW x \in Thread, Cycle(x) PROVE ~(task_count_ > 0)
    <2>1. CASE Again(x)
      BY <1>1, <2>1 DEF Again
    <2>2. CASE Enter(x) \/ Catch(x) \/ PushLoot(x) \/ CallTimers(x)
      <3>1. Goto(x, "size") \/ Goto(x, "wake")
        BY <2>2 DEF Enter, Catch, PushLoot, CallTimers
      <3> QED BY <1>1, <3>1
    <2>3. CASE PopTask(x) \/ SwitchOut(x)
      BY <1>1, <2>3 DEF PopTask, SwitchOut, LeaveRunnable, LeaveSleep, LeaveBlock, LeaveDone
    <2>4. CASE ReadSize(x) \/ Settle(x)
      BY <1>1, <2>4 DEF ReadSize, Settle
    <2>5. CASE PopLoot(x) \/ Wakeup(x)
      BY <1>1, <2>5 DEF PopLoot, Wakeup
    <2> QED BY <1>2, <2>1, <2>2, <2>3, <2>4, <2>5 DEF Cycle
  <1>3. ASSUME NEW x \in Thread, Running(x) \/ SwapInFails(x) PROVE FALSE
    BY <1>1, <1>3 DEF Running, CoYield, Finish, SwapInFails
  <1>4. ASSUME NEW x \in Thread, NEW p \in Proc, ChooseVictim(x, p) PROVE FALSE
    BY <1>1, <1>4 DEF ChooseVictim
  <1>5. ASSUME NEW x \in Thread, NEW t \in Task, GetExpired(x, t) PROVE FALSE
    BY <1>5 DEF GetExpired
  <1>6. ASSUME NEW m \in Creator, DispatchTask(m) PROVE FALSE
    <2>1. pc' = pc \/ (m \in Thread /\ Goto(m, "in"))
      BY <1>6 DEF DispatchTask, Creator
    <2> QED BY <1>1, <2>1
  <1>7. ASSUME NEW m \in Creator, NEW t \in Task, CreateTask(m, t) PROVE FALSE
    <2>1. pc' = pc \/ (m \in Thread /\ Goto(m, "spawn"))
      BY <1>7 DEF CreateTask, Creator
    <2> QED BY <1>1, <2>1
  <1>8. ASSUME NEW t \in Task, Unblock(t) PROVE FALSE
    BY <1>8 DEF Unblock
  <1>9. vars' # vars
    BY DEF vars
  <1> QED BY <1>2, <1>3, <1>4, <1>5, <1>6, <1>7, <1>8, <1>9 DEF Next

LEMMA NothingCounted == ASSUME CountInv, ~(task_count_ > 0) PROVE Living = {}
  <1>1. Cardinality(Alive) \in Nat /\ Cardinality(AllUnsettled) \in Nat
    BY FS_CardinalityType DEF CountInv
  <1>2. task_count_ = Cardinality(Alive) + Cardinality(AllUnsettled)
    BY DEF CountInv, CountExact, Alive
  <1>3. Cardinality(Alive) = 0
    BY <1>1, <1>2
  <1>4. Alive = {}
    BY <1>3, FS_EmptySet DEF CountInv
  <1> QED BY <1>4 DEF Alive, Created, Living

\* RunUntilNoTask returns only when no task is left anywhere, the ones on their
\* way between two places included: each was counted before it could be run and
\* is subtracted only after it ended.
THEOREM SchedulerReturnMeansNoTask == Spec => ReturnMeansNoTask
  <1> DEFINE Empty == \A h \in Thread : pc[h] # "returned" /\ pc'[h] = "returned" => Living = {}
  <1>1. Init => Inv /\ CountInv
    BY InitInv, InitCount
  <1>2. Inv /\ CountInv /\ [Next]_vars => (Inv /\ CountInv)'
    BY NextInv, NextCount
  <1>3. Inv /\ CountInv /\ [Next]_vars => [Empty]_vars
    BY ReturnCounted, NothingCounted
  <1> QED BY <1>1, <1>2, <1>3, PTL DEF Spec, ReturnMeansNoTask
-----------------------------------------------------------------------------
(***************************************************************************)
(* The timers a scheduler thread serves when it is idle: CoTimerMgr, for   *)
(* any timers, threads, delays and options (M!ConstOk).                    *)
(***************************************************************************)
Entry == [at : Nat, timer : Timer]
Sorted(q) == \A i, j \in 1..Len(q) : i < j => q[i].at <= q[j].at

MgrType == /\ now \in Nat /\ busy \in Nat
           /\ deadlines \in [M!Clock -> Seq(Entry)]
           /\ tpc \in [Idler -> {"expire", "call", "in", "asleep"}]
           /\ count \in [Idler -> Nat]
           /\ until \in [Idler -> Nat]
           /\ next_trigger \in [M!Clock -> Nat]

\* The latest a deadline may be noticed.
Late(e) == e.at + (1 + busy) * MaxSleep
\* No sleeper waits longer than max_sleep_ms, nor beyond a deadline's slack.
Wakes == \A h \in Idler : tpc[h] = "asleep" =>
            /\ until[h] <= now + MaxSleep
            /\ \A k \in M!Clock : \A i \in 1..Len(deadlines[k]) : until[h] <= Late(deadlines[k][i])
InTime == \A k \in M!Clock : \A i \in 1..Len(deadlines[k]) : now <= Late(deadlines[k][i])
Ordered == \A k \in M!Clock : Sorted(deadlines[k])
TimerInv == MgrType /\ Ordered /\ InTime /\ Wakes

\* A set of naturals has a least member.
LEMMA LeastNat ==
    ASSUME NEW T, T \subseteq Nat, T # {}
    PROVE  \E x \in T : \A y \in T : x <= y
  <1>1. PICK x \in T : \A y \in T : ~(<<y, x>> \in OpToRel(<, Nat))
    BY WFMin, NatLessThanWellFounded, Zenon
  <1>2. ASSUME NEW y \in T PROVE x <= y
    <2>1. ~(y < x)
      BY <1>1 DEF OpToRel
    <2> QED BY <2>1
  <1> QED BY <1>2

LEMMA Entries ==
    ASSUME NEW q \in Seq(Entry)
    PROVE  /\ Len(q) \in Nat
           /\ \A i \in 1..Len(q) : q[i] \in Entry /\ q[i].at \in Nat
  <1>1. Len(q) \in Nat /\ \A i \in 1..Len(q) : q[i] \in Entry
    OBVIOUS
  <1>2. \A e \in Entry : e.at \in Nat
    BY DEF Entry
  <1> QED BY <1>1, <1>2

\* In an ordered map the upper bound splits the entries by their time.
LEMMA UpperBoundOk ==
    ASSUME NEW q \in Seq(Entry), Sorted(q), NEW t \in Nat
    PROVE  /\ M!UpperBound(q, t) \in 0..Len(q)
           /\ \A i \in 1..M!UpperBound(q, t) : q[i].at <= t
           /\ \A i \in (M!UpperBound(q, t) + 1)..Len(q) : q[i].at > t
  <1> DEFINE T == {p \in 0..Len(q) : \A i \in (p + 1)..Len(q) : q[i].at > t}
  <1>0. Len(q) \in Nat /\ \A i \in 1..Len(q) : q[i].at \in Nat
    BY Entries
  <1>1. Len(q) \in T
    BY <1>0
  <1>2. PICK p \in T : \A y \in T : p <= y
    <2> HIDE DEF T
    <2>1. T \subseteq Nat
      BY <1>0 DEF T
    <2> QED BY <1>1, <2>1, LeastNat
  <1>3. ASSUME NEW i \in 1..p PROVE q[i].at <= t
    <2> SUFFICES ASSUME q[i].at > t PROVE FALSE
      BY <1>0
    <2>1. \A j \in i..Len(q) : q[j].at > t
      BY <1>0 DEF Sorted
    <2>2. i - 1 \in T
      BY <1>0, <2>1
    <2>3. p <= i - 1
      BY <1>2, <2>2
    <2> QED BY <1>0, <1>2, <2>3
  <1>4. \E z \in 0..Len(q) : /\ \A i \in 1..z : q[i].at <= t
                             /\ \A i \in (z + 1)..Len(q) : q[i].at > t
    BY <1>2, <1>3
  <1> QED BY <1>4 DEF M!UpperBound

\* What is left of an ordered map when its first n entries are taken.
LEMMA Cut ==
    ASSUME NEW q \in Seq(Entry), Sorted(q), NEW n \in 0..Len(q)
    PROVE  LET z == SubSeq(q, n + 1, Len(q))
           IN  /\ z \in Seq(Entry) /\ Sorted(z)
               /\ Len(z) = Len(q) - n
               /\ \A i \in 1..Len(z) : z[i] = q[n + i]
  <1> DEFINE z == SubSeq(q, n + 1, Len(q))
  <1>1. z \in Seq(Entry) /\ Len(z) = Len(q) - n /\ \A i \in 1..Len(z) : z[i] = q[n + i]
    OBVIOUS
  <1>2. Sorted(z)
    BY <1>1 DEF Sorted
  <1> QED BY <1>1, <1>2

\* multimap::insert keeps the order and adds only the new entry.
LEMMA InsertOk ==
    ASSUME NEW q \in Seq(Entry), Sorted(q), NEW e \in Entry
    PROVE  LET z == M!Insert(q, e)
           IN  /\ z \in Seq(Entry) /\ Sorted(z)
               /\ \A i \in 1..Len(z) : z[i] = e \/ \E j \in 1..Len(q) : z[i] = q[j]
  <1>1. PICK p \in 0..Len(q) : p = M!UpperBound(q, e.at)
    BY UpperBoundOk DEF Entry
  <1>2. /\ \A i \in 1..p : q[i].at <= e.at
        /\ \A i \in (p + 1)..Len(q) : q[i].at > e.at
    BY <1>1, UpperBoundOk DEF Entry
  <1> DEFINE a == SubSeq(q, 1, p)
             b == SubSeq(q, p + 1, Len(q))
             z == a \o <<e>> \o b
  <1>3. /\ a \in Seq(Entry) /\ Len(a) = p /\ \A i \in 1..p : a[i] = q[i]
        /\ b \in Seq(Entry) /\ Len(b) = Len(q) - p /\ \A i \in 1..Len(b) : b[i] = q[p + i]
    OBVIOUS
  <1> HIDE DEF a, b
  <1>4. /\ z \in Seq(Entry) /\ Len(z) = Len(q) + 1
        /\ \A i \in 1..Len(z) : z[i] = IF i <= p THEN q[i] ELSE IF i = p + 1 THEN e ELSE q[i - 1]
    <2> DEFINE w == a \o <<e>>
    <2>1. /\ w \in Seq(Entry) /\ Len(w) = p + 1
          /\ \A i \in 1..(p + 1) : w[i] = IF i <= p THEN q[i] ELSE e
      BY <1>3
    <2> HIDE DEF w
    <2>2. /\ w \o b \in Seq(Entry) /\ Len(w \o b) = Len(q) + 1
      <3>0. w \in Seq(Entry) /\ b \in Seq(Entry)
        BY <1>3, <2>1
      <3>1. w \o b \in Seq(Entry) /\ Len(w \o b) = Len(w) + Len(b)
        BY <3>0
      <3> QED BY <1>3, <2>1, <3>1, Entries
    <2>4. ASSUME NEW i \in 1..(Len(q) + 1)
          PROVE  (w \o b)[i] = IF i <= p + 1 THEN w[i] ELSE b[i - (p + 1)]
      BY <1>3, <2>1
    <2>3. z = w \o b
      BY DEF w
    <2>5. ASSUME NEW i \in 1..(Len(q) + 1), i > p + 1 PROVE b[i - (p + 1)] = q[i - 1]
      <3>1. i - (p + 1) \in 1..Len(b) /\ p + (i - (p + 1)) = i - 1
        BY <1>3, <2>5
      <3> QED BY <1>3, <3>1
    <2> HIDE DEF z
    <2>6. Len(z) = Len(q) + 1 /\ z \in Seq(Entry)
      BY <2>2, <2>3
    <2>7. ASSUME NEW i \in 1..(Len(q) + 1)
          PROVE  z[i] = IF i <= p THEN q[i] ELSE IF i = p + 1 THEN e ELSE q[i - 1]
      <3>1. CASE i <= p + 1
        BY <2>1, <2>3, <2>4, <3>1
      <3>2. CASE i > p + 1
        <4>1. z[i] = b[i - (p + 1)]
          <5>1. Len(q) \in Nat /\ i \in Nat /\ p \in Nat
            BY Entries
          <5>2. ~(i <= p + 1)
            BY <3>2, <5>1
          <5>3. z[i] = (w \o b)[i]
            BY <2>3
          <5> QED BY <2>4, <5>2, <5>3
        <4>2. b[i - (p + 1)] = q[i - 1]
          BY <2>5, <3>2
        <4> QED BY <3>2, <4>1, <4>2
      <3> QED BY <3>1, <3>2, Entries
    <2> QED BY <2>6, <2>7
  <1> HIDE DEF z
  <1>5. Sorted(z)
    <2> SUFFICES ASSUME NEW i \in 1..Len(z), NEW j \in 1..Len(z), i < j
                 PROVE  z[i].at <= z[j].at
      BY DEF Sorted
    <2>0. e.at \in Nat /\ \A l \in 1..Len(q) : q[l].at \in Nat
      BY Entries DEF Entry
    <2>1. CASE j <= p
      <3>0. i <= p /\ i \in 1..Len(q) /\ j \in 1..Len(q)
        BY <2>1, Entries
      <3>1. z[i] = q[i] /\ z[j] = q[j]
        BY <1>4, <2>1, <3>0
      <3> QED BY <3>0, <3>1 DEF Sorted
    <2>2. CASE j = p + 1
      BY <1>2, <1>4, <2>2
    <2>3. CASE j > p + 1 /\ i <= p
      <3>1. z[i] = q[i] /\ z[j] = q[j - 1] /\ i \in 1..Len(q) /\ j - 1 \in 1..Len(q) /\ i < j - 1
        BY <1>4, <2>3, Entries
      <3> QED BY <3>1 DEF Sorted
    <2>4. CASE j > p + 1 /\ i = p + 1
      <3>1. z[i] = e /\ z[j] = q[j - 1] /\ j - 1 \in (p + 1)..Len(q) /\ j - 1 \in 1..Len(q)
        BY <1>4, <2>4, Entries
      <3>2. q[j - 1].at > e.at /\ q[j - 1].at \in Nat
        BY <1>2, <2>0, <3>1
      <3> QED BY <2>0, <3>1, <3>2
    <2>5. CASE j > p + 1 /\ i > p + 1
      <3>1. z[i] = q[i - 1] /\ z[j] = q[j - 1] /\ i - 1 \in 1..Len(q) /\ j - 1 \in 1..Len(q) /\ i - 1 < j - 1
        BY <1>4, <2>5, Entries
      <3> QED BY <3>1 DEF Sorted
    <2> QED BY <2>1, <2>2, <2>3, <2>4, <2>5
  <1>6. M!Insert(q, e) = z
    BY <1>1 DEF M!Insert, z, a, b
  <1>7. \A i \in 1..Len(z) : z[i] = e \/ \E j \in 1..Len(q) : z[i] = q[j]
    BY <1>4
  <1> QED BY <1>4, <1>5, <1>6, <1>7

\* Erasing an entry keeps the order and adds none.
LEMMA EraseOk ==
    ASSUME NEW q \in Seq(Entry), Sorted(q), NEW k \in 1..Len(q)
    PROVE  LET z == M!Without(q, k)
           IN  /\ z \in Seq(Entry) /\ Sorted(z)
               /\ \A i \in 1..Len(z) : \E j \in 1..Len(q) : z[i] = q[j]
  <1> DEFINE z == M!Without(q, k)
  <1>1. /\ z \in Seq(Entry) /\ Len(z) = Len(q) - 1
        /\ \A i \in 1..Len(z) : z[i] = IF i < k THEN q[i] ELSE q[i + 1]
    BY DEF M!Without
  <1> HIDE DEF z
  <1>2. Sorted(z)
    <2> SUFFICES ASSUME NEW i \in 1..Len(z), NEW j \in 1..Len(z), i < j
                 PROVE  z[i].at <= z[j].at
      BY DEF Sorted
    <2>0. Len(q) \in Nat
      BY Entries
    <2>1. PICK m \in 1..Len(q) : z[i] = q[m] /\ m = IF i < k THEN i ELSE i + 1
      BY <1>1, <2>0
    <2>2. PICK n \in 1..Len(q) : z[j] = q[n] /\ n = IF j < k THEN j ELSE j + 1
      BY <1>1, <2>0
    <2>3. m < n
      BY <1>1, <2>0, <2>1, <2>2
    <2> QED BY <2>1, <2>2, <2>3 DEF Sorted
  <1> QED BY <1>1, <1>2 DEF z

LEMMA Consts ==
    ASSUME M!ConstOk
    PROVE  /\ MaxSleep \in Nat /\ EveryCycle \in Nat /\ MaxTime \in Nat /\ MaxBusy \in Nat
           /\ Batch \in Nat /\ Batch > 0 /\ Delays \subseteq Nat /\ Idler # {}
           /\ M!Infinity \in Nat
  <1>1. MaxSleep \in Nat /\ EveryCycle \in Nat /\ MaxTime \in Nat /\ MaxBusy \in Nat
    BY DEF M!ConstOk
  <1> QED BY <1>1 DEF M!ConstOk, M!Infinity

\* The slack of a deadline grows with every failed try_lock.
LEMMA Slack ==
    ASSUME M!ConstOk, NEW b \in Nat, NEW a \in Nat
    PROVE  /\ a + (1 + b) * MaxSleep \in Nat
           /\ a + MaxSleep <= a + (1 + b) * MaxSleep
           /\ a + (1 + (b + 1)) * MaxSleep = a + (1 + b) * MaxSleep + MaxSleep
  <1>1. MaxSleep \in Nat
    BY Consts
  <1>2. b * MaxSleep \in Nat
    BY <1>1
  <1>3. (1 + b) * MaxSleep = MaxSleep + b * MaxSleep
    BY <1>1
  <1>4. (1 + (b + 1)) * MaxSleep = MaxSleep + MaxSleep + b * MaxSleep
    BY <1>1
  <1> QED BY <1>1, <1>2, <1>3, <1>4

LEMMA SleepOk ==
    ASSUME M!ConstOk, MgrType, NEW h \in Idler, NEW ms \in Nat, M!Sleep(h, ms)
    PROVE  /\ tpc' \in [Idler -> {"expire", "call", "in", "asleep"}]
           /\ count' \in [Idler -> Nat]
           /\ until' \in [Idler -> Nat]
           /\ until'[h] <= now + MaxSleep /\ until'[h] <= now + ms
           /\ \A g \in Idler \ {h} : tpc'[g] = tpc[g] /\ until'[g] = until[g]
  <1>1. MaxSleep \in Nat /\ now \in Nat
    BY Consts DEF MgrType
  <1>2. PICK u \in Nat : /\ u = IF count[h] > 0 THEN now ELSE now + M!Least(ms, MaxSleep)
                         /\ u <= now + MaxSleep /\ u <= now + ms
    BY <1>1 DEF M!Least
  <1>3. until' = [until EXCEPT ![h] = u]
    BY <1>2 DEF M!Sleep
  <1>4. /\ tpc' = [tpc EXCEPT ![h] = "asleep"] /\ count' = [count EXCEPT ![h] = 0]
    BY DEF M!Sleep
  <1>5. /\ tpc \in [Idler -> {"expire", "call", "in", "asleep"}]
        /\ count \in [Idler -> Nat] /\ until \in [Idler -> Nat]
    BY DEF MgrType
  <1> QED BY <1>2, <1>3, <1>4, <1>5

\* A step that only takes deadlines away and lets no thread sleep too long.
LEMMA Keep ==
    ASSUME M!ConstOk, TimerInv, MgrType', Ordered', now' = now, busy' = busy,
           \A k \in M!Clock : \A i \in 1..Len(deadlines'[k]) :
              \E j \in 1..Len(deadlines[k]) : deadlines'[k][i] = deadlines[k][j],
           \A h \in Idler : tpc'[h] = "asleep" =>
              \/ tpc[h] = "asleep" /\ until'[h] = until[h]
              \/ /\ until'[h] <= now + MaxSleep
                 /\ \A k \in M!Clock : \A i \in 1..Len(deadlines'[k]) :
                       until'[h] <= deadlines'[k][i].at + (1 + busy) * MaxSleep
    PROVE  TimerInv'
  <1>1. InTime'
    BY DEF InTime, TimerInv, Late
  <1>2. Wakes'
    <2> SUFFICES ASSUME NEW h \in Idler, tpc'[h] = "asleep"
                 PROVE  /\ until'[h] <= now' + MaxSleep
                        /\ \A k \in M!Clock : \A i \in 1..Len(deadlines'[k]) :
                              until'[h] <= Late(deadlines[k][i])'
      BY DEF Wakes
    <2>1. CASE tpc[h] = "asleep" /\ until'[h] = until[h]
      <3>1. \A k \in M!Clock : \A i \in 1..Len(deadlines[k]) :
               until[h] <= deadlines[k][i].at + (1 + busy) * MaxSleep
        BY <2>1 DEF TimerInv, Wakes, Late
      <3>2. until[h] <= now + MaxSleep
        BY <2>1 DEF TimerInv, Wakes
      <3> QED BY <2>1, <3>1, <3>2 DEF Late
    <2>2. CASE /\ until'[h] <= now + MaxSleep
               /\ \A k \in M!Clock : \A i \in 1..Len(deadlines'[k]) :
                       until'[h] <= deadlines'[k][i].at + (1 + busy) * MaxSleep
      BY <2>2 DEF Late
    <2> QED BY <2>1, <2>2
  <1> QED BY <1>1, <1>2 DEF TimerInv

\* A step of another part: deadlines and sleepers stay as they are.
LEMMA KeepAll ==
    ASSUME M!ConstOk, TimerInv, UNCHANGED <<now, deadlines, next_trigger, busy, count>>,
           tpc' \in [Idler -> {"expire", "call", "in", "asleep"}],
           until' \in [Idler -> Nat],
           \A h \in Idler : tpc'[h] = "asleep" => tpc[h] = "asleep" /\ until'[h] = until[h]
    PROVE  TimerInv'
  <1>1. MgrType' /\ Ordered'
    BY DEF MgrType, Ordered, TimerInv
  <1>2. \A k \in M!Clock : \A i \in 1..Len(deadlines'[k]) :
              \E j \in 1..Len(deadlines[k]) : deadlines'[k][i] = deadlines[k][j]
    OBVIOUS
  <1> QED BY <1>1, <1>2, Keep

LEMMA InitTimerInv == ASSUME M!ConstOk, M!Init PROVE TimerInv
  <1>1. MgrType
    BY Consts DEF MgrType, M!Init
  <1>2. Ordered /\ InTime /\ Wakes
    BY DEF M!Init, Ordered, Sorted, InTime, Wakes
  <1> QED BY <1>1, <1>2 DEF TimerInv

LEMMA ExpireAtStep ==
    ASSUME M!ConstOk, TimerInv, NEW x \in Timer, NEW k \in M!Clock, NEW d \in Delays, M!ExpireAt(x, k, d)
    PROVE  TimerInv'
  <1>0. MgrType /\ Ordered /\ InTime /\ Wakes
    BY DEF TimerInv
  <1>1. now \in Nat /\ d \in Nat /\ MaxSleep \in Nat /\ busy \in Nat /\ now' = now /\ busy' = busy
    BY <1>0, Consts DEF MgrType, M!ExpireAt
  <1>2. PICK e \in Entry : e = [at |-> now + d, timer |-> x]
    <2>1. now + d \in Nat
      BY <1>1
    <2>2. [at |-> now + d, timer |-> x] \in Entry
      BY <2>1 DEF Entry
    <2> QED BY <2>2
  <1>3. e.at = now + d
    BY <1>2
  <1>4. deadlines' = [deadlines EXCEPT ![k] = M!Insert(deadlines[k], e)]
    BY <1>2 DEF M!ExpireAt
  <1>5. /\ deadlines \in [M!Clock -> Seq(Entry)] /\ \A l \in M!Clock : Sorted(deadlines[l])
    BY <1>0 DEF MgrType, Ordered
  <1>6. /\ M!Insert(deadlines[k], e) \in Seq(Entry) /\ Sorted(M!Insert(deadlines[k], e))
        /\ \A i \in 1..Len(M!Insert(deadlines[k], e)) :
              \/ M!Insert(deadlines[k], e)[i] = e
              \/ \E j \in 1..Len(deadlines[k]) : M!Insert(deadlines[k], e)[i] = deadlines[k][j]
    BY <1>5, InsertOk
  <1>7. Ordered'
    BY <1>4, <1>5, <1>6 DEF Ordered
  <1>8. MgrType'
    <2>1. deadlines' \in [M!Clock -> Seq(Entry)]
      BY <1>4, <1>5, <1>6
    <2>2. next_trigger' \in [M!Clock -> Nat]
      <3>1. next_trigger \in [M!Clock -> Nat]
        BY <1>0 DEF MgrType
      <3>2. next_trigger' = [next_trigger EXCEPT ![k] = e.at] \/ next_trigger' = next_trigger
        BY <1>2 DEF M!ExpireAt
      <3>3. e.at \in Nat
        BY <1>1, <1>3
      <3> QED BY <3>1, <3>2, <3>3
    <2>3. UNCHANGED <<now, busy, tpc, count, until>>
      BY DEF M!ExpireAt, M!threadVars
    <2> QED BY <1>0, <2>1, <2>2, <2>3 DEF MgrType
  <1>9. ASSUME NEW l \in M!Clock, NEW i \in 1..Len(deadlines'[l])
        PROVE  \/ deadlines'[l][i] = e
               \/ \E j \in 1..Len(deadlines[l]) : deadlines'[l][i] = deadlines[l][j]
    <2>1. CASE l = k
      BY <1>4, <1>5, <1>6, <2>1
    <2>2. CASE l # k
      BY <1>4, <1>5, <2>2
    <2> QED BY <2>1, <2>2
  <1>10. now + MaxSleep <= e.at + (1 + busy) * MaxSleep /\ now <= e.at + (1 + busy) * MaxSleep
    <2>1. e.at \in Nat /\ now <= e.at
      BY <1>1, <1>3
    <2>2. e.at + MaxSleep <= e.at + (1 + busy) * MaxSleep /\ e.at + (1 + busy) * MaxSleep \in Nat
      BY <1>1, <2>1, Slack
    <2> QED BY <1>1, <2>1, <2>2
  <1>11. InTime'
    <2> SUFFICES ASSUME NEW l \in M!Clock, NEW i \in 1..Len(deadlines'[l])
                 PROVE  now <= deadlines'[l][i].at + (1 + busy) * MaxSleep
      BY <1>1 DEF InTime, Late
    <2> QED BY <1>0, <1>9, <1>10 DEF InTime, Late
  <1>12. Wakes'
    <2> SUFFICES ASSUME NEW h \in Idler, tpc[h] = "asleep"
                 PROVE  /\ until[h] <= now + MaxSleep
                        /\ \A l \in M!Clock : \A i \in 1..Len(deadlines'[l]) :
                              until[h] <= deadlines'[l][i].at + (1 + busy) * MaxSleep
      BY <1>1 DEF Wakes, Late, M!ExpireAt, M!threadVars
    <2>1. until[h] <= now + MaxSleep /\ until[h] \in Nat
      BY <1>0 DEF Wakes, MgrType
    <2>2. ASSUME NEW l \in M!Clock, NEW i \in 1..Len(deadlines'[l])
          PROVE  until[h] <= deadlines'[l][i].at + (1 + busy) * MaxSleep
      <3>1. CASE deadlines'[l][i] = e
        <4>1. e.at + (1 + busy) * MaxSleep \in Nat
          BY <1>1, <1>3, Slack
        <4> QED BY <1>1, <1>10, <2>1, <3>1, <4>1
      <3>2. CASE \E j \in 1..Len(deadlines[l]) : deadlines'[l][i] = deadlines[l][j]
        BY <1>0, <3>2 DEF Wakes, Late
      <3> QED BY <1>9, <3>1, <3>2
    <2> QED BY <2>1, <2>2
  <1> QED BY <1>7, <1>8, <1>11, <1>12 DEF TimerInv

LEMMA EraseStep ==
    ASSUME M!ConstOk, TimerInv, NEW x \in Timer, M!Erase(x)
    PROVE  TimerInv'
  <1>0. MgrType /\ Ordered
    BY DEF TimerInv
  <1>1. PICK k \in M!Clock : k = token_state_[x]
    BY DEF M!Erase
  <1>2. PICK i \in 1..Len(deadlines[k]) : deadlines' = [deadlines EXCEPT ![k] = M!Without(deadlines[k], i)]
    BY <1>1 DEF M!Erase
  <1>3. /\ deadlines \in [M!Clock -> Seq(Entry)] /\ \A l \in M!Clock : Sorted(deadlines[l])
    BY <1>0 DEF MgrType, Ordered
  <1>4. /\ M!Without(deadlines[k], i) \in Seq(Entry) /\ Sorted(M!Without(deadlines[k], i))
        /\ \A m \in 1..Len(M!Without(deadlines[k], i)) :
              \E j \in 1..Len(deadlines[k]) : M!Without(deadlines[k], i)[m] = deadlines[k][j]
    BY <1>3, EraseOk
  <1>5. UNCHANGED <<now, busy, next_trigger, tpc, count, until>>
    BY DEF M!Erase, M!threadVars
  <1>6. deadlines' \in [M!Clock -> Seq(Entry)] /\ Ordered'
    BY <1>2, <1>3, <1>4 DEF Ordered
  <1>7. MgrType'
    BY <1>0, <1>5, <1>6 DEF MgrType
  <1>8. ASSUME NEW l \in M!Clock, NEW m \in 1..Len(deadlines'[l])
        PROVE  \E j \in 1..Len(deadlines[l]) : deadlines'[l][m] = deadlines[l][j]
    <2>1. CASE l = k
      BY <1>2, <1>3, <1>4, <2>1
    <2>2. CASE l # k
      BY <1>2, <1>3, <2>2
    <2> QED BY <2>1, <2>2
  <1> QED BY <1>5, <1>6, <1>7, <1>8, Keep

LEMMA TriggerNat ==
    ASSUME NEW t \in Nat, NEW u \in Nat, now \in Nat, NEW next, next["system"] = t, next["steady"] = u
    PROVE  /\ M!NextTriggerTime(next) \in Nat
           /\ t >= now => now + M!NextTriggerTime(next) <= t
           /\ u >= now => now + M!NextTriggerTime(next) <= u
  BY DEF M!NextTriggerTime, M!Least, M!Delta

LEMMA BusyStep ==
    ASSUME M!ConstOk, TimerInv, NEW h \in Idler, M!Busy(h)
    PROVE  TimerInv'
  <1>0. MgrType /\ Ordered /\ InTime /\ Wakes
    BY DEF TimerInv
  <1>1. /\ now \in Nat /\ MaxSleep \in Nat /\ busy \in Nat /\ now' = now /\ busy' = busy + 1
        /\ deadlines' = deadlines /\ next_trigger' = next_trigger
    BY <1>0, Consts DEF MgrType, M!Busy, M!mgrVars
  <1>2. M!NextTriggerTime(next_trigger) \in Nat
    <2>1. next_trigger["system"] \in Nat /\ next_trigger["steady"] \in Nat
      BY <1>0 DEF MgrType, M!Clock
    <2> QED BY <1>1, <2>1, TriggerNat
  <1>3. /\ tpc' \in [Idler -> {"expire", "call", "in", "asleep"}]
        /\ count' \in [Idler -> Nat]
        /\ until' \in [Idler -> Nat]
        /\ until'[h] <= now + MaxSleep
        /\ \A g \in Idler \ {h} : tpc'[g] = tpc[g] /\ until'[g] = until[g]
    BY <1>0, <1>2, SleepOk DEF M!Busy
  <1>4. MgrType' /\ Ordered'
    BY <1>0, <1>1, <1>3 DEF MgrType, Ordered
  <1>5. ASSUME NEW k \in M!Clock, NEW i \in 1..Len(deadlines[k])
        PROVE  /\ Late(deadlines[k][i]) \in Nat
               /\ Late(deadlines[k][i])' = Late(deadlines[k][i]) + MaxSleep
    <2>1. deadlines[k][i].at \in Nat
      BY <1>0, Entries DEF MgrType
    <2> QED BY <1>1, <2>1, Slack DEF Late
  <1>6. InTime'
    BY <1>0, <1>1, <1>5 DEF InTime
  <1>7. Wakes'
    <2> SUFFICES ASSUME NEW g \in Idler, tpc'[g] = "asleep"
                 PROVE  /\ until'[g] <= now + MaxSleep
                        /\ \A k \in M!Clock : \A i \in 1..Len(deadlines[k]) :
                              until'[g] <= Late(deadlines[k][i])'
      BY <1>1 DEF Wakes
    <2>1. CASE g = h
      <3>1. \A k \in M!Clock : \A i \in 1..Len(deadlines[k]) : now <= Late(deadlines[k][i])
        BY <1>0 DEF InTime
      <3>2. until'[h] \in Nat
        BY <1>3
      <3> QED BY <1>1, <1>3, <1>5, <2>1, <3>1, <3>2
    <2>2. CASE g # h
      <3>1. /\ until[g] <= now + MaxSleep
            /\ \A k \in M!Clock : \A i \in 1..Len(deadlines[k]) : until[g] <= Late(deadlines[k][i])
        BY <1>0, <1>3, <2>2 DEF Wakes
      <3>2. until[g] \in Nat /\ until'[g] = until[g]
        BY <1>0, <1>3, <2>2 DEF MgrType
      <3> QED BY <1>1, <1>5, <3>1, <3>2
    <2> QED BY <2>1, <2>2
  <1> QED BY <1>4, <1>6, <1>7 DEF TimerInv

LEMMA NoneStep ==
    ASSUME M!ConstOk, TimerInv, NEW h \in Idler, M!GetNone(h) \/ M!NextRound(h)
    PROVE  TimerInv'
  <1>0. MgrType /\ Ordered /\ InTime /\ Wakes
    BY DEF TimerInv
  <1>1. /\ now \in Nat /\ MaxSleep \in Nat /\ busy \in Nat
        /\ UNCHANGED <<now, busy, deadlines, next_trigger>>
    BY <1>0, Consts DEF MgrType, M!GetNone, M!NextRound, M!mgrVars
  <1>2. CASE /\ tpc' = [tpc EXCEPT ![h] = "expire"]
             /\ UNCHANGED <<count, until>>
    BY <1>0, <1>1, <1>2, KeepAll DEF MgrType
  <1>3. ASSUME NEW ms \in Nat, M!Sleep(h, ms), M!NoDeadline \/ ms = 0
        PROVE  TimerInv'
    <2>1. /\ tpc' \in [Idler -> {"expire", "call", "in", "asleep"}]
          /\ count' \in [Idler -> Nat]
          /\ until' \in [Idler -> Nat]
          /\ until'[h] <= now + MaxSleep /\ until'[h] <= now + ms
          /\ \A g \in Idler \ {h} : tpc'[g] = tpc[g] /\ until'[g] = until[g]
      BY <1>0, <1>3, SleepOk
    <2>2. MgrType' /\ Ordered'
      BY <1>0, <1>1, <2>1 DEF MgrType, Ordered
    <2>3. ASSUME NEW k \in M!Clock, NEW i \in 1..Len(deadlines[k])
          PROVE  until'[h] <= deadlines[k][i].at + (1 + busy) * MaxSleep
      <3>1. ms = 0
        BY <1>3 DEF M!NoDeadline
      <3>2. now <= deadlines[k][i].at + (1 + busy) * MaxSleep
        BY <1>0 DEF InTime, Late
      <3>3. deadlines[k][i].at + (1 + busy) * MaxSleep \in Nat
        BY <1>0, <1>1, Slack, Entries DEF MgrType
      <3>4. until'[h] \in Nat
        BY <2>1
      <3> QED BY <1>1, <2>1, <3>1, <3>2, <3>3, <3>4
    <2> QED BY <1>1, <2>1, <2>2, <2>3, Keep
  <1>4. CASE M!GetNone(h)
    BY <1>3, <1>4, Consts DEF M!GetNone
  <1>5. CASE M!NextRound(h) /\ M!Sleep(h, 0)
    BY <1>3, <1>5
  <1> QED BY <1>2, <1>4, <1>5 DEF M!NextRound

LEMMA TickStep ==
    ASSUME M!ConstOk, TimerInv, M!Tick
    PROVE  TimerInv'
  <1>0. MgrType /\ Ordered /\ InTime /\ Wakes
    BY DEF TimerInv
  <1>1. /\ now \in Nat /\ MaxSleep \in Nat /\ busy \in Nat /\ now' = now + 1
        /\ UNCHANGED <<busy, deadlines, next_trigger, tpc, count, until>>
    BY <1>0, Consts DEF MgrType, M!Tick, M!mgrVars, M!threadVars
  <1>2. MgrType' /\ Ordered'
    BY <1>0, <1>1 DEF MgrType, Ordered
  <1>3. PICK h \in Idler : tpc[h] = "asleep" /\ now < until[h]
    BY Consts DEF M!Tick
  <1>4. InTime'
    <2> SUFFICES ASSUME NEW k \in M!Clock, NEW i \in 1..Len(deadlines[k])
                 PROVE  now + 1 <= deadlines[k][i].at + (1 + busy) * MaxSleep
      BY <1>1 DEF InTime, Late
    <2>1. until[h] <= deadlines[k][i].at + (1 + busy) * MaxSleep
      BY <1>0, <1>3 DEF Wakes, Late
    <2>2. deadlines[k][i].at + (1 + busy) * MaxSleep \in Nat
      BY <1>0, <1>1, Slack, Entries DEF MgrType
    <2>3. until[h] \in Nat
      BY <1>0 DEF MgrType
    <2> QED BY <1>1, <1>3, <2>1, <2>2, <2>3
  <1>5. Wakes'
    <2> SUFFICES ASSUME NEW g \in Idler, tpc[g] = "asleep"
                 PROVE  /\ until[g] <= now + 1 + MaxSleep
                        /\ \A k \in M!Clock : \A i \in 1..Len(deadlines[k]) :
                              until[g] <= deadlines[k][i].at + (1 + busy) * MaxSleep
      BY <1>1 DEF Wakes, Late
    <2>1. until[g] <= now + MaxSleep
      BY <1>0 DEF Wakes
    <2>2. until[g] \in Nat
      BY <1>0 DEF MgrType
    <2>3. until[g] <= now + 1 + MaxSleep
      BY <1>1, <2>1, <2>2
    <2> QED BY <1>0, <2>3 DEF Wakes, Late
  <1> QED BY <1>2, <1>4, <1>5 DEF TimerInv

\* When GetExpired takes nothing although it may, every deadline is in the future.
LEMMA DueOk ==
    ASSUME NEW q \in Seq(Entry), Sorted(q), now \in Nat, NEW n \in Nat
    PROVE  /\ M!Due(q, n) \in Seq(Entry)
           /\ Len(M!Due(q, n)) \in 0..Len(q) /\ Len(M!Due(q, n)) <= n
           /\ n > 0 /\ Len(M!Due(q, n)) = 0 => \A i \in 1..Len(q) : q[i].at > now
  <1>1. PICK p \in 0..Len(q) : p = M!UpperBound(q, now)
    BY UpperBoundOk
  <1>2. \A i \in (p + 1)..Len(q) : q[i].at > now
    BY <1>1, UpperBoundOk
  <1>3. PICK m \in 0..Len(q) : m = M!Least(n, p) /\ m <= n /\ (n > 0 /\ m = 0 => p = 0)
    BY Entries DEF M!Least
  <1>4. M!Due(q, n) = SubSeq(q, 1, m)
    BY <1>1, <1>3 DEF M!Due
  <1>5. SubSeq(q, 1, m) \in Seq(Entry) /\ Len(SubSeq(q, 1, m)) = m
    OBVIOUS
  <1>6. n > 0 /\ m = 0 => \A i \in 1..Len(q) : q[i].at > now
    BY <1>2, <1>3, Entries
  <1> QED BY <1>3, <1>4, <1>5, <1>6

LEMMA GetExpiredStep ==
    ASSUME M!ConstOk, TimerInv, NEW h \in Idler, M!GetExpired(h)
    PROVE  TimerInv'
  <1>0. MgrType /\ Ordered /\ InTime /\ Wakes
    BY DEF TimerInv
  <1>1. /\ now \in Nat /\ MaxSleep \in Nat /\ busy \in Nat /\ Batch \in Nat /\ Batch > 0
        /\ UNCHANGED <<now, busy>>
    BY <1>0, Consts DEF MgrType, M!GetExpired
  <1>2. /\ deadlines \in [M!Clock -> Seq(Entry)] /\ \A l \in M!Clock : Sorted(deadlines[l])
    BY <1>0 DEF MgrType, Ordered
  <1>3. "system" \in M!Clock /\ "steady" \in M!Clock
    BY DEF M!Clock
  <1> DEFINE sys == M!Due(deadlines["system"], Batch)
             sdy == M!Due(deadlines["steady"], Batch - Len(sys))
             left == [k \in M!Clock |->
                        LET n == Len(IF k = "system" THEN sys ELSE sdy)
                        IN  SubSeq(deadlines[k], n + 1, Len(deadlines[k]))]
             got == [i \in 1..(Len(sys) + Len(sdy)) |-> (sys \o sdy)[i].timer]
             next == [k \in M!Clock |-> M!NextOf(left[k])]
  <1>4. /\ deadlines' = left /\ next_trigger' = next
        /\ \/ got = <<>> /\ M!Sleep(h, M!NextTriggerTime(next))
           \/ /\ got # <<>>
              /\ tpc' = [tpc EXCEPT ![h] = "call"]
              /\ count' = [count EXCEPT ![h] = @ + Len(got)]
              /\ UNCHANGED until
    BY DEF M!GetExpired
  <1>5. /\ Len(sys) \in 0..Len(deadlines["system"]) /\ Len(sys) <= Batch
        /\ Len(sys) = 0 => \A i \in 1..Len(deadlines["system"]) : deadlines["system"][i].at > now
    BY <1>1, <1>2, <1>3, DueOk
  <1>6. Len(sys) \in Nat /\ Batch - Len(sys) \in Nat
    BY <1>1, <1>5
  <1>7. /\ Len(sdy) \in 0..Len(deadlines["steady"])
        /\ Batch - Len(sys) > 0 /\ Len(sdy) = 0
              => \A i \in 1..Len(deadlines["steady"]) : deadlines["steady"][i].at > now
    BY <1>1, <1>2, <1>3, <1>6, DueOk
  <1>8. Len(sdy) \in Nat
    BY <1>7
  <1> HIDE DEF sys, sdy
  <1>9. ASSUME NEW k \in M!Clock
        PROVE  /\ left[k] \in Seq(Entry) /\ Sorted(left[k])
               /\ \A i \in 1..Len(left[k]) : \E j \in 1..Len(deadlines[k]) : left[k][i] = deadlines[k][j]
    <2>1. PICK n \in 0..Len(deadlines[k]) : left[k] = SubSeq(deadlines[k], n + 1, Len(deadlines[k]))
      BY <1>5, <1>7 DEF M!Clock
    <2> HIDE DEF left
    <2>2. deadlines[k] \in Seq(Entry) /\ Sorted(deadlines[k]) /\ Len(deadlines[k]) \in Nat
      BY <1>2
    <2>3. /\ left[k] \in Seq(Entry) /\ Sorted(left[k]) /\ Len(left[k]) = Len(deadlines[k]) - n
          /\ \A i \in 1..Len(left[k]) : left[k][i] = deadlines[k][n + i]
      BY <2>1, <2>2, Cut
    <2>4. ASSUME NEW i \in 1..Len(left[k]) PROVE n + i \in 1..Len(deadlines[k])
      BY <2>2, <2>3
    <2> QED BY <2>3, <2>4
  <1>10. left \in [M!Clock -> Seq(Entry)]
    BY <1>9
  <1> HIDE DEF left
  <1>11. ASSUME NEW k \in M!Clock
         PROVE  /\ next[k] \in Nat
                /\ \A i \in 1..Len(left[k]) : next[k] <= left[k][i].at /\ left[k][i].at \in Nat
    <2>1. left[k] \in Seq(Entry) /\ Sorted(left[k])
      BY <1>9
    <2>2. /\ Len(left[k]) \in Nat
          /\ \A i \in 1..Len(left[k]) : left[k][i].at \in Nat
      BY <2>1, Entries
    <2>3. CASE left[k] = <<>>
      BY <2>3, Consts DEF M!NextOf
    <2>4. CASE left[k] # <<>>
      <3>1. next[k] = left[k][1].at /\ 1 \in 1..Len(left[k])
        BY <2>1, <2>4 DEF M!NextOf
      <3> QED BY <2>1, <2>2, <3>1 DEF Sorted
    <2> QED BY <2>3, <2>4
  <1>12. next \in [M!Clock -> Nat] /\ next["system"] \in Nat /\ next["steady"] \in Nat
    BY <1>3, <1>11
  <1> HIDE DEF next
  <1>13. Ordered'
    BY <1>4, <1>9 DEF Ordered
  <1>14. ASSUME NEW k \in M!Clock, NEW i \in 1..Len(deadlines'[k])
         PROVE  \E j \in 1..Len(deadlines[k]) : deadlines'[k][i] = deadlines[k][j]
    BY <1>4, <1>9
  <1>15. CASE got # <<>>
    <2>0. tpc' = [tpc EXCEPT ![h] = "call"] /\ until' = until
      BY <1>4, <1>15
    <2>1. count' \in [Idler -> Nat]
      <3>1. got \in Seq({(sys \o sdy)[i].timer : i \in 1..(Len(sys) + Len(sdy))})
        BY <1>6, <1>8
      <3>2. Len(got) \in Nat
        BY <3>1
      <3>3. count' = [count EXCEPT ![h] = @ + Len(got)] /\ count \in [Idler -> Nat]
        BY <1>0, <1>4, <1>15 DEF MgrType
      <3> HIDE DEF got
      <3> QED BY <3>2, <3>3
    <2>2. MgrType'
      BY <1>0, <1>1, <1>4, <1>10, <1>12, <2>0, <2>1 DEF MgrType
    <2>3. ASSUME NEW g \in Idler, tpc'[g] = "asleep" PROVE tpc[g] = "asleep" /\ until'[g] = until[g]
      BY <1>0, <2>0, <2>3 DEF MgrType
    <2> QED BY <1>1, <1>13, <1>14, <2>2, <2>3, Keep
  <1>16. CASE got = <<>>
    <2>1. Len(sys) = 0 /\ Len(sdy) = 0
      <3>1. DOMAIN got = 1..(Len(sys) + Len(sdy))
        OBVIOUS
      <3>2. DOMAIN got = {}
        BY <1>16
      <3>3. ~(1 \in 1..(Len(sys) + Len(sdy)))
        BY <3>1, <3>2
      <3> QED BY <1>6, <1>8, <3>3
    <2> HIDE DEF got
    <2>2. \A k \in M!Clock : \A i \in 1..Len(deadlines[k]) : deadlines[k][i].at > now
      BY <1>1, <1>5, <1>7, <2>1 DEF M!Clock
    <2>3. M!NextTriggerTime(next) \in Nat
      BY <1>1, <1>12, TriggerNat
    <2>4. /\ tpc' \in [Idler -> {"expire", "call", "in", "asleep"}]
          /\ count' \in [Idler -> Nat]
          /\ until' \in [Idler -> Nat]
          /\ until'[h] <= now + MaxSleep /\ until'[h] <= now + M!NextTriggerTime(next)
          /\ \A g \in Idler \ {h} : tpc'[g] = tpc[g] /\ until'[g] = until[g]
      BY <1>0, <1>4, <1>16, <2>3, SleepOk
    <2>5. MgrType'
      BY <1>0, <1>1, <1>4, <1>10, <1>12, <2>4 DEF MgrType
    <2>6. ASSUME NEW k \in M!Clock, NEW i \in 1..Len(deadlines'[k])
          PROVE  until'[h] <= deadlines'[k][i].at + (1 + busy) * MaxSleep
      <3>1. deadlines'[k] = left[k] /\ left[k][i].at > now /\ left[k][i].at \in Nat /\ next[k] <= left[k][i].at
        <4>1. deadlines'[k] = left[k]
          BY <1>4
        <4>2. left[k][i].at > now
          BY <1>9, <2>2, <4>1
        <4> QED BY <1>11, <4>1, <4>2
      <3>2. CASE next[k] >= now
        <4>1. now + M!NextTriggerTime(next) <= next[k]
          BY <1>1, <1>12, <3>2, TriggerNat DEF M!Clock
        <4>2. left[k][i].at + MaxSleep <= left[k][i].at + (1 + busy) * MaxSleep
              /\ left[k][i].at + (1 + busy) * MaxSleep \in Nat
          BY <1>1, <3>1, Slack
        <4>3. until'[h] \in Nat /\ next[k] \in Nat
          BY <1>12, <2>4
        <4>4. until'[h] <= now + M!NextTriggerTime(next)
          BY <2>4
        <4>5. deadlines'[k][i].at = left[k][i].at
          BY <3>1
        <4>6. until'[h] <= left[k][i].at
          BY <1>1, <2>3, <3>1, <4>1, <4>3, <4>4
        <4>7. left[k][i].at <= left[k][i].at + (1 + busy) * MaxSleep
          BY <1>1, <3>1, <4>2
        <4> HIDE DEF got
        <4> QED BY <3>1, <4>2, <4>3, <4>5, <4>6, <4>7
      <3>3. next[k] >= now
        <4>1. left[k] # <<>> /\ left[k] \in Seq(Entry)
          BY <1>9, <3>1
        <4>2. 1 \in 1..Len(left[k]) /\ next[k] = left[k][1].at
          BY <4>1 DEF next, M!NextOf
        <4>3. left[k][1].at > now /\ left[k][1].at \in Nat
          BY <1>9, <1>11, <2>2, <4>2
        <4> QED BY <1>1, <4>2, <4>3
      <3> QED BY <3>2, <3>3
    <2> QED BY <1>1, <1>13, <1>14, <2>4, <2>5, <2>6, Keep
  <1> QED BY <1>15, <1>16

LEMMA TimerInvStep == ASSUME M!ConstOk, TimerInv, [M!Next]_(M!vars) PROVE TimerInv'
  <1>1. CASE UNCHANGED M!vars
    <2>1. UNCHANGED <<now, busy, deadlines, next_trigger, tpc, count, until>>
      BY <1>1 DEF M!vars, M!mgrVars, M!threadVars
    <2> QED BY <2>1 DEF TimerInv, MgrType, Ordered, InTime, Wakes, Late
  <1>2. ASSUME NEW x \in Timer, M!Cancel(x) PROVE TimerInv'
    <2>1. UNCHANGED <<now, deadlines, next_trigger, busy, count, tpc, until>> /\ MgrType
      BY <1>2 DEF M!Cancel, M!mgrVars, M!threadVars, TimerInv
    <2> QED BY <2>1, KeepAll DEF MgrType
  <1>3. ASSUME NEW x \in Timer, M!Erase(x) PROVE TimerInv'
    BY <1>3, EraseStep
  <1>4. ASSUME NEW x \in Timer, NEW k \in M!Clock, NEW d \in Delays, M!ExpireAt(x, k, d) PROVE TimerInv'
    BY <1>4, ExpireAtStep
  <1>5. ASSUME NEW h \in Idler, M!GetNone(h) \/ M!NextRound(h) PROVE TimerInv'
    BY <1>5, NoneStep
  <1>6. ASSUME NEW h \in Idler, M!Busy(h) PROVE TimerInv'
    BY <1>6, BusyStep
  <1>7. ASSUME NEW h \in Idler, M!GetExpired(h) PROVE TimerInv'
    BY <1>7, GetExpiredStep
  <1>8. ASSUME NEW h \in Idler, M!CallTimer(h) \/ M!SkipTimer(h) \/ M!Returned(h)
        PROVE TimerInv'
    <2>1. UNCHANGED <<now, deadlines, next_trigger, busy, count, until>> /\ MgrType
      BY <1>8 DEF M!CallTimer, M!SkipTimer, M!Returned, M!mgrVars, TimerInv
    <2>2. \/ tpc' = tpc \/ tpc' = [tpc EXCEPT ![h] = "in"] \/ tpc' = [tpc EXCEPT ![h] = "call"]
      BY <1>8 DEF M!CallTimer, M!SkipTimer, M!Returned
    <2> QED BY <2>1, <2>2, KeepAll DEF MgrType
  <1>9. ASSUME NEW h \in Idler, M!Wake(h) PROVE TimerInv'
    <2>1. UNCHANGED <<now, deadlines, next_trigger, busy, count>> /\ MgrType
      BY <1>9 DEF M!Wake, M!mgrVars, TimerInv
    <2>2. /\ tpc' = [tpc EXCEPT ![h] = "expire"] /\ until' = [until EXCEPT ![h] = 0]
      BY <1>9 DEF M!Wake
    <2> QED BY <2>1, <2>2, KeepAll DEF MgrType
  <1>10. CASE M!Tick
    BY <1>10, TickStep
  <1> QED BY <1>1, <1>2, <1>3, <1>4, <1>5, <1>6, <1>7, <1>8, <1>9, <1>10 DEF M!Next

\* However timers are set, cancelled and served, by any number of threads and
\* with any options, no deadline is overslept by more than max_sleep_ms, plus
\* as much for every try_lock of GetExpired that failed.
THEOREM TimersPunctual == ASSUME M!ConstOk PROVE M!Spec => []Punctual
  <1>1. M!Init => TimerInv
    BY InitTimerInv
  <1>2. TimerInv /\ [M!Next]_(M!vars) => TimerInv'
    BY TimerInvStep
  <1>3. TimerInv => Punctual
    <2> SUFFICES ASSUME TimerInv, NEW k \in M!Clock, NEW i \in DOMAIN deadlines[k]
                 PROVE  now <= deadlines[k][i].at + (1 + busy) * MaxSleep
      BY DEF Punctual, M!Punctual
    <2>1. i \in 1..Len(deadlines[k])
      BY DEF TimerInv, MgrType
    <2> QED BY <2>1 DEF TimerInv, InTime, Late
  <1> QED BY <1>1, <1>2, <1>3, PTL DEF M!Spec

\* A cancelled timer is not active.
CancelInv == /\ active_ \in [Timer -> BOOLEAN]
             /\ life \in [Timer -> {"unset", "set", "cancelled", "called"}]
             /\ \A x \in Timer : life[x] = "cancelled" => ~active_[x]

LEMMA CancelInvStep ==
    ASSUME CancelInv, [M!Next]_(M!vars)
    PROVE  /\ CancelInv'
           /\ \A x \in Timer : life[x] = "cancelled" => life'[x] = "cancelled"
  <1>1. CASE UNCHANGED <<active_, life>>
    BY <1>1 DEF CancelInv
  <1>2. ASSUME NEW x \in Timer, M!Cancel(x)
        PROVE  /\ CancelInv'
               /\ \A y \in Timer : life[y] = "cancelled" => life'[y] = "cancelled"
    BY <1>2 DEF M!Cancel, CancelInv
  <1>3. ASSUME NEW x \in Timer, NEW k \in M!Clock, NEW d \in Delays, M!ExpireAt(x, k, d)
        PROVE  /\ CancelInv'
               /\ \A y \in Timer : life[y] = "cancelled" => life'[y] = "cancelled"
    BY <1>3 DEF M!ExpireAt, CancelInv
  <1>4. ASSUME NEW h \in Idler, M!CallTimer(h)
        PROVE  /\ CancelInv'
               /\ \A y \in Timer : life[y] = "cancelled" => life'[y] = "cancelled"
    BY <1>4 DEF M!CallTimer, CancelInv
  <1>5. ASSUME NEW h \in Idler, \/ M!GetNone(h) \/ M!Busy(h) \/ M!GetExpired(h)
                                 \/ M!SkipTimer(h) \/ M!Returned(h)
                                 \/ M!NextRound(h) \/ M!Wake(h)
        PROVE  UNCHANGED <<active_, life>>
    BY <1>5 DEF M!GetNone, M!Busy, M!GetExpired, M!SkipTimer, M!Returned, M!NextRound, M!Wake, M!timerVars
  <1>6. ASSUME NEW x \in Timer, M!Erase(x) PROVE UNCHANGED <<active_, life>>
    BY <1>6 DEF M!Erase, M!timerVars
  <1>7. CASE UNCHANGED M!vars
    BY <1>1, <1>7 DEF M!vars, M!timerVars
  <1>8. CASE M!Tick
    BY <1>1, <1>8 DEF M!Tick, M!timerVars
  <1> QED BY <1>1, <1>2, <1>3, <1>4, <1>5, <1>6, <1>7, <1>8 DEF M!Next

\* A timer for which Cancel or BlockCancel returned true is never called
\* afterwards, even by a thread that had already taken it from the map.
THEOREM CancelledStays == M!Spec => CancelTruthful
  <1>1. M!Init => CancelInv
    BY DEF M!Init, CancelInv
  <1>2. CancelInv /\ [M!Next]_(M!vars) => CancelInv'
    BY CancelInvStep
  <1>3. CancelInv /\ [M!Next]_(M!vars)
          => [\A x \in Timer : life[x] = "cancelled" => life'[x] = "cancelled"]_(M!vars)
    BY CancelInvStep
  <1> QED BY <1>1, <1>2, <1>3, PTL DEF M!Spec, CancelTruthful, M!CancelTruthful
=============================================================================
