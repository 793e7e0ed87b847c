--------------------------- MODULE CoRWMutexProofs ---------------------------
(***************************************************************************)
(* Proofs about CoRWMutex, for any finite set of coroutines.  A writer in  *)
(* its section owns the mutex and entered when readers_c_ was zero; a      *)
(* reader enters only when nobody owns the mutex.                          *)
(***************************************************************************)
EXTENDS CoRWMutex, QueueLemmas, FiniteSetTheorems

ReadPc == {"r_check", "r_undo", "r_cs"}
OwnPc == {"w_drain", "w_trycheck", "w_release", "w_cs"}

\* What moving one coroutine does to the set of counted readers.
LEMMA CountedMoves ==
    ASSUME TypeOK, NEW c \in Coroutine, NEW to \in Pc,
           pc' = [pc EXCEPT ![c] = to]
    PROVE  /\ IsFiniteSet(Counted)
           /\ Cardinality(Counted) \in Nat
           /\ pc[c] \notin ReadPc /\ to \in ReadPc
                 => Cardinality(Counted') = Cardinality(Counted) + 1
           /\ pc[c] \in ReadPc /\ to \notin ReadPc
                 => Cardinality(Counted') = Cardinality(Counted) - 1
           /\ (pc[c] \in ReadPc <=> to \in ReadPc) => Counted' = Counted
  <1>1. IsFiniteSet(Counted) /\ Cardinality(Counted) \in Nat
    BY CoroutineAssumption, FS_Subset, FS_CardinalityType DEF Counted
  <1>2. pc'[c] = to /\ \A d \in Coroutine : d # c => pc'[d] = pc[d]
    BY DEF TypeOK
  <1>3. ASSUME pc[c] \notin ReadPc, to \in ReadPc
        PROVE  Cardinality(Counted') = Cardinality(Counted) + 1
    <2>1. Counted' = Counted \cup {c} /\ c \notin Counted
      BY <1>2, <1>3 DEF Counted, ReadPc
    <2> QED BY <2>1, <1>1, FS_AddElement
  <1>4. ASSUME pc[c] \in ReadPc, to \notin ReadPc
        PROVE  Cardinality(Counted') = Cardinality(Counted) - 1
    <2>1. Counted' = Counted \ {c} /\ c \in Counted
      BY <1>2, <1>4 DEF Counted, ReadPc
    <2> QED BY <2>1, <1>1, FS_RemoveElement
  <1>5. ASSUME pc[c] \in ReadPc <=> to \in ReadPc PROVE Counted' = Counted
    BY <1>2, <1>5 DEF Counted, ReadPc
  <1> QED BY <1>1, <1>3, <1>4, <1>5

\* readers_c_ stays exact when it follows the move.
LEMMA ReadersStep ==
    ASSUME TypeOK, ReadersExact, NEW c \in Coroutine, NEW to \in Pc,
           pc' = [pc EXCEPT ![c] = to],
           readers_c_' = readers_c_ + (IF to \in ReadPc THEN 1 ELSE 0)
                                    - (IF pc[c] \in ReadPc THEN 1 ELSE 0)
    PROVE  ReadersExact'
  <1>1. CASE pc[c] \in ReadPc <=> to \in ReadPc
    <2>1. Counted' = Counted /\ Cardinality(Counted) \in Nat
      BY <1>1, CountedMoves
    <2>2. readers_c_' = readers_c_
      BY <1>1 DEF TypeOK
    <2> QED BY <2>1, <2>2 DEF ReadersExact
  <1>2. CASE pc[c] \notin ReadPc /\ to \in ReadPc
    <2>1. readers_c_' = readers_c_ + 1
      BY <1>2 DEF TypeOK
    <2>2. Cardinality(Counted') = Cardinality(Counted) + 1
      BY <1>2, CountedMoves
    <2> QED BY <2>1, <2>2 DEF ReadersExact
  <1>3. CASE pc[c] \in ReadPc /\ to \notin ReadPc
    <2>1. readers_c_' = readers_c_ - 1
      BY <1>3 DEF TypeOK
    <2>2. Cardinality(Counted') = Cardinality(Counted) - 1
      BY <1>3, CountedMoves
    <2> QED BY <2>1, <2>2 DEF ReadersExact
  <1> QED BY <1>1, <1>2, <1>3

\* A step that leaves the mutex alone and neither starts nor ends ownership.
LEMMA LocalStep ==
    ASSUME IInv, NEW c \in Coroutine, NEW to \in Pc, UNCHANGED mtx,
           pc' = [pc EXCEPT ![c] = to],
           pc[c] # "w_wait", to \notin {"w_wait", "threw"},
           pc[c] \in OwnPc <=> to \in OwnPc
    PROVE  WaitInv' /\ MutexExact'
  <1>1. /\ pc'[c] = to
        /\ \A d \in Coroutine : d # c => pc'[d] = pc[d]
        /\ count' = count /\ waiters' = waiters /\ st' = st
    BY DEF IInv, TypeOK, mtx
  <1>2. \A d \in Coroutine : (st'[d] = "granted" \/ pc'[d] \in OwnPc)
                                <=> Owner(d)
    BY <1>1 DEF Owner, OwnPc
  <1>3. WaitInv'
    BY <1>1 DEF IInv, WaitInv
  <1>4. MutexExact'
    BY <1>1, <1>2 DEF IInv, MutexExact, Owner, OwnPc
  <1> QED BY <1>3, <1>4

\* The steps of a reader.
LEMMA ReaderIInv ==
    ASSUME IInv, NEW c \in Coroutine,
           \/ \E try \in BOOLEAN : r_lock(c, try)
           \/ r_check(c) \/ r_undo(c) \/ r_retry(c) \/ r_unlock(c)
    PROVE  IInv'
  <1>0. TypeOK /\ ReadersExact
    BY DEF IInv
  <1>1. PICK to \in {"idle", "r_check", "r_undo", "r_sleep", "r_cs"} :
           /\ UNCHANGED mtx
           /\ pc' = [pc EXCEPT ![c] = to]
           /\ pc[c] \in {"idle", "r_check", "r_undo", "r_sleep", "r_cs"}
           /\ readers_c_' = readers_c_ + (IF to \in ReadPc THEN 1 ELSE 0)
                                       - (IF pc[c] \in ReadPc THEN 1 ELSE 0)
           /\ trying' \in [Coroutine -> BOOLEAN]
           /\ to = "r_cs" => count # 0
    <2>1. CASE \E try \in BOOLEAN : r_lock(c, try)
      BY <1>0, <2>1 DEF r_lock, Goto, ReadPc, TypeOK
    <2>2. CASE r_check(c)
      BY <1>0, <2>2 DEF r_check, Goto, ReadPc, TypeOK, is_lock
    <2>3. CASE r_undo(c)
      <3>1. PICK to \in {"idle", "r_sleep"} :
               /\ pc[c] = "r_undo" /\ pc' = [pc EXCEPT ![c] = to]
               /\ readers_c_' = readers_c_ - 1
               /\ UNCHANGED mtx
        BY <2>3 DEF r_undo, Goto
      <3>2. trying' \in [Coroutine -> BOOLEAN]
        BY <1>0, <2>3 DEF r_undo, TypeOK
      <3>3. readers_c_ - 1 = readers_c_ + 0 - 1
        BY <1>0 DEF TypeOK
      <3> QED BY <3>1, <3>2, <3>3 DEF ReadPc
    <2>4. CASE r_retry(c)
      BY <1>0, <2>4 DEF r_retry, Goto, ReadPc, TypeOK
    <2>5. CASE r_unlock(c)
      BY <1>0, <2>5 DEF r_unlock, Goto, ReadPc, TypeOK
    <2> QED BY <2>1, <2>2, <2>3, <2>4, <2>5
  <1>2. to \in Pc
    BY DEF Pc
  <1>3. TypeOK'
    BY <1>0, <1>1, <1>2 DEF TypeOK, mtx
  <1>4. WaitInv' /\ MutexExact'
    BY <1>1, <1>2, LocalStep DEF OwnPc
  <1>5. ReadersExact'
    BY <1>0, <1>1, <1>2, ReadersStep
  <1>6. Exclusion'
    <2>1. pc'[c] = to /\ \A d \in Coroutine : d # c => pc'[d] = pc[d]
      BY <1>0, <1>1 DEF TypeOK
    <2>2. to = "r_cs" => \A d \in Coroutine : pc[d] # "w_cs"
      BY <1>1 DEF IInv, MutexExact, Owner
    <2> QED BY <1>1, <2>1, <2>2 DEF IInv, Exclusion
  <1> QED BY <1>3, <1>4, <1>5, <1>6 DEF IInv

\* The writer finds readers_c_ zero, or gives up.
LEMMA DrainIInv ==
    ASSUME IInv, NEW c \in Coroutine, w_drain(c) \/ w_trycheck(c)
    PROVE  IInv'
  <1>0. TypeOK /\ ReadersExact
    BY DEF IInv
  <1>1. PICK to \in {"w_cs", "w_release"} :
           /\ UNCHANGED <<mtx, readers_c_, trying>>
           /\ pc' = [pc EXCEPT ![c] = to]
           /\ pc[c] \in {"w_drain", "w_trycheck"}
           /\ to = "w_cs" => readers_c_ = 0
    BY DEF w_drain, w_trycheck, Goto
  <1>2. to \in Pc
    BY DEF Pc
  <1>3. TypeOK'
    BY <1>0, <1>1, <1>2 DEF TypeOK, mtx
  <1>4. WaitInv' /\ MutexExact'
    BY <1>1, <1>2, LocalStep DEF OwnPc
  <1>5. ReadersExact'
    <2>1. pc[c] \notin ReadPc /\ to \notin ReadPc
      BY <1>1 DEF ReadPc
    <2>2. readers_c_' = readers_c_ + 0 - 0
      BY <1>0, <1>1 DEF TypeOK
    <2> QED BY <1>0, <1>1, <1>2, <2>1, <2>2, ReadersStep
  <1>6. Exclusion'
    <2>1. pc'[c] = to /\ \A d \in Coroutine : d # c => pc'[d] = pc[d]
      BY <1>0, <1>1 DEF TypeOK
    <2>2. \A d \in Coroutine : d # c => pc[d] # "w_cs"
      BY <1>1 DEF IInv, MutexExact, Owner
    <2>3. to = "w_cs" => \A d \in Coroutine : pc[d] # "r_cs"
      <3>1. IsFiniteSet(Counted)
        BY CoroutineAssumption, FS_Subset DEF Counted
      <3>2. to = "w_cs" => Counted = {}
        BY <1>0, <1>1, <3>1, FS_EmptySet DEF ReadersExact
      <3> QED BY <3>2 DEF Counted
    <2> QED BY <1>1, <2>1, <2>2, <2>3 DEF IInv, Exclusion
  <1> QED BY <1>3, <1>4, <1>5, <1>6 DEF IInv

\* Facts every step on the mutex needs: readers stay as they are, and a move
\* to a place outside both sections keeps exclusion.
LEMMA MutexStep ==
    ASSUME IInv, NEW c \in Coroutine, NEW to \in Pc,
           pc' = [pc EXCEPT ![c] = to], UNCHANGED <<readers_c_, trying>>,
           pc[c] \notin ReadPc, to \notin ReadPc, to # "w_cs"
    PROVE  /\ ReadersExact' /\ Exclusion'
           /\ pc' \in [Coroutine -> Pc] /\ pc'[c] = to
           /\ \A d \in Coroutine : d # c => pc'[d] = pc[d]
  <1>1. /\ pc' \in [Coroutine -> Pc] /\ pc'[c] = to
        /\ \A d \in Coroutine : d # c => pc'[d] = pc[d]
    BY DEF IInv, TypeOK
  <1>2. ReadersExact'
    <2>1. TypeOK /\ ReadersExact
      BY DEF IInv
    <2>2. readers_c_' = readers_c_ + 0 - 0
      BY <2>1 DEF TypeOK
    <2> QED BY <2>1, <2>2, ReadersStep
  <1>3. Exclusion'
    BY <1>1 DEF IInv, Exclusion, ReadPc
  <1> QED BY <1>1, <1>2, <1>3

\* mtx_.lock(): the mutex is taken or the coroutine queued.
LEMMA WLockIInv == ASSUME IInv, NEW c \in Coroutine, w_lock(c) PROVE IInv'
  <1>0. /\ TypeOK /\ pc[c] = "idle" /\ st[c] = "idle"
        /\ pc' = [pc EXCEPT ![c] = "w_wait"]
        /\ UNCHANGED <<readers_c_, trying>>
    BY DEF w_lock, Goto, IInv, M!Wait
  <1>1. /\ ReadersExact' /\ Exclusion'
        /\ pc' \in [Coroutine -> Pc] /\ pc'[c] = "w_wait"
        /\ \A d \in Coroutine : d # c => pc'[d] = pc[d]
    BY <1>0, MutexStep DEF Pc, ReadPc
  <1>2. CASE /\ count > 0
             /\ count' = count - 1
             /\ st' = [st EXCEPT ![c] = "granted"]
             /\ UNCHANGED waiters
    <2>1. /\ count' = 0 /\ waiters' = waiters
          /\ st' \in [Coroutine -> M!ClientState] /\ st'[c] = "granted"
          /\ \A d \in Coroutine : d # c => st'[d] = st[d]
          /\ waiters = <<>>
      BY <1>0, <1>2 DEF IInv, WaitInv, TypeOK, M!ClientState
    <2>2. \A d \in Coroutine : ~Owner(d)
      BY <1>2 DEF IInv, MutexExact
    <2>3. TypeOK'
      BY <1>0, <1>1, <2>1 DEF TypeOK
    <2>4. WaitInv'
      BY <1>0, <1>1, <2>1 DEF IInv, WaitInv
    <2>5. MutexExact'
      BY <1>0, <1>1, <2>1, <2>2 DEF IInv, MutexExact, Owner
    <2> QED BY <1>1, <2>3, <2>4, <2>5 DEF IInv
  <1>3. CASE /\ count = 0
             /\ waiters' = Append(waiters, c)
             /\ st' = [st EXCEPT ![c] = "waiting"]
             /\ UNCHANGED count
    <2>1. /\ count' = 0
          /\ st' \in [Coroutine -> M!ClientState] /\ st'[c] = "waiting"
          /\ \A d \in Coroutine : d # c => st'[d] = st[d]
      BY <1>0, <1>3 DEF IInv, TypeOK, M!ClientState
    <2>2. NoDup(waiters) /\ ~Member(waiters, c) /\ waiters \in Seq(Coroutine)
      BY <1>0 DEF IInv, WaitInv, TypeOK
    <2>3. /\ waiters' \in Seq(Coroutine)
          /\ \A x : Member(waiters', x) <=> Member(waiters, x) \/ x = c
          /\ NoDup(waiters')
      BY <1>3, <2>2, QueueAppend
    <2>4. TypeOK'
      BY <1>0, <1>1, <2>1, <2>3 DEF TypeOK
    <2>5. WaitInv'
      BY <1>0, <1>1, <2>1, <2>3 DEF IInv, WaitInv
    <2>6. \A d \in Coroutine : Owner(d)' <=> Owner(d)
      BY <1>0, <1>1, <2>1 DEF Owner
    <2>7. MutexExact'
      BY <1>1, <1>3, <2>1, <2>6 DEF IInv, MutexExact
    <2> QED BY <1>1, <2>4, <2>5, <2>7 DEF IInv
  <1> QED BY <1>2, <1>3 DEF w_lock, M!Wait

\* The wait returns with the mutex.
LEMMA WLockedIInv == ASSUME IInv, NEW c \in Coroutine, w_locked(c) PROVE IInv'
  <1>0. /\ TypeOK /\ pc[c] = "w_wait" /\ st[c] = "granted"
        /\ pc' = [pc EXCEPT ![c] = "w_drain"]
        /\ UNCHANGED <<readers_c_, trying>>
        /\ UNCHANGED <<count, waiters>>
        /\ st' = [st EXCEPT ![c] = "idle"]
    BY DEF w_locked, Goto, IInv, WaitInv, M!Return
  <1>1. /\ ReadersExact' /\ Exclusion'
        /\ pc' \in [Coroutine -> Pc] /\ pc'[c] = "w_drain"
        /\ \A d \in Coroutine : d # c => pc'[d] = pc[d]
    BY <1>0, MutexStep DEF Pc, ReadPc
  <1>2. /\ st' \in [Coroutine -> M!ClientState] /\ st'[c] = "idle"
        /\ \A d \in Coroutine : d # c => st'[d] = st[d]
    BY <1>0 DEF TypeOK, M!ClientState
  <1>3. TypeOK'
    BY <1>0, <1>1, <1>2 DEF TypeOK
  <1>4. WaitInv'
    BY <1>0, <1>1, <1>2 DEF IInv, WaitInv
  <1>5. \A d \in Coroutine : Owner(d)' <=> Owner(d)
    BY <1>0, <1>1, <1>2 DEF Owner
  <1>6. MutexExact'
    BY <1>0, <1>1, <1>5 DEF IInv, MutexExact
  <1> QED BY <1>1, <1>3, <1>4, <1>6 DEF IInv

\* mtx_.try_lock() succeeds.
LEMMA WTryLockIInv == ASSUME IInv, NEW c \in Coroutine, w_try_lock(c) PROVE IInv'
  <1>0. /\ TypeOK /\ pc[c] = "idle" /\ count > 0
        /\ pc' = [pc EXCEPT ![c] = "w_trycheck"]
        /\ UNCHANGED <<readers_c_, trying>>
        /\ UNCHANGED <<waiters, st>>
        /\ count' = count - 1
    BY DEF w_try_lock, Goto, IInv, M!Take
  <1>1. /\ ReadersExact' /\ Exclusion'
        /\ pc' \in [Coroutine -> Pc] /\ pc'[c] = "w_trycheck"
        /\ \A d \in Coroutine : d # c => pc'[d] = pc[d]
    BY <1>0, MutexStep DEF Pc, ReadPc
  <1>2. count' = 0
    BY <1>0 DEF IInv, WaitInv, TypeOK
  <1>3. TypeOK'
    BY <1>0, <1>1, <1>2 DEF TypeOK
  <1>4. WaitInv'
    BY <1>0, <1>1, <1>2 DEF IInv, WaitInv
  <1>5. \A d \in Coroutine : ~Owner(d)
    BY <1>0 DEF IInv, MutexExact
  <1>6. MutexExact'
    BY <1>0, <1>1, <1>2, <1>5 DEF IInv, MutexExact, Owner
  <1> QED BY <1>1, <1>3, <1>4, <1>6 DEF IInv

\* unlock hands the mutex on or stores it; it is never refused.
LEMMA UnlockIInv ==
    ASSUME IInv, NEW c \in Coroutine, NEW from \in {"w_release", "w_cs"},
           unlock(c, from), UNCHANGED <<readers_c_, trying>>
    PROVE  IInv'
  <1>0. TypeOK /\ pc[c] = from
    BY DEF unlock, Goto, IInv
  <1>1. /\ Owner(c) /\ count = 0 /\ st[c] = "idle"
        /\ \A d \in Coroutine : Owner(d) => d = c
    BY <1>0 DEF IInv, MutexExact, WaitInv, Owner
  <1>2. pc' = [pc EXCEPT ![c] = "idle"] /\ (M!Grant \/ M!Store)
    BY <1>1 DEF unlock, Goto, M!Refuse
  <1>3. /\ ReadersExact' /\ Exclusion'
        /\ pc' \in [Coroutine -> Pc] /\ pc'[c] = "idle"
        /\ \A d \in Coroutine : d # c => pc'[d] = pc[d]
    BY <1>0, <1>2, MutexStep DEF Pc, ReadPc
  <1>4. CASE M!Grant
    <2>0. /\ waiters # <<>>
          /\ waiters' = Tail(waiters)
          /\ st' = [st EXCEPT ![Head(waiters)] = "granted"]
          /\ count' = count
      BY <1>4 DEF M!Grant
    <2>1. waiters \in Seq(Coroutine) /\ NoDup(waiters)
      BY <1>0 DEF TypeOK, IInv, WaitInv
    <2>2. PICK h : h = Head(waiters)
      OBVIOUS
    <2>3. /\ h \in Coroutine /\ Member(waiters, h)
          /\ waiters' \in Seq(Coroutine) /\ NoDup(waiters')
          /\ \A x : Member(waiters', x) <=> Member(waiters, x) /\ x # h
      BY <2>0, <2>1, <2>2, QueueTail
    <2>4. st[h] = "waiting" /\ pc[h] = "w_wait" /\ h # c
      BY <1>1, <2>3 DEF IInv, WaitInv
    <2>5. /\ st' \in [Coroutine -> M!ClientState] /\ st'[h] = "granted"
          /\ \A d \in Coroutine : d # h => st'[d] = st[d]
      BY <1>0, <2>0, <2>2, <2>3 DEF TypeOK, M!ClientState
    <2>6. TypeOK'
      BY <1>0, <1>3, <2>0, <2>3, <2>5 DEF TypeOK
    <2>7. WaitInv'
      BY <1>0, <1>1, <1>3, <2>0, <2>3, <2>4, <2>5 DEF IInv, WaitInv
    <2>8. \A d \in Coroutine : Owner(d)' <=> d = h
      BY <1>0, <1>1, <1>3, <2>3, <2>4, <2>5 DEF Owner
    <2>9. MutexExact'
      BY <1>1, <1>3, <2>0, <2>3, <2>8 DEF IInv, MutexExact
    <2> QED BY <1>3, <2>6, <2>7, <2>9 DEF IInv
  <1>5. CASE M!Store
    <2>0. /\ waiters = <<>> /\ UNCHANGED <<waiters, st>>
          /\ count' = 1
      BY <1>1, <1>5 DEF M!Store
    <2>1. TypeOK'
      BY <1>0, <1>3, <2>0 DEF TypeOK
    <2>2. WaitInv'
      BY <1>0, <1>1, <1>3, <2>0 DEF IInv, WaitInv
    <2>3. \A d \in Coroutine : ~Owner(d)'
      BY <1>1, <1>3, <2>0 DEF Owner
    <2>4. MutexExact'
      BY <1>3, <2>0, <2>3 DEF IInv, MutexExact
    <2> QED BY <1>3, <2>1, <2>2, <2>4 DEF IInv
  <1> QED BY <1>2, <1>4, <1>5

\* The initial state satisfies the invariant.
LEMMA InitIInv == Init => IInv
  <1> SUFFICES ASSUME Init PROVE IInv
    OBVIOUS
  <1>1. /\ count = 1 /\ waiters = <<>> /\ readers_c_ = 0
        /\ \A c \in Coroutine : st[c] = "idle" /\ pc[c] = "idle"
    BY DEF Init, M!Init
  <1>2. TypeOK
    BY DEF Init, M!Init, TypeOK, Pc, M!ClientState
  <1>3. WaitInv
    BY <1>1 DEF WaitInv, Member, NoDup
  <1>4. MutexExact /\ Exclusion
    BY <1>1 DEF MutexExact, Exclusion, Owner
  <1>5. Counted = {}
    BY <1>1 DEF Counted
  <1>6. ReadersExact
    BY <1>1, <1>5, FS_EmptySet DEF ReadersExact
  <1> QED BY <1>2, <1>3, <1>4, <1>6 DEF IInv

\* Every step keeps the invariant.
LEMMA NextIInv == IInv /\ [Next]_vars => IInv'
  <1> SUFFICES ASSUME IInv, [Next]_vars PROVE IInv'
    OBVIOUS
  <1>1. ASSUME NEW c \in Coroutine, NewCall(c) PROVE IInv'
    BY <1>1, ReaderIInv, WLockIInv, WTryLockIInv DEF NewCall
  <1>2. ASSUME NEW c \in Coroutine, Step(c) PROVE IInv'
    <2>1. CASE r_check(c) \/ r_undo(c) \/ r_retry(c) \/ r_unlock(c)
      BY <2>1, ReaderIInv
    <2>2. CASE w_locked(c)
      BY <2>2, WLockedIInv
    <2>3. CASE w_drain(c) \/ w_trycheck(c)
      BY <2>3, DrainIInv
    <2>4. CASE w_release(c)
      BY <2>4, UnlockIInv DEF w_release
    <2>5. CASE w_unlock(c)
      BY <2>5, UnlockIInv DEF w_unlock
    <2> QED BY <1>2, <2>1, <2>2, <2>3, <2>4, <2>5 DEF Step
  <1>3. CASE UNCHANGED vars
    <2>1. UNCHANGED <<count, waiters, st, readers_c_, pc, trying>>
      BY <1>3 DEF vars, mtx
    <2>2. Counted' = Counted
      BY <2>1 DEF Counted
    <2>3. TypeOK' /\ WaitInv' /\ Exclusion'
      BY <2>1 DEF IInv, TypeOK, WaitInv, Exclusion
    <2>4. MutexExact' /\ ReadersExact'
      BY <2>1, <2>2 DEF IInv, MutexExact, ReadersExact, Owner
    <2> QED BY <2>3, <2>4 DEF IInv
  <1> QED BY <1>1, <1>2, <1>3 DEF Next

\* A writer excludes every other writer and every reader, readers_c_ is the
\* number of readers that count themselves, and the mutex is locked exactly
\* while one coroutine owns it, so that no unlock throws.
THEOREM CoRWMutexSafe ==
    Spec => [](TypeOK /\ Exclusion /\ ReadersExact /\ MutexExact)
  <1>1. IInv => TypeOK /\ Exclusion /\ ReadersExact /\ MutexExact
    BY DEF IInv
  <1> QED BY <1>1, InitIInv, NextIInv, PTL DEF Spec

\* readers_c_ never drops below the readers it stands for, and no unlock throws
\* ec_mutex_double_unlock, on any path of r_lock, w_try_lock and the unlocks.
THEOREM CoRWMutexCountsExact == Spec => []CountsExact
  <1>1. IInv => CountsExact
    BY DEF IInv, CountsExact
  <1> QED BY <1>1, InitIInv, NextIInv, PTL DEF Spec
=============================================================================
