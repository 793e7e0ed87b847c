---------------------------- MODULE ChannelProofs ----------------------------
(***************************************************************************)
(* Proofs about Channel, for any finite sets of coroutines and threads and *)
(* any capacity.  Two balances are followed: places, which CallPop opens   *)
(* and Push uses up, and elements, which PushSignal announces.  No step    *)
(* raises either; without threads no step lowers one.                      *)
(***************************************************************************)
EXTENDS ChannelCast, QueueLemmas, FiniteSetTheorems

States == {"idle", "waiting", "granted", "timedout"}

\* A semaphore in itself.
SemState(count, waiters, st) ==
    /\ count \in Nat /\ waiters \in Seq(Coroutine) /\ st \in [Coroutine -> States]
    /\ NoDup(waiters)
    /\ \A c \in Coroutine : Member(waiters, c) <=> st[c] = "waiting"
    /\ count > 0 => waiters = <<>>

\* A semaphore and the coroutines that are in it.
AtPlace(st, place) == \A c \in Coroutine : st[c] # "idle" <=> pc[c] = place

Granted(st) == Cardinality({c \in Coroutine : st[c] = "granted"})
N(S) == Cardinality(At(S))
\* The signals of a semaphore, stored or granted and not yet noticed.
Signals(count, st) == count + Granted(st)

One(b) == IF b THEN 1 ELSE 0
-----------------------------------------------------------------------------
(* Counting.                                                               *)

\* Sets that differ in one element at most.
LEMMA CardChange ==
    ASSUME NEW S, NEW T, NEW c, IsFiniteSet(S),
           \A d : d # c => (d \in T <=> d \in S)
    PROVE  /\ IsFiniteSet(T) /\ Cardinality(S) \in Nat /\ Cardinality(T) \in Nat
           /\ Cardinality(T) = Cardinality(S) + One(c \in T) - One(c \in S)
  <1>1. Cardinality(S) \in Nat
    BY FS_CardinalityType
  <1>2. CASE c \in T <=> c \in S
    <2>1. T = S
      BY <1>2
    <2> QED BY <1>1, <2>1 DEF One
  <1>3. CASE c \in T /\ c \notin S
    <2>1. T = S \cup {c}
      BY <1>3
    <2> QED BY <1>1, <1>3, <2>1, FS_AddElement DEF One
  <1>4. CASE c \notin T /\ c \in S
    <2>1. T = S \ {c}
      BY <1>4
    <2>2. IsFiniteSet(T) /\ Cardinality(T) = Cardinality(S) - 1
      BY <1>4, <2>1, FS_RemoveElement
    <2>3. Cardinality(T) \in Nat
      BY <2>2, FS_CardinalityType
    <2> QED BY <1>1, <1>4, <2>2, <2>3 DEF One
  <1> QED BY <1>2, <1>3, <1>4

LEMMA ClientFinite == IsFiniteSet(Coroutine) /\ IsFiniteSet(Client)
  BY ChannelAssumption, FS_Union DEF Client

LEMMA GrantedNat == ASSUME NEW st PROVE Granted(st) \in Nat
  BY ClientFinite, FS_Subset, FS_CardinalityType DEF Granted

LEMMA SetGranted ==
    ASSUME NEW st \in [Coroutine -> States], NEW c \in Coroutine, NEW v \in States
    PROVE  Granted([st EXCEPT ![c] = v])
              = Granted(st) + One(v = "granted") - One(st[c] = "granted")
  <1> DEFINE S == {d \in Coroutine : st[d] = "granted"}
             T == {d \in Coroutine : [st EXCEPT ![c] = v][d] = "granted"}
  <1>1. IsFiniteSet(S)
    BY ClientFinite, FS_Subset
  <1>2. /\ \A d : d # c => (d \in T <=> d \in S)
        /\ (c \in T <=> v = "granted") /\ (c \in S <=> st[c] = "granted")
    OBVIOUS
  <1> HIDE DEF S, T
  <1>3. Cardinality(T) = Cardinality(S) + One(c \in T) - One(c \in S)
    BY <1>1, <1>2, CardChange
  <1>4. Cardinality(T) = Cardinality(S) + One(v = "granted") - One(st[c] = "granted")
    BY <1>2, <1>3 DEF One
  <1> QED BY <1>4 DEF Granted, S, T

LEMMA GrantedNext ==
    ASSUME NEW st \in [Coroutine -> States], NEW c \in Coroutine, NEW v \in States,
           st[c] # "granted"
    PROVE  Granted([st EXCEPT ![c] = v]) = IF v = "granted" THEN Granted(st) + 1 ELSE Granted(st)
  <1>1. Granted([st EXCEPT ![c] = v])
           = Granted(st) + One(v = "granted") - One(st[c] = "granted")
    BY SetGranted
  <1>2. Granted(st) \in Nat
    BY GrantedNat
  <1> QED BY <1>1, <1>2 DEF One

LEMMA PlaceNat == ASSUME NEW S PROVE N(S) \in Nat
  BY ClientFinite, FS_Subset, FS_CardinalityType DEF N, At

\* A client goes on to another place.
LEMMA PlaceMoves ==
    ASSUME NEW c \in Client, NEW to, pc \in [Client -> ClientPc],
           pc' = [pc EXCEPT ![c] = to], NEW S
    PROVE  N(S)' = N(S) + One(to \in S) - One(pc[c] \in S)
  <1>1. IsFiniteSet(At(S))
    BY ClientFinite, FS_Subset DEF At
  <1>2. /\ \A d : d # c => (d \in At(S)' <=> d \in At(S))
        /\ (c \in At(S)' <=> to \in S) /\ (c \in At(S) <=> pc[c] \in S)
    BY DEF At
  <1>3. Cardinality(At(S)') = Cardinality(At(S)) + One(c \in At(S)') - One(c \in At(S))
    BY <1>1, <1>2, CardChange
  <1> QED BY <1>2, <1>3 DEF N, One
-----------------------------------------------------------------------------
(* What the operations of a semaphore do to it.                            *)

LEMMA SemJoin ==
    ASSUME NEW waiters, NEW st, SemState(0, waiters, st),
           NEW c \in Coroutine, st[c] = "idle"
    PROVE  SemState(0, Append(waiters, c), [st EXCEPT ![c] = "waiting"])
  <1>1. waiters \in Seq(Coroutine) /\ NoDup(waiters) /\ ~Member(waiters, c)
    BY DEF SemState
  <1>2. /\ Append(waiters, c) \in Seq(Coroutine) /\ NoDup(Append(waiters, c))
        /\ \A x : Member(Append(waiters, c), x) <=> Member(waiters, x) \/ x = c
    BY <1>1, QueueAppend
  <1> QED BY <1>2 DEF SemState, States

LEMMA SemGrant ==
    ASSUME NEW count, NEW waiters, NEW st, SemState(count, waiters, st), waiters # <<>>
    PROVE  /\ Head(waiters) \in Coroutine /\ st[Head(waiters)] = "waiting"
           /\ SemState(count, Tail(waiters), [st EXCEPT ![Head(waiters)] = "granted"])
  <1>1. waiters \in Seq(Coroutine) /\ NoDup(waiters)
    BY DEF SemState
  <1>2. /\ Tail(waiters) \in Seq(Coroutine) /\ NoDup(Tail(waiters))
        /\ Head(waiters) \in Coroutine /\ Member(waiters, Head(waiters))
        /\ \A x : Member(Tail(waiters), x) <=> Member(waiters, x) /\ x # Head(waiters)
    BY <1>1, QueueTail
  <1> QED BY <1>2 DEF SemState, States

LEMMA SemGiveUp ==
    ASSUME NEW count, NEW waiters, NEW st, SemState(count, waiters, st),
           NEW k \in 1..Len(waiters)
    PROVE  /\ waiters[k] \in Coroutine /\ st[waiters[k]] = "waiting"
           /\ SemState(count, Without(waiters, k), [st EXCEPT ![waiters[k]] = "timedout"])
  <1>1. waiters \in Seq(Coroutine) /\ NoDup(waiters) /\ waiters # <<>>
    BY DEF SemState
  <1>2. /\ Without(waiters, k) \in Seq(Coroutine) /\ NoDup(Without(waiters, k))
        /\ \A x : Member(Without(waiters, k), x) <=> Member(waiters, x) /\ x # waiters[k]
    BY <1>1, QueueWithout
  <1>3. waiters[k] \in Coroutine /\ Member(waiters, waiters[k])
    BY <1>1 DEF Member
  <1> QED BY <1>1, <1>2, <1>3 DEF SemState, States

LEMMA SemSet ==
    ASSUME NEW count, NEW waiters, NEW st, SemState(count, waiters, st),
           NEW c \in Coroutine, NEW v \in States,
           st[c] # "waiting", v # "waiting"
    PROVE  SemState(count, waiters, [st EXCEPT ![c] = v])
  BY DEF SemState

LEMMA SignalsNat ==
    ASSUME NEW count, NEW waiters, NEW st, SemState(count, waiters, st)
    PROVE  Signals(count, st) \in Nat
  BY GrantedNat DEF SemState, Signals

LEMMA SemCount ==
    ASSUME NEW count, NEW waiters, NEW st, SemState(count, waiters, st),
           NEW m \in Nat, m > 0 => waiters = <<>>
    PROVE  SemState(m, waiters, st)
  BY DEF SemState

\* A wait takes a stored signal.
LEMMA SemWaitTakes ==
    ASSUME NEW count, NEW waiters, NEW st, SemState(count, waiters, st),
           NEW c \in Coroutine, st[c] = "idle", count > 0
    PROVE  /\ SemState(count - 1, waiters, [st EXCEPT ![c] = "granted"])
           /\ Signals(count - 1, [st EXCEPT ![c] = "granted"]) = Signals(count, st)
  <1>0. count \in Nat /\ st \in [Coroutine -> States] /\ Granted(st) \in Nat
    BY GrantedNat DEF SemState
  <1>1. SemState(count - 1, waiters, st)
    BY <1>0, SemCount DEF SemState
  <1>2. SemState(count - 1, waiters, [st EXCEPT ![c] = "granted"])
    BY <1>1, SemSet DEF States
  <1>3. Granted([st EXCEPT ![c] = "granted"]) = Granted(st) + 1
    BY <1>0, GrantedNext DEF States
  <1> QED BY <1>0, <1>2, <1>3 DEF Signals

\* A wait without one joins the queue.
LEMMA SemWaitJoins ==
    ASSUME NEW count, NEW waiters, NEW st, SemState(count, waiters, st),
           NEW c \in Coroutine, st[c] = "idle", count = 0
    PROVE  /\ SemState(count, Append(waiters, c), [st EXCEPT ![c] = "waiting"])
           /\ Signals(count, [st EXCEPT ![c] = "waiting"]) = Signals(count, st)
  <1>0. st \in [Coroutine -> States]
    BY DEF SemState
  <1>1. SemState(count, Append(waiters, c), [st EXCEPT ![c] = "waiting"])
    BY SemJoin
  <1>2. Granted([st EXCEPT ![c] = "waiting"]) = Granted(st)
    BY <1>0, GrantedNext DEF States
  <1> QED BY <1>1, <1>2 DEF Signals

\* A signal is granted to the first waiter.
LEMMA SemSignalGrants ==
    ASSUME NEW count, NEW waiters, NEW st, SemState(count, waiters, st), waiters # <<>>
    PROVE  /\ Head(waiters) \in Coroutine /\ st[Head(waiters)] = "waiting"
           /\ SemState(count, Tail(waiters), [st EXCEPT ![Head(waiters)] = "granted"])
           /\ Signals(count, [st EXCEPT ![Head(waiters)] = "granted"])
                 = Signals(count, st) + 1
  <1>0. count \in Nat /\ st \in [Coroutine -> States] /\ Granted(st) \in Nat
    BY GrantedNat DEF SemState
  <1>1. /\ Head(waiters) \in Coroutine /\ st[Head(waiters)] = "waiting"
        /\ SemState(count, Tail(waiters), [st EXCEPT ![Head(waiters)] = "granted"])
    BY SemGrant
  <1>2. Granted([st EXCEPT ![Head(waiters)] = "granted"]) = Granted(st) + 1
    BY <1>0, <1>1, GrantedNext DEF States
  <1> QED BY <1>0, <1>1, <1>2 DEF Signals

\* A signal nobody waits for is stored.
LEMMA SemSignalStores ==
    ASSUME NEW count, NEW waiters, NEW st, SemState(count, waiters, st), waiters = <<>>
    PROVE  /\ SemState(count + 1, waiters, st)
           /\ Signals(count + 1, st) = Signals(count, st) + 1
  <1>0. count \in Nat /\ Granted(st) \in Nat
    BY GrantedNat DEF SemState
  <1>1. SemState(count + 1, waiters, st)
    BY <1>0, SemCount
  <1> QED BY <1>0, <1>1 DEF Signals

LEMMA SemTake ==
    ASSUME NEW count, NEW waiters, NEW st, SemState(count, waiters, st), count > 0
    PROVE  /\ SemState(count - 1, waiters, st)
           /\ Signals(count - 1, st) = Signals(count, st) - 1
  <1>0. count \in Nat /\ Granted(st) \in Nat
    BY GrantedNat DEF SemState
  <1>1. SemState(count - 1, waiters, st)
    BY <1>0, SemCount DEF SemState
  <1> QED BY <1>0, <1>1 DEF Signals

IsAt(c, waiters, k) == k \in 1..Len(waiters) /\ c = waiters[k]

LEMMA SemTimeout ==
    ASSUME NEW count, NEW waiters, NEW st, SemState(count, waiters, st),
           NEW k, NEW c, IsAt(c, waiters, k)
    PROVE  /\ c \in Coroutine /\ st[c] = "waiting"
           /\ SemState(count, Without(waiters, k), [st EXCEPT ![c] = "timedout"])
  BY SemGiveUp DEF IsAt

\* A wait returns; after a grant the signal is the caller's.
LEMMA SemReturn ==
    ASSUME NEW count, NEW waiters, NEW st, SemState(count, waiters, st),
           NEW c \in Coroutine, st[c] \in {"granted", "timedout"}
    PROVE  /\ SemState(count, waiters, [st EXCEPT ![c] = "idle"])
           /\ st[c] = "granted" => Signals(count, [st EXCEPT ![c] = "idle"]) = Signals(count, st) + (-1)
           /\ st[c] # "granted" => Signals(count, [st EXCEPT ![c] = "idle"]) = Signals(count, st) + 0
  <1>0. count \in Nat /\ st \in [Coroutine -> States] /\ Granted(st) \in Nat
    BY GrantedNat DEF SemState
  <1>1. SemState(count, waiters, [st EXCEPT ![c] = "idle"])
    BY SemSet DEF States
  <1>2. Granted([st EXCEPT ![c] = "idle"]) = Granted(st) + 0 - One(st[c] = "granted")
    BY <1>0, SetGranted DEF States, One
  <1> QED BY <1>0, <1>1, <1>2 DEF Signals, One
-----------------------------------------------------------------------------
(* The balances.                                                           *)

ReaderPc == {"block_r", "wait_r", "try_r", "try_w", "pop"}
Pushing == N({"push"})
Popping == N({"pop"})
Owing == N({"signal_r"})
Reading == N(ReaderPc)
Queued == Len(queue_)

AnyOp == PushOp \cup PopOp \cup {"none"}

\* Places in use or free, but for those the readers in progress opened.
Places == Signals(wcount, wst) + Pushing + Queued - Reading
\* Read signals, handed out, stored or owed, but for the elements they are for.
Elements == Signals(rcount, rst) + Popping + Owing - Queued

\* Everything but the balances.
Sound == /\ SemState(wcount, wwaiters, wst) /\ AtPlace(wst, "wait_w")
         /\ SemState(rcount, rwaiters, rst) /\ AtPlace(rst, "wait_r")
         /\ queue_ \in Seq(Client)
         /\ pc \in [Client -> ClientPc] /\ op \in [Client -> AnyOp]

LEMMA NumbersNat ==
    /\ Pushing \in Nat /\ Popping \in Nat /\ Owing \in Nat /\ Reading \in Nat
    /\ Sound => /\ Queued \in Nat
                /\ Signals(wcount, wst) \in Nat /\ Signals(rcount, rst) \in Nat
  BY PlaceNat, SignalsNat DEF Pushing, Popping, Owing, Reading, Queued, Sound

\* Those who hold a signal are at its use or have been granted it.
LEMMA HoldCount ==
    ASSUME Sound
    PROVE  /\ Cardinality(HoldW) = Pushing + Granted(wst)
           /\ Cardinality(HoldR) = Popping + Granted(rst)
  <1> DEFINE A(x) == At({x})
             G(st) == {c \in Coroutine : st[c] = "granted"}
  <1>1. \A x, st : IsFiniteSet(A(x)) /\ IsFiniteSet(G(st))
    BY ClientFinite, FS_Subset DEF At
  <1>2. HoldW = A("push") \cup G(wst) /\ A("push") \cap G(wst) = {}
    BY DEF Sound, AtPlace, HoldW, At, Client
  <1>3. HoldR = A("pop") \cup G(rst) /\ A("pop") \cap G(rst) = {}
    BY DEF Sound, AtPlace, HoldR, At, Client
  <1>4. \A S, T : IsFiniteSet(S) /\ IsFiniteSet(T) /\ S \cap T = {}
                     => Cardinality(S \cup T) = Cardinality(S) + Cardinality(T)
    <2> SUFFICES ASSUME NEW S, NEW T, IsFiniteSet(S), IsFiniteSet(T), S \cap T = {}
                 PROVE  Cardinality(S \cup T) = Cardinality(S) + Cardinality(T)
      OBVIOUS
    <2>1. Cardinality(S) \in Nat /\ Cardinality(T) \in Nat
      BY FS_CardinalityType
    <2>2. Cardinality(S \cup T) = Cardinality(S) + Cardinality(T) - Cardinality(S \cap T)
      BY FS_Union
    <2>3. Cardinality(S \cap T) = 0
      BY FS_EmptySet
    <2> QED BY <2>1, <2>2, <2>3
  <1> HIDE DEF A, G
  <1>5. /\ Cardinality(HoldW) = Cardinality(A("push")) + Cardinality(G(wst))
        /\ Cardinality(HoldR) = Cardinality(A("pop")) + Cardinality(G(rst))
    BY <1>1, <1>2, <1>3, <1>4
  <1> QED BY <1>5 DEF N, Granted, A, G, Pushing, Popping

LEMMA Balanced == IInv <=> Sound /\ Places <= Capacity /\ Elements <= 0
  <1>1. TypeOK /\ WaitInv <=> Sound
    BY DEF TypeOK, WaitInv, SemInv, Sound, SemState, AtPlace, W!ClientState, R!ClientState,
           States, AnyOp
  <1>2. ASSUME Sound
        PROVE  (PlacesBounded <=> Places <= Capacity) /\ (ReadBacked <=> Elements <= 0)
    <2>1. /\ wcount \in Nat /\ rcount \in Nat /\ Capacity \in Nat
          /\ Granted(wst) \in Nat /\ Granted(rst) \in Nat
      BY <1>2, GrantedNat, ChannelAssumption DEF Sound, SemState
    <2>2. /\ Pushing \in Nat /\ Popping \in Nat /\ Owing \in Nat
          /\ Reading \in Nat /\ Queued \in Nat
      BY <1>2, NumbersNat
    <2>3. /\ Cardinality(HoldW) = Pushing + Granted(wst)
          /\ Cardinality(HoldR) = Popping + Granted(rst)
      BY <1>2, HoldCount
    <2>4. Cardinality(Readers) = Reading /\ Cardinality(Owe) = Owing
      BY DEF N, Readers, Owe, ReaderPc, Reading, Owing
    <2>5. PlacesBounded <=> Places <= Capacity
      BY <2>1, <2>2, <2>3, <2>4 DEF PlacesBounded, Places, Signals, Queued
    <2>6. ReadBacked <=> Elements <= 0
      BY <2>1, <2>2, <2>3, <2>4 DEF ReadBacked, Elements, Signals, Queued
    <2> QED BY <2>5, <2>6
  <1> QED BY <1>1, <1>2 DEF IInv

LEMMA BalanceType == ASSUME Sound PROVE Places \in Int /\ Elements \in Int
  BY NumbersNat DEF Places, Elements

\* Client c goes on to another place; kw and kr signals come to the semaphores,
\* stored or handed out, and kq elements to the queue.
Shift(c, to, kw, kr, kq) ==
    /\ pc' = [pc EXCEPT ![c] = to]
    /\ op' \in [Client -> AnyOp] /\ queue_' \in Seq(Client)
    /\ SemState(wcount', wwaiters', wst') /\ AtPlace(wst, "wait_w")'
    /\ SemState(rcount', rwaiters', rst') /\ AtPlace(rst, "wait_r")'
    /\ Signals(wcount', wst') = Signals(wcount, wst) + kw
    /\ Signals(rcount', rst') = Signals(rcount, rst) + kr
    /\ Queued' = Queued + kq

\* What that does to the balances.
LEMMA Moves ==
    ASSUME Sound, NEW c \in Client, NEW to \in ClientPc,
           NEW kw \in Int, NEW kr \in Int, NEW kq \in Int, Shift(c, to, kw, kr, kq)
    PROVE  /\ Sound'
           /\ Places' = Places + kw + kq + One(to = "push") - One(pc[c] = "push")
                               - One(to \in ReaderPc) + One(pc[c] \in ReaderPc)
           /\ Elements' = Elements + kr - kq + One(to = "pop") - One(pc[c] = "pop")
                                   + One(to = "signal_r") - One(pc[c] = "signal_r")
  <1>0. pc \in [Client -> ClientPc] /\ pc' = [pc EXCEPT ![c] = to]
    BY DEF Sound, Shift
  <1>1. Sound'
    <2>1. pc' \in [Client -> ClientPc]
      BY <1>0
    <2> QED BY <2>1 DEF Sound, Shift
  <1>2. /\ Signals(wcount, wst) \in Nat /\ Signals(rcount, rst) \in Nat
        /\ Pushing \in Nat /\ Popping \in Nat /\ Owing \in Nat
        /\ Reading \in Nat /\ Queued \in Nat
    BY NumbersNat
  <1>5. /\ Pushing' = Pushing + One(to = "push") - One(pc[c] = "push")
        /\ Popping' = Popping + One(to = "pop") - One(pc[c] = "pop")
        /\ Owing' = Owing + One(to = "signal_r") - One(pc[c] = "signal_r")
    <2>1. \A x : N({x})' = N({x}) + One(to = x) - One(pc[c] = x)
      <3> TAKE x
      <3>1. N({x})' = N({x}) + One(to \in {x}) - One(pc[c] \in {x})
        BY <1>0, PlaceMoves
      <3> QED BY <3>1 DEF One
    <2> QED BY <2>1 DEF Pushing, Popping, Owing
  <1>6. Reading' = Reading + One(to \in ReaderPc) - One(pc[c] \in ReaderPc)
    BY <1>0, PlaceMoves DEF ReaderPc, Reading
  <1>7. /\ Places' = Signals(wcount', wst') + Pushing' + Queued' - Reading'
        /\ Elements' = Signals(rcount', rst') + Popping' + Owing' - Queued'
    BY DEF Places, Elements
  <1>8. /\ Signals(wcount', wst') = Signals(wcount, wst) + kw
        /\ Signals(rcount', rst') = Signals(rcount, rst) + kr
        /\ Queued' = Queued + kq
    BY DEF Shift
  <1>9. Places = Signals(wcount, wst) + Pushing + Queued - Reading
    BY DEF Places
  <1>10. Elements = Signals(rcount, rst) + Popping + Owing - Queued
    BY DEF Elements
  <1> DEFINE In(x) == One(to = x)
             Out(x) == One(pc[c] = x)
             Enters == One(to \in ReaderPc)
             Leaves == One(pc[c] \in ReaderPc)
  <1>11. /\ \A x : In(x) \in Int /\ Out(x) \in Int
         /\ Enters \in Int /\ Leaves \in Int
    BY DEF One
  <1>12. /\ Pushing' = Pushing + In("push") - Out("push")
         /\ Popping' = Popping + In("pop") - Out("pop")
         /\ Owing' = Owing + In("signal_r") - Out("signal_r")
         /\ Reading' = Reading + Enters - Leaves
    BY <1>5, <1>6
  <1> HIDE DEF In, Out, Enters, Leaves
  <1>13. Places' = Places + kw + kq + In("push") - Out("push") - Enters + Leaves
    BY <1>2, <1>7, <1>8, <1>9, <1>11, <1>12
  <1>14. Elements' = Elements + kr - kq + In("pop") - Out("pop")
                              + In("signal_r") - Out("signal_r")
    BY <1>2, <1>7, <1>8, <1>10, <1>11, <1>12
  <1> QED BY <1>1, <1>13, <1>14 DEF In, Out, Enters, Leaves
-----------------------------------------------------------------------------
(* The steps of a client.                                                  *)

\* A step raises neither balance, and with no thread and no full semaphore
\* lowers neither.
Kept(c) == /\ Sound' /\ Places' \in Int /\ Elements' \in Int
           /\ Places' <= Places /\ Elements' <= Elements
           /\ c \in Coroutine /\ wcount < SizeMax /\ rcount < SizeMax
                 => Places' = Places /\ Elements' = Elements

\* Where a client goes.
MovesTo(c, to) == /\ to \in ClientPc
                  /\ pc' = [pc EXCEPT ![c] = to] /\ op' \in [Client -> AnyOp]

LEMMA GotoMoves ==
    ASSUME Sound, NEW c \in Client, NEW from, NEW to \in ClientPc, Goto(c, from, to)
    PROVE  MovesTo(c, to) /\ pc[c] = from
  BY DEF Sound, Goto, MovesTo, AnyOp

LEMMA CallMoves ==
    ASSUME Sound, NEW c \in Client, NEW k \in AnyOp, NEW to \in ClientPc, Call(c, k, to)
    PROVE  MovesTo(c, to) /\ pc[c] = "idle"
  BY DEF Sound, Call, MovesTo

\* The coroutines in a semaphore stay the ones at its place.
LEMMA AtMoves ==
    ASSUME Sound, NEW c \in Client, NEW to, MovesTo(c, to), NEW st, NEW st2, NEW place,
           AtPlace(st, place),
           \A d \in Coroutine : d # c => (st2[d] = "idle" <=> st[d] = "idle"),
           c \in Coroutine => (st2[c] = "idle" <=> to # place)
    PROVE  \A d \in Coroutine : st2[d] # "idle" <=> pc'[d] = place
  <1>1. pc'[c] = to /\ \A d \in Client : d # c => pc'[d] = pc[d]
    BY DEF Sound, MovesTo
  <1> QED BY <1>1 DEF AtPlace, Client

\* A step in the write semaphore alone.
LEMMA ShiftW ==
    ASSUME Sound, NEW c \in Client, NEW to, MovesTo(c, to), NEW kw \in Int,
           UNCHANGED <<rvars, queue_>>,
           c \in Coroutine => (pc[c] = "wait_r" <=> to = "wait_r"),
           SemState(wcount', wwaiters', wst'),
           Signals(wcount', wst') = Signals(wcount, wst) + kw,
           \A d \in Coroutine : d # c => (wst'[d] = "idle" <=> wst[d] = "idle"),
           c \in Coroutine => (wst'[c] = "idle" <=> to # "wait_w")
    PROVE  Shift(c, to, kw, 0, 0)
  <1>1. rcount' = rcount /\ rwaiters' = rwaiters /\ rst' = rst /\ queue_' = queue_
    BY DEF rvars
  <1>2. /\ queue_ \in Seq(Client) /\ SemState(rcount, rwaiters, rst)
        /\ AtPlace(wst, "wait_w") /\ AtPlace(rst, "wait_r")
    BY DEF Sound
  <1>3. AtPlace(wst, "wait_w")'
    <2>1. \A d \in Coroutine : wst'[d] # "idle" <=> pc'[d] = "wait_w"
      BY <1>2, AtMoves
    <2> QED BY <2>1 DEF AtPlace
  <1>4. AtPlace(rst, "wait_r")'
    <2>1. c \in Coroutine => (rst[c] = "idle" <=> to # "wait_r")
      BY <1>2 DEF AtPlace
    <2>2. \A d \in Coroutine : rst[d] # "idle" <=> pc'[d] = "wait_r"
      BY <1>2, <2>1, AtMoves
    <2> QED BY <1>1, <2>2 DEF AtPlace
  <1>5. Signals(rcount, rst) \in Nat /\ Queued \in Nat /\ Queued' = Queued
    BY <1>1, NumbersNat DEF Queued
  <1> QED BY <1>1, <1>2, <1>3, <1>4, <1>5 DEF Shift, MovesTo

\* A step in the read semaphore alone.
LEMMA ShiftR ==
    ASSUME Sound, NEW c \in Client, NEW to, MovesTo(c, to), NEW kr \in Int,
           UNCHANGED <<wvars, queue_>>,
           c \in Coroutine => (pc[c] = "wait_w" <=> to = "wait_w"),
           SemState(rcount', rwaiters', rst'),
           Signals(rcount', rst') = Signals(rcount, rst) + kr,
           \A d \in Coroutine : d # c => (rst'[d] = "idle" <=> rst[d] = "idle"),
           c \in Coroutine => (rst'[c] = "idle" <=> to # "wait_r")
    PROVE  Shift(c, to, 0, kr, 0)
  <1>1. wcount' = wcount /\ wwaiters' = wwaiters /\ wst' = wst /\ queue_' = queue_
    BY DEF wvars
  <1>2. /\ queue_ \in Seq(Client) /\ SemState(wcount, wwaiters, wst)
        /\ AtPlace(wst, "wait_w") /\ AtPlace(rst, "wait_r")
    BY DEF Sound
  <1>3. AtPlace(rst, "wait_r")'
    <2>1. \A d \in Coroutine : rst'[d] # "idle" <=> pc'[d] = "wait_r"
      BY <1>2, AtMoves
    <2> QED BY <2>1 DEF AtPlace
  <1>4. AtPlace(wst, "wait_w")'
    <2>1. c \in Coroutine => (wst[c] = "idle" <=> to # "wait_w")
      BY <1>2 DEF AtPlace
    <2>2. \A d \in Coroutine : wst[d] # "idle" <=> pc'[d] = "wait_w"
      BY <1>2, <2>1, AtMoves
    <2> QED BY <1>1, <2>2 DEF AtPlace
  <1>5. Signals(wcount, wst) \in Nat /\ Queued \in Nat /\ Queued' = Queued
    BY <1>1, NumbersNat DEF Queued
  <1> QED BY <1>1, <1>2, <1>3, <1>4, <1>5 DEF Shift, MovesTo

\* A step in neither.
LEMMA ShiftQ ==
    ASSUME Sound, NEW c \in Client, NEW to, MovesTo(c, to), NEW kq \in Int,
           UNCHANGED <<wvars, rvars>>, queue_' \in Seq(Client), Queued' = Queued + kq,
           c \in Coroutine => /\ pc[c] = "wait_w" <=> to = "wait_w"
                              /\ pc[c] = "wait_r" <=> to = "wait_r"
    PROVE  Shift(c, to, 0, 0, kq)
  <1>1. /\ wcount' = wcount /\ wwaiters' = wwaiters /\ wst' = wst
        /\ rcount' = rcount /\ rwaiters' = rwaiters /\ rst' = rst
    BY DEF wvars, rvars
  <1>2. /\ SemState(wcount, wwaiters, wst) /\ SemState(rcount, rwaiters, rst)
        /\ AtPlace(wst, "wait_w") /\ AtPlace(rst, "wait_r")
    BY DEF Sound
  <1>3. AtPlace(wst, "wait_w")'
    <2>1. c \in Coroutine => (wst[c] = "idle" <=> to # "wait_w")
      BY <1>2 DEF AtPlace
    <2>2. \A d \in Coroutine : wst[d] # "idle" <=> pc'[d] = "wait_w"
      BY <1>2, <2>1, AtMoves
    <2> QED BY <1>1, <2>2 DEF AtPlace
  <1>4. AtPlace(rst, "wait_r")'
    <2>1. c \in Coroutine => (rst[c] = "idle" <=> to # "wait_r")
      BY <1>2 DEF AtPlace
    <2>2. \A d \in Coroutine : rst[d] # "idle" <=> pc'[d] = "wait_r"
      BY <1>2, <2>1, AtMoves
    <2> QED BY <1>1, <2>2 DEF AtPlace
  <1>5. Signals(wcount, wst) \in Nat /\ Signals(rcount, rst) \in Nat
    BY NumbersNat
  <1> QED BY <1>1, <1>2, <1>3, <1>4, <1>5 DEF Shift, MovesTo

\* What the steps do to the write semaphore.
LEMMA TakesW ==
    ASSUME Sound, W!Take
    PROVE  /\ SemState(wcount', wwaiters', wst')
           /\ Signals(wcount', wst') = Signals(wcount, wst) + (-1) /\ wst' = wst
  <1>1. SemState(wcount, wwaiters, wst)
    BY DEF Sound
  <1>2. wcount > 0 /\ wcount' = wcount - 1 /\ wwaiters' = wwaiters /\ wst' = wst
    BY DEF W!Take
  <1>3. Signals(wcount, wst) \in Nat
    BY NumbersNat
  <1> QED BY <1>1, <1>2, <1>3, SemTake

LEMMA TakesR ==
    ASSUME Sound, R!Take
    PROVE  /\ SemState(rcount', rwaiters', rst')
           /\ Signals(rcount', rst') = Signals(rcount, rst) + (-1) /\ rst' = rst
  <1>1. SemState(rcount, rwaiters, rst)
    BY DEF Sound
  <1>2. rcount > 0 /\ rcount' = rcount - 1 /\ rwaiters' = rwaiters /\ rst' = rst
    BY DEF R!Take
  <1>3. Signals(rcount, rst) \in Nat
    BY NumbersNat
  <1> QED BY <1>1, <1>2, <1>3, SemTake

\* A semaphore that is left alone.
LEMMA Same ==
    ASSUME Sound
    PROVE  /\ UNCHANGED wvars => /\ SemState(wcount', wwaiters', wst') /\ wst' = wst
                                 /\ Signals(wcount', wst') = Signals(wcount, wst) + 0
           /\ UNCHANGED rvars => /\ SemState(rcount', rwaiters', rst') /\ rst' = rst
                                 /\ Signals(rcount', rst') = Signals(rcount, rst) + 0
  <1>1. SemState(wcount, wwaiters, wst) /\ SemState(rcount, rwaiters, rst)
    BY DEF Sound
  <1>2. Signals(wcount, wst) \in Nat /\ Signals(rcount, rst) \in Nat
    BY NumbersNat
  <1> QED BY <1>1, <1>2 DEF wvars, rvars

\* A coroutine blocks or takes a stored signal; neither makes or spends one.
LEMMA WaitsW ==
    ASSUME Sound, NEW c \in Coroutine, W!Wait(c)
    PROVE  /\ SemState(wcount', wwaiters', wst')
           /\ Signals(wcount', wst') = Signals(wcount, wst) + 0
           /\ wst'[c] # "idle"
           /\ \A d \in Coroutine : d # c => wst'[d] = wst[d]
  <1>1. SemState(wcount, wwaiters, wst) /\ wst \in [Coroutine -> States]
    BY DEF Sound, SemState
  <1>2. Signals(wcount, wst) \in Nat /\ wst[c] = "idle"
    BY NumbersNat DEF W!Wait
  <1>3. ASSUME wcount > 0
        PROVE  /\ SemState(wcount - 1, wwaiters, [wst EXCEPT ![c] = "granted"])
               /\ Signals(wcount - 1, [wst EXCEPT ![c] = "granted"]) = Signals(wcount, wst)
    BY <1>1, <1>2, <1>3, SemWaitTakes
  <1>4. ASSUME wcount = 0
        PROVE  /\ SemState(wcount, Append(wwaiters, c), [wst EXCEPT ![c] = "waiting"])
               /\ Signals(wcount, [wst EXCEPT ![c] = "waiting"]) = Signals(wcount, wst)
    BY <1>1, <1>2, <1>4, SemWaitJoins
  <1>5. CASE /\ wcount > 0 /\ wcount' = wcount - 1
             /\ wst' = [wst EXCEPT ![c] = "granted"] /\ wwaiters' = wwaiters
    BY <1>1, <1>2, <1>3, <1>5
  <1>6. CASE /\ wcount = 0 /\ wwaiters' = Append(wwaiters, c)
             /\ wst' = [wst EXCEPT ![c] = "waiting"] /\ wcount' = wcount
    BY <1>1, <1>2, <1>4, <1>6
  <1> QED BY <1>5, <1>6 DEF W!Wait

LEMMA WaitsR ==
    ASSUME Sound, NEW c \in Coroutine, R!Wait(c)
    PROVE  /\ SemState(rcount', rwaiters', rst')
           /\ Signals(rcount', rst') = Signals(rcount, rst) + 0
           /\ rst'[c] # "idle"
           /\ \A d \in Coroutine : d # c => rst'[d] = rst[d]
  <1>1. SemState(rcount, rwaiters, rst) /\ rst \in [Coroutine -> States]
    BY DEF Sound, SemState
  <1>2. Signals(rcount, rst) \in Nat /\ rst[c] = "idle"
    BY NumbersNat DEF R!Wait
  <1>3. ASSUME rcount > 0
        PROVE  /\ SemState(rcount - 1, rwaiters, [rst EXCEPT ![c] = "granted"])
               /\ Signals(rcount - 1, [rst EXCEPT ![c] = "granted"]) = Signals(rcount, rst)
    BY <1>1, <1>2, <1>3, SemWaitTakes
  <1>4. ASSUME rcount = 0
        PROVE  /\ SemState(rcount, Append(rwaiters, c), [rst EXCEPT ![c] = "waiting"])
               /\ Signals(rcount, [rst EXCEPT ![c] = "waiting"]) = Signals(rcount, rst)
    BY <1>1, <1>2, <1>4, SemWaitJoins
  <1>5. CASE /\ rcount > 0 /\ rcount' = rcount - 1
             /\ rst' = [rst EXCEPT ![c] = "granted"] /\ rwaiters' = rwaiters
    BY <1>1, <1>2, <1>3, <1>5
  <1>6. CASE /\ rcount = 0 /\ rwaiters' = Append(rwaiters, c)
             /\ rst' = [rst EXCEPT ![c] = "waiting"] /\ rcount' = rcount
    BY <1>1, <1>2, <1>4, <1>6
  <1> QED BY <1>5, <1>6 DEF R!Wait

\* A signal is handed out or stored, unless the counter is full.
LEMMA SignalsW ==
    ASSUME Sound, W!Signal
    PROVE  \E n \in {0, 1} :
              /\ SemState(wcount', wwaiters', wst')
              /\ Signals(wcount', wst') = Signals(wcount, wst) + n
              /\ wcount < SizeMax => n = 1
              /\ \A d \in Coroutine : wst'[d] = "idle" <=> wst[d] = "idle"
  <1>1. SemState(wcount, wwaiters, wst) /\ wst \in [Coroutine -> States] /\ wcount \in Nat
    BY DEF Sound, SemState
  <1>2. Signals(wcount, wst) \in Nat /\ SizeMax \in Nat
    BY NumbersNat, ChannelAssumption
  <1>3. CASE W!Grant
    <2>1. /\ wwaiters # <<>> /\ wwaiters' = Tail(wwaiters) /\ wcount' = wcount
          /\ wst' = [wst EXCEPT ![Head(wwaiters)] = "granted"]
      BY <1>3 DEF W!Grant
    <2>2. wwaiters # <<>>
      BY <2>1
    <2>3. /\ Head(wwaiters) \in Coroutine /\ wst[Head(wwaiters)] = "waiting"
          /\ SemState(wcount, Tail(wwaiters), [wst EXCEPT ![Head(wwaiters)] = "granted"])
          /\ Signals(wcount, [wst EXCEPT ![Head(wwaiters)] = "granted"]) = Signals(wcount, wst) + 1
      BY <1>1, <2>2, SemSignalGrants
    <2>4. \A d \in Coroutine : wst'[d] = "idle" <=> wst[d] = "idle"
      BY <1>1, <2>1, <2>3
    <2> QED BY <2>1, <2>3, <2>4
  <1>4. CASE W!Store
    <2>1. wwaiters = <<>> /\ wcount' = wcount + 1 /\ wwaiters' = wwaiters /\ wst' = wst
      BY <1>4 DEF W!Store
    <2>2. SemState(wcount + 1, wwaiters, wst) /\ Signals(wcount + 1, wst) = Signals(wcount, wst) + 1
      BY <1>1, <2>1, SemSignalStores
    <2> QED BY <2>1, <2>2
  <1>5. CASE W!Refuse
    <2>1. wcount >= SizeMax /\ wcount' = wcount /\ wwaiters' = wwaiters /\ wst' = wst
      BY <1>5 DEF W!Refuse, W!semVars
    <2>2. Signals(wcount', wst') = Signals(wcount, wst) + 0 /\ ~(wcount < SizeMax)
      BY <1>1, <1>2, <2>1
    <2> QED BY <1>1, <2>1, <2>2
  <1> QED BY <1>3, <1>4, <1>5 DEF W!Signal

LEMMA SignalsR ==
    ASSUME Sound, R!Signal
    PROVE  \E n \in {0, 1} :
              /\ SemState(rcount', rwaiters', rst')
              /\ Signals(rcount', rst') = Signals(rcount, rst) + n
              /\ rcount < SizeMax => n = 1
              /\ \A d \in Coroutine : rst'[d] = "idle" <=> rst[d] = "idle"
  <1>1. SemState(rcount, rwaiters, rst) /\ rst \in [Coroutine -> States] /\ rcount \in Nat
    BY DEF Sound, SemState
  <1>2. Signals(rcount, rst) \in Nat /\ SizeMax \in Nat
    BY NumbersNat, ChannelAssumption
  <1>3. CASE R!Grant
    <2>1. /\ rwaiters # <<>> /\ rwaiters' = Tail(rwaiters) /\ rcount' = rcount
          /\ rst' = [rst EXCEPT ![Head(rwaiters)] = "granted"]
      BY <1>3 DEF R!Grant
    <2>2. rwaiters # <<>>
      BY <2>1
    <2>3. /\ Head(rwaiters) \in Coroutine /\ rst[Head(rwaiters)] = "waiting"
          /\ SemState(rcount, Tail(rwaiters), [rst EXCEPT ![Head(rwaiters)] = "granted"])
          /\ Signals(rcount, [rst EXCEPT ![Head(rwaiters)] = "granted"]) = Signals(rcount, rst) + 1
      BY <1>1, <2>2, SemSignalGrants
    <2>4. \A d \in Coroutine : rst'[d] = "idle" <=> rst[d] = "idle"
      BY <1>1, <2>1, <2>3
    <2> QED BY <2>1, <2>3, <2>4
  <1>4. CASE R!Store
    <2>1. rwaiters = <<>> /\ rcount' = rcount + 1 /\ rwaiters' = rwaiters /\ rst' = rst
      BY <1>4 DEF R!Store
    <2>2. SemState(rcount + 1, rwaiters, rst) /\ Signals(rcount + 1, rst) = Signals(rcount, rst) + 1
      BY <1>1, <2>1, SemSignalStores
    <2> QED BY <2>1, <2>2
  <1>5. CASE R!Refuse
    <2>1. rcount >= SizeMax /\ rcount' = rcount /\ rwaiters' = rwaiters /\ rst' = rst
      BY <1>5 DEF R!Refuse, R!semVars
    <2>2. Signals(rcount', rst') = Signals(rcount, rst) + 0 /\ ~(rcount < SizeMax)
      BY <1>1, <1>2, <2>1
    <2> QED BY <1>1, <2>1, <2>2
  <1> QED BY <1>3, <1>4, <1>5 DEF R!Signal

\* A waiter that gives up leaves no signal behind.
LEMMA TimesOutW ==
    ASSUME Sound, NEW c \in Coroutine, W!Timeout(c)
    PROVE  /\ SemState(wcount', wwaiters', wst')
           /\ Signals(wcount', wst') = Signals(wcount, wst) + 0
           /\ \A d \in Coroutine : wst'[d] = "idle" <=> wst[d] = "idle"
  <1>1. SemState(wcount, wwaiters, wst) /\ wst \in [Coroutine -> States]
    BY DEF Sound, SemState
  <1>2. Signals(wcount, wst) \in Nat
    BY NumbersNat
  <1>3. PICK k \in 1..Len(wwaiters) : /\ c = wwaiters[k]
                                    /\ wwaiters' = Without(wwaiters, k) /\ wcount' = wcount
                                    /\ wst' = [wst EXCEPT ![c] = "timedout"]
    BY DEF W!Timeout, W!Without, Without
  <1>4. IsAt(c, wwaiters, k)
    BY <1>3 DEF IsAt
  <1>5. /\ wst[c] = "waiting"
        /\ SemState(wcount, Without(wwaiters, k), [wst EXCEPT ![c] = "timedout"])
        /\ Signals(wcount, [wst EXCEPT ![c] = "timedout"]) = Signals(wcount, wst)
    <2>1. wst[c] = "waiting"
      BY <1>1, <1>4, SemTimeout
    <2>2. SemState(wcount, Without(wwaiters, k), [wst EXCEPT ![c] = "timedout"])
      BY <1>1, <1>4, SemTimeout
    <2>3. Granted([wst EXCEPT ![c] = "timedout"]) = Granted(wst)
      BY <1>1, <2>1, GrantedNext DEF States
    <2> QED BY <2>1, <2>2, <2>3 DEF Signals
  <1>6. \A d \in Coroutine : wst'[d] = "idle" <=> wst[d] = "idle"
    BY <1>1, <1>3, <1>5
  <1> QED BY <1>2, <1>3, <1>5, <1>6

LEMMA TimesOutR ==
    ASSUME Sound, NEW c \in Coroutine, R!Timeout(c)
    PROVE  /\ SemState(rcount', rwaiters', rst')
           /\ Signals(rcount', rst') = Signals(rcount, rst) + 0
           /\ \A d \in Coroutine : rst'[d] = "idle" <=> rst[d] = "idle"
  <1>1. SemState(rcount, rwaiters, rst) /\ rst \in [Coroutine -> States]
    BY DEF Sound, SemState
  <1>2. Signals(rcount, rst) \in Nat
    BY NumbersNat
  <1>3. PICK k \in 1..Len(rwaiters) : /\ c = rwaiters[k]
                                    /\ rwaiters' = Without(rwaiters, k) /\ rcount' = rcount
                                    /\ rst' = [rst EXCEPT ![c] = "timedout"]
    BY DEF R!Timeout, R!Without, Without
  <1>4. IsAt(c, rwaiters, k)
    BY <1>3 DEF IsAt
  <1>5. /\ rst[c] = "waiting"
        /\ SemState(rcount, Without(rwaiters, k), [rst EXCEPT ![c] = "timedout"])
        /\ Signals(rcount, [rst EXCEPT ![c] = "timedout"]) = Signals(rcount, rst)
    <2>1. rst[c] = "waiting"
      BY <1>1, <1>4, SemTimeout
    <2>2. SemState(rcount, Without(rwaiters, k), [rst EXCEPT ![c] = "timedout"])
      BY <1>1, <1>4, SemTimeout
    <2>3. Granted([rst EXCEPT ![c] = "timedout"]) = Granted(rst)
      BY <1>1, <2>1, GrantedNext DEF States
    <2> QED BY <2>1, <2>2, <2>3 DEF Signals
  <1>6. \A d \in Coroutine : rst'[d] = "idle" <=> rst[d] = "idle"
    BY <1>1, <1>3, <1>5
  <1> QED BY <1>2, <1>3, <1>5, <1>6

\* A wait that was granted its signal spends it.
LEMMA ReturnsW ==
    ASSUME Sound, NEW c \in Coroutine, W!Return(c)
    PROVE  /\ SemState(wcount', wwaiters', wst')
           /\ wst[c] = "granted" => Signals(wcount', wst') = Signals(wcount, wst) + (-1)
           /\ wst[c] # "granted" => Signals(wcount', wst') = Signals(wcount, wst) + 0
           /\ wst'[c] = "idle"
           /\ \A d \in Coroutine : d # c => wst'[d] = wst[d]
  <1>1. SemState(wcount, wwaiters, wst) /\ wst \in [Coroutine -> States]
    BY DEF Sound, SemState
  <1>2. wst[c] \in {"granted", "timedout"}
    BY DEF W!Return
  <1>3. /\ wcount' = wcount /\ wwaiters' = wwaiters
        /\ wst' = [wst EXCEPT ![c] = "idle"]
    BY DEF W!Return
  <1>4. /\ SemState(wcount, wwaiters, [wst EXCEPT ![c] = "idle"])
        /\ wst[c] = "granted"
              => Signals(wcount, [wst EXCEPT ![c] = "idle"]) = Signals(wcount, wst) + (-1)
        /\ wst[c] # "granted"
              => Signals(wcount, [wst EXCEPT ![c] = "idle"]) = Signals(wcount, wst) + 0
    BY <1>1, <1>2, SemReturn
  <1> QED BY <1>1, <1>3, <1>4

LEMMA ReturnsR ==
    ASSUME Sound, NEW c \in Coroutine, R!Return(c)
    PROVE  /\ SemState(rcount', rwaiters', rst')
           /\ rst[c] = "granted" => Signals(rcount', rst') = Signals(rcount, rst) + (-1)
           /\ rst[c] # "granted" => Signals(rcount', rst') = Signals(rcount, rst) + 0
           /\ rst'[c] = "idle"
           /\ \A d \in Coroutine : d # c => rst'[d] = rst[d]
  <1>1. SemState(rcount, rwaiters, rst) /\ rst \in [Coroutine -> States]
    BY DEF Sound, SemState
  <1>2. rst[c] \in {"granted", "timedout"}
    BY DEF R!Return
  <1>3. /\ rcount' = rcount /\ rwaiters' = rwaiters
        /\ rst' = [rst EXCEPT ![c] = "idle"]
    BY DEF R!Return
  <1>4. /\ SemState(rcount, rwaiters, [rst EXCEPT ![c] = "idle"])
        /\ rst[c] = "granted"
              => Signals(rcount, [rst EXCEPT ![c] = "idle"]) = Signals(rcount, rst) + (-1)
        /\ rst[c] # "granted"
              => Signals(rcount, [rst EXCEPT ![c] = "idle"]) = Signals(rcount, rst) + 0
    BY <1>1, <1>2, SemReturn
  <1> QED BY <1>1, <1>3, <1>4

LEMMA CallPushKept ==
    ASSUME Sound, NEW c \in Client, NEW k \in {"<<", "TimedPush"}, CallPush(c, k)
    PROVE  Kept(c)
  <1>1. MovesTo(c, "wait_w") /\ pc[c] = "idle" /\ UNCHANGED <<rvars, queue_>>
    <2>1. k \in AnyOp /\ "wait_w" \in ClientPc /\ Call(c, k, "wait_w")
      BY DEF CallPush, AnyOp, PushOp, ClientPc
    <2> QED BY <2>1, CallMoves DEF CallPush
  <1>2. /\ SemState(wcount', wwaiters', wst')
        /\ Signals(wcount', wst') = Signals(wcount, wst) + 0
        /\ \A d \in Coroutine : d # c => wst'[d] = wst[d]
        /\ c \in Coroutine => wst'[c] # "idle"
    <2>1. CASE c \in Coroutine
      BY <2>1, WaitsW DEF CallPush
    <2>2. CASE c \notin Coroutine
      BY <2>2, Same DEF CallPush
    <2> QED BY <2>1, <2>2
  <1>3. Shift(c, "wait_w", 0, 0, 0)
    BY <1>1, <1>2, ShiftW
  <1>4. "wait_w" \in ClientPc
    BY DEF ClientPc
  <1> QED BY <1>1, <1>3, <1>4, Moves, BalanceType DEF Kept, One, ReaderPc

LEMMA TryPushKept ==
    ASSUME Sound, NEW c \in Client, TryPush(c)
    PROVE  Kept(c)
  <1>0. UNCHANGED <<rvars, queue_>> /\ {"push", "idle"} \subseteq ClientPc
    BY DEF TryPush, ClientPc
  <1>1. CASE W!Take /\ Call(c, "TryPush", "push")
    <2>1. MovesTo(c, "push") /\ pc[c] = "idle"
      BY <1>0, <1>1, CallMoves DEF AnyOp, PushOp
    <2>2. c \in Coroutine => wst[c] = "idle"
      BY <2>1 DEF Sound, AtPlace
    <2>3. Shift(c, "push", -1, 0, 0)
      BY <1>0, <1>1, <2>1, <2>2, TakesW, ShiftW
    <2> QED BY <1>0, <2>1, <2>3, Moves, BalanceType DEF Kept, One, ReaderPc
  <1>2. CASE UNCHANGED wvars /\ Goto(c, "idle", "idle")
    <2>1. MovesTo(c, "idle") /\ pc[c] = "idle"
      BY <1>0, <1>2, GotoMoves
    <2>2. c \in Coroutine => wst[c] = "idle"
      BY <2>1 DEF Sound, AtPlace
    <2>3. Shift(c, "idle", 0, 0, 0)
      BY <1>0, <1>2, <2>1, <2>2, Same, ShiftW
    <2> QED BY <1>0, <2>1, <2>3, Moves, BalanceType DEF Kept, One, ReaderPc
  <1> QED BY <1>1, <1>2 DEF TryPush

LEMMA PushTimeoutKept ==
    ASSUME Sound, NEW c \in Client, PushTimeout(c)
    PROVE  Kept(c)
  <1>1. c \in Coroutine /\ pc[c] = "wait_w" /\ W!Timeout(c) /\ UNCHANGED <<rvars, queue_>>
    BY DEF PushTimeout
  <1>2. MovesTo(c, "wait_w")
    BY <1>1 DEF PushTimeout, MovesTo, Sound, ClientPc
  <1>3. wst[c] # "idle"
    BY <1>1 DEF Sound, AtPlace
  <1>4. Shift(c, "wait_w", 0, 0, 0)
    BY <1>1, <1>2, <1>3, TimesOutW, ShiftW
  <1>5. "wait_w" \in ClientPc
    BY DEF ClientPc
  <1> QED BY <1>1, <1>4, <1>5, Moves, BalanceType DEF Kept, One, ReaderPc

LEMMA PushWaitedKept ==
    ASSUME Sound, NEW c \in Client, PushWaited(c)
    PROVE  Kept(c)
  <1>0. /\ UNCHANGED <<rvars, queue_>> /\ {"push", "idle"} \subseteq ClientPc
        /\ c \in Coroutine /\ W!Return(c)
    BY DEF PushWaited, ClientPc
  <1>1. CASE wst[c] = "granted" /\ Goto(c, "wait_w", "push")
    <2>1. MovesTo(c, "push") /\ pc[c] = "wait_w"
      BY <1>0, <1>1, GotoMoves
    <2>2. Shift(c, "push", -1, 0, 0)
      BY <1>0, <1>1, <2>1, ReturnsW, ShiftW
    <2> QED BY <1>0, <2>1, <2>2, Moves, BalanceType DEF Kept, One, ReaderPc
  <1>2. CASE wst[c] = "timedout" /\ Goto(c, "wait_w", "idle")
    <2>1. MovesTo(c, "idle") /\ pc[c] = "wait_w" /\ wst[c] # "granted"
      BY <1>0, <1>2, GotoMoves
    <2>2. Shift(c, "idle", 0, 0, 0)
      BY <1>0, <2>1, ReturnsW, ShiftW
    <2> QED BY <1>0, <2>1, <2>2, Moves, BalanceType DEF Kept, One, ReaderPc
  <1> QED BY <1>1, <1>2 DEF PushWaited

\* A thread's timed push that took a place and returns false lowers Places.
LEMMA PushPollKept ==
    ASSUME Sound, NEW c \in Client, PushPoll(c)
    PROVE  Kept(c)
  <1>0. /\ UNCHANGED <<rvars, queue_>> /\ {"push", "idle"} \subseteq ClientPc
        /\ c \notin Coroutine
    BY ChannelAssumption DEF PushPoll, ClientPc
  <1>1. CASE W!Take /\ Goto(c, "wait_w", "push")
    <2>1. MovesTo(c, "push") /\ pc[c] = "wait_w"
      BY <1>0, <1>1, GotoMoves
    <2>2. Shift(c, "push", -1, 0, 0)
      BY <1>0, <1>1, <2>1, TakesW, ShiftW
    <2> QED BY <1>0, <2>1, <2>2, Moves, BalanceType DEF Kept, One, ReaderPc
  <1>2. CASE W!Take /\ Goto(c, "wait_w", "idle")
    <2>1. MovesTo(c, "idle") /\ pc[c] = "wait_w"
      BY <1>0, <1>2, GotoMoves
    <2>2. Shift(c, "idle", -1, 0, 0)
      BY <1>0, <1>2, <2>1, TakesW, ShiftW
    <2> QED BY <1>0, <2>1, <2>2, Moves, BalanceType DEF Kept, One, ReaderPc
  <1>3. CASE UNCHANGED wvars /\ Goto(c, "wait_w", "idle")
    <2>1. MovesTo(c, "idle") /\ pc[c] = "wait_w"
      BY <1>0, <1>3, GotoMoves
    <2>2. Shift(c, "idle", 0, 0, 0)
      BY <1>0, <1>3, <2>1, Same, ShiftW
    <2> QED BY <1>0, <2>1, <2>2, Moves, BalanceType DEF Kept, One, ReaderPc
  <1> QED BY <1>1, <1>2, <1>3 DEF PushPoll

LEMMA PushKept ==
    ASSUME Sound, NEW c \in Client, Push(c)
    PROVE  Kept(c)
  <1>1. MovesTo(c, "signal_r") /\ pc[c] = "push" /\ "signal_r" \in ClientPc
    <2>1. "signal_r" \in ClientPc
      BY DEF ClientPc
    <2> QED BY <2>1, GotoMoves DEF Push
  <1>2. UNCHANGED <<wvars, rvars>> /\ queue_' \in Seq(Client) /\ Queued' = Queued + 1
    BY DEF Push, Sound, Queued
  <1>3. Shift(c, "signal_r", 0, 0, 1)
    BY <1>1, <1>2, ShiftQ
  <1> QED BY <1>1, <1>3, Moves, BalanceType DEF Kept, One, ReaderPc

LEMMA PushSignalKept ==
    ASSUME Sound, NEW c \in Client, PushSignal(c)
    PROVE  Kept(c)
  <1>1. MovesTo(c, "idle") /\ pc[c] = "signal_r" /\ "idle" \in ClientPc
    <2>1. "idle" \in ClientPc
      BY DEF ClientPc
    <2> QED BY <2>1, GotoMoves DEF PushSignal
  <1>2. R!Signal /\ UNCHANGED <<wvars, queue_>>
    BY DEF PushSignal
  <1>3. c \in Coroutine => rst[c] = "idle"
    BY <1>1 DEF Sound, AtPlace
  <1>4. PICK n \in {0, 1} :
              /\ SemState(rcount', rwaiters', rst')
              /\ Signals(rcount', rst') = Signals(rcount, rst) + n
              /\ rcount < SizeMax => n = 1
              /\ \A d \in Coroutine : rst'[d] = "idle" <=> rst[d] = "idle"
    BY <1>2, SignalsR
  <1>5. Shift(c, "idle", 0, n, 0)
    BY <1>1, <1>2, <1>3, <1>4, ShiftR
  <1>6. Sound' /\ Places' = Places /\ Elements' = Elements + n - 1
    BY <1>1, <1>5, Moves, BalanceType DEF One, ReaderPc
  <1> QED BY <1>4, <1>6, BalanceType DEF Kept

LEMMA CallPopKept ==
    ASSUME Sound, NEW c \in Client, NEW k \in PopOp, CallPop(c, k)
    PROVE  Kept(c)
  <1> DEFINE to == IF k = "TryPop" THEN "try_r" ELSE "block_r"
  <1>0. to \in {"try_r", "block_r"} /\ to \in ClientPc /\ Call(c, k, to) /\ k \in AnyOp
    BY DEF ClientPc, CallPop, AnyOp
  <1> HIDE DEF to
  <1>1. MovesTo(c, to) /\ pc[c] = "idle"
    BY <1>0, CallMoves
  <1>2. W!Signal /\ UNCHANGED <<rvars, queue_>>
    BY DEF CallPop
  <1>3. c \in Coroutine => wst[c] = "idle"
    BY <1>1 DEF Sound, AtPlace
  <1>4. PICK n \in {0, 1} :
              /\ SemState(wcount', wwaiters', wst')
              /\ Signals(wcount', wst') = Signals(wcount, wst) + n
              /\ wcount < SizeMax => n = 1
              /\ \A d \in Coroutine : wst'[d] = "idle" <=> wst[d] = "idle"
    BY <1>2, SignalsW
  <1>5. Shift(c, to, n, 0, 0)
    BY <1>0, <1>1, <1>2, <1>3, <1>4, ShiftW
  <1>6. Sound' /\ Places' = Places + n - 1 /\ Elements' = Elements
    BY <1>0, <1>1, <1>5, Moves, BalanceType DEF One, ReaderPc
  <1> QED BY <1>4, <1>6, BalanceType DEF Kept

LEMMA PopWaitKept ==
    ASSUME Sound, NEW c \in Client, PopWait(c)
    PROVE  Kept(c)
  <1>1. MovesTo(c, "wait_r") /\ pc[c] = "block_r" /\ "wait_r" \in ClientPc
    <2>1. "wait_r" \in ClientPc
      BY DEF ClientPc
    <2> QED BY <2>1, GotoMoves DEF PopWait
  <1>2. /\ SemState(rcount', rwaiters', rst')
        /\ Signals(rcount', rst') = Signals(rcount, rst) + 0
        /\ \A d \in Coroutine : d # c => rst'[d] = rst[d]
        /\ c \in Coroutine => rst'[c] # "idle"
    <2>1. CASE c \in Coroutine
      BY <2>1, WaitsR DEF PopWait
    <2>2. CASE c \notin Coroutine
      BY <2>2, Same DEF PopWait
    <2> QED BY <2>1, <2>2
  <1>3. UNCHANGED <<wvars, queue_>>
    BY DEF PopWait
  <1>4. Shift(c, "wait_r", 0, 0, 0)
    BY <1>1, <1>2, <1>3, ShiftR
  <1> QED BY <1>1, <1>4, Moves, BalanceType DEF Kept, One, ReaderPc

LEMMA PopTimeoutKept ==
    ASSUME Sound, NEW c \in Client, PopTimeout(c)
    PROVE  Kept(c)
  <1>1. c \in Coroutine /\ pc[c] = "wait_r" /\ R!Timeout(c) /\ UNCHANGED <<wvars, queue_>>
    BY DEF PopTimeout
  <1>2. MovesTo(c, "wait_r")
    BY <1>1 DEF PopTimeout, MovesTo, Sound, ClientPc
  <1>3. rst[c] # "idle"
    BY <1>1 DEF Sound, AtPlace
  <1>4. Shift(c, "wait_r", 0, 0, 0)
    BY <1>1, <1>2, <1>3, TimesOutR, ShiftR
  <1>5. "wait_r" \in ClientPc
    BY DEF ClientPc
  <1> QED BY <1>1, <1>4, <1>5, Moves, BalanceType DEF Kept, One, ReaderPc

LEMMA PopWaitedKept ==
    ASSUME Sound, NEW c \in Client, PopWaited(c)
    PROVE  Kept(c)
  <1>0. /\ UNCHANGED <<wvars, queue_>> /\ {"pop", "try_w"} \subseteq ClientPc
        /\ c \in Coroutine /\ R!Return(c)
    BY DEF PopWaited, ClientPc
  <1>1. CASE rst[c] = "granted" /\ Goto(c, "wait_r", "pop")
    <2>1. MovesTo(c, "pop") /\ pc[c] = "wait_r"
      BY <1>0, <1>1, GotoMoves
    <2>2. Shift(c, "pop", 0, -1, 0)
      BY <1>0, <1>1, <2>1, ReturnsR, ShiftR
    <2> QED BY <1>0, <2>1, <2>2, Moves, BalanceType DEF Kept, One, ReaderPc
  <1>2. CASE rst[c] = "timedout" /\ Goto(c, "wait_r", "try_w")
    <2>1. MovesTo(c, "try_w") /\ pc[c] = "wait_r" /\ rst[c] # "granted"
      BY <1>0, <1>2, GotoMoves
    <2>2. Shift(c, "try_w", 0, 0, 0)
      BY <1>0, <2>1, ReturnsR, ShiftR
    <2> QED BY <1>0, <2>1, <2>2, Moves, BalanceType DEF Kept, One, ReaderPc
  <1> QED BY <1>1, <1>2 DEF PopWaited

\* A thread's timed pop that took a read signal and goes on without popping
\* lowers Elements.
LEMMA PopPollKept ==
    ASSUME Sound, NEW c \in Client, PopPoll(c)
    PROVE  Kept(c)
  <1>0. /\ UNCHANGED <<wvars, queue_>> /\ {"pop", "try_w"} \subseteq ClientPc
        /\ c \notin Coroutine
    BY ChannelAssumption DEF PopPoll, ClientPc
  <1>1. CASE R!Take /\ Goto(c, "wait_r", "pop")
    <2>1. MovesTo(c, "pop") /\ pc[c] = "wait_r"
      BY <1>0, <1>1, GotoMoves
    <2>2. Shift(c, "pop", 0, -1, 0)
      BY <1>0, <1>1, <2>1, TakesR, ShiftR
    <2> QED BY <1>0, <2>1, <2>2, Moves, BalanceType DEF Kept, One, ReaderPc
  <1>2. CASE R!Take /\ Goto(c, "wait_r", "try_w")
    <2>1. MovesTo(c, "try_w") /\ pc[c] = "wait_r"
      BY <1>0, <1>2, GotoMoves
    <2>2. Shift(c, "try_w", 0, -1, 0)
      BY <1>0, <1>2, <2>1, TakesR, ShiftR
    <2> QED BY <1>0, <2>1, <2>2, Moves, BalanceType DEF Kept, One, ReaderPc
  <1>3. CASE UNCHANGED rvars /\ Goto(c, "wait_r", "try_w")
    <2>1. MovesTo(c, "try_w") /\ pc[c] = "wait_r"
      BY <1>0, <1>3, GotoMoves
    <2>2. Shift(c, "try_w", 0, 0, 0)
      BY <1>0, <1>3, <2>1, Same, ShiftR
    <2> QED BY <1>0, <2>1, <2>2, Moves, BalanceType DEF Kept, One, ReaderPc
  <1> QED BY <1>1, <1>2, <1>3 DEF PopPoll

LEMMA TryReadKept ==
    ASSUME Sound, NEW c \in Client, TryRead(c)
    PROVE  Kept(c)
  <1>0. UNCHANGED <<wvars, queue_>> /\ {"pop", "try_w"} \subseteq ClientPc
    BY DEF TryRead, ClientPc
  <1>1. CASE R!Take /\ Goto(c, "try_r", "pop")
    <2>1. MovesTo(c, "pop") /\ pc[c] = "try_r"
      BY <1>0, <1>1, GotoMoves
    <2>2. c \in Coroutine => rst[c] = "idle"
      BY <2>1 DEF Sound, AtPlace
    <2>3. Shift(c, "pop", 0, -1, 0)
      BY <1>0, <1>1, <2>1, <2>2, TakesR, ShiftR
    <2> QED BY <1>0, <2>1, <2>3, Moves, BalanceType DEF Kept, One, ReaderPc
  <1>2. CASE UNCHANGED rvars /\ Goto(c, "try_r", "try_w")
    <2>1. MovesTo(c, "try_w") /\ pc[c] = "try_r"
      BY <1>0, <1>2, GotoMoves
    <2>2. c \in Coroutine => rst[c] = "idle"
      BY <2>1 DEF Sound, AtPlace
    <2>3. Shift(c, "try_w", 0, 0, 0)
      BY <1>0, <1>2, <2>1, <2>2, Same, ShiftR
    <2> QED BY <1>0, <2>1, <2>3, Moves, BalanceType DEF Kept, One, ReaderPc
  <1> QED BY <1>1, <1>2 DEF TryRead

LEMMA TryGiveBackKept ==
    ASSUME Sound, NEW c \in Client, TryGiveBack(c)
    PROVE  Kept(c)
  <1>0. UNCHANGED <<rvars, queue_>> /\ {"idle", "try_r"} \subseteq ClientPc
    BY DEF TryGiveBack, ClientPc
  <1>1. CASE W!Take /\ Goto(c, "try_w", "idle")
    <2>1. MovesTo(c, "idle") /\ pc[c] = "try_w"
      BY <1>0, <1>1, GotoMoves
    <2>2. c \in Coroutine => wst[c] = "idle"
      BY <2>1 DEF Sound, AtPlace
    <2>3. Shift(c, "idle", -1, 0, 0)
      BY <1>0, <1>1, <2>1, <2>2, TakesW, ShiftW
    <2> QED BY <1>0, <2>1, <2>3, Moves, BalanceType DEF Kept, One, ReaderPc
  <1>2. CASE UNCHANGED wvars /\ Goto(c, "try_w", "try_r")
    <2>1. MovesTo(c, "try_r") /\ pc[c] = "try_w"
      BY <1>0, <1>2, GotoMoves
    <2>2. c \in Coroutine => wst[c] = "idle"
      BY <2>1 DEF Sound, AtPlace
    <2>3. Shift(c, "try_r", 0, 0, 0)
      BY <1>0, <1>2, <2>1, <2>2, Same, ShiftW
    <2> QED BY <1>0, <2>1, <2>3, Moves, BalanceType DEF Kept, One, ReaderPc
  <1> QED BY <1>1, <1>2 DEF TryGiveBack

\* The one step that needs a balance: the queue a reader pops is not empty.
LEMMA PopKept ==
    ASSUME Sound, Elements <= 0, NEW c \in Client, Pop(c)
    PROVE  Kept(c) /\ queue_ # <<>>
  <1>1. MovesTo(c, "idle") /\ pc[c] = "pop" /\ "idle" \in ClientPc
    <2>1. "idle" \in ClientPc
      BY DEF ClientPc
    <2> QED BY <2>1, GotoMoves DEF Pop
  <1>2. Popping >= 1
    <2>1. c \in At({"pop"}) /\ IsFiniteSet(At({"pop"}))
      BY <1>1, ClientFinite, FS_Subset DEF At
    <2>2. Cardinality(At({"pop"})) \in Nat /\ Cardinality(At({"pop"})) # 0
      BY <2>1, FS_EmptySet, FS_CardinalityType
    <2> QED BY <2>2 DEF Popping, N
  <1>3. Queued >= 1
    BY <1>2, NumbersNat DEF Elements
  <1>4. queue_ # <<>> /\ queue_ \in Seq(Client)
    BY <1>3 DEF Queued, Sound
  <1>5. UNCHANGED <<wvars, rvars>> /\ queue_' \in Seq(Client) /\ Queued' = Queued + (-1)
    BY <1>4 DEF Pop, Queued
  <1>6. Shift(c, "idle", 0, 0, -1)
    BY <1>1, <1>5, ShiftQ
  <1>7. Kept(c)
    BY <1>1, <1>6, Moves, BalanceType DEF Kept, One, ReaderPc
  <1> QED BY <1>4, <1>7
-----------------------------------------------------------------------------
(* The inductive invariant and what it says.                               *)

\* The initial state, with both balances exact.
LEMMA InitSound == Init => Sound /\ Places = Capacity /\ Elements = 0
  <1> SUFFICES ASSUME Init PROVE Sound /\ Places = Capacity /\ Elements = 0
    OBVIOUS
  <1>1. /\ wcount = Capacity /\ wwaiters = <<>> /\ wst = [c \in Coroutine |-> "idle"]
        /\ rcount = 0 /\ rwaiters = <<>> /\ rst = [c \in Coroutine |-> "idle"]
        /\ queue_ = <<>> /\ pc = [c \in Client |-> "idle"] /\ op = [c \in Client |-> "none"]
    BY DEF Init, W!Init, R!Init
  <1>2. Sound
    BY <1>1, ChannelAssumption
       DEF Sound, SemState, AtPlace, States, NoDup, Member, ClientPc, AnyOp, Client
  <1>3. Granted(wst) = 0 /\ Granted(rst) = 0
    <2>1. {c \in Coroutine : wst[c] = "granted"} = {} /\ {c \in Coroutine : rst[c] = "granted"} = {}
      BY <1>1
    <2> QED BY <2>1, FS_EmptySet DEF Granted
  <1>4. Pushing = 0 /\ Popping = 0 /\ Owing = 0 /\ Reading = 0
    <2>1. \A S : "idle" \notin S => At(S) = {}
      BY <1>1 DEF At
    <2>2. \A S : "idle" \notin S => N(S) = 0
      BY <2>1, FS_EmptySet DEF N
    <2> QED BY <2>2 DEF Pushing, Popping, Owing, Reading, ReaderPc
  <1>5. Queued = 0
    BY <1>1 DEF Queued
  <1> QED BY <1>1, <1>2, <1>3, <1>4, <1>5, ChannelAssumption DEF Places, Elements, Signals

LEMMA StepKept ==
    ASSUME Sound, Elements <= 0, NEW c \in Client, NewCall(c) \/ Step(c)
    PROVE  Kept(c)
  <1>1. CASE NewCall(c)
    BY <1>1, CallPushKept, TryPushKept, CallPopKept DEF NewCall
  <1>2. CASE PushWaited(c) \/ PushPoll(c) \/ Push(c) \/ PushSignal(c) \/ PushTimeout(c)
    BY <1>2, PushWaitedKept, PushPollKept, PushKept, PushSignalKept, PushTimeoutKept
  <1>3. CASE \/ PopWait(c) \/ PopWaited(c) \/ PopPoll(c) \/ Pop(c) \/ PopTimeout(c)
             \/ TryRead(c) \/ TryGiveBack(c)
    BY <1>3, PopWaitKept, PopWaitedKept, PopPollKept, PopKept, PopTimeoutKept,
       TryReadKept, TryGiveBackKept
  <1> QED BY <1>1, <1>2, <1>3 DEF Step

\* Nothing moves.
LEMMA StutterKept ==
    ASSUME UNCHANGED vars
    PROVE  (Sound => Sound') /\ Places' = Places /\ Elements' = Elements
  <1>1. /\ wcount' = wcount /\ wwaiters' = wwaiters /\ wst' = wst
        /\ rcount' = rcount /\ rwaiters' = rwaiters /\ rst' = rst
        /\ queue_' = queue_ /\ pc' = pc /\ op' = op
    BY DEF vars, wvars, rvars
  <1>2. \A S : N(S)' = N(S)
    BY <1>1 DEF N, At
  <1>3. Pushing' = Pushing /\ Popping' = Popping /\ Owing' = Owing /\ Reading' = Reading
    BY <1>2 DEF Pushing, Popping, Owing, Reading
  <1>4. Sound => Sound'
    BY <1>1 DEF Sound, AtPlace
  <1>5. Signals(wcount, wst)' = Signals(wcount, wst) /\ Signals(rcount, rst)' = Signals(rcount, rst)
    BY <1>1
  <1> QED BY <1>1, <1>3, <1>4, <1>5 DEF Places, Elements, Queued

\* What Places and Elements may be is what the capacity allows.
Balance == Sound /\ Places <= Capacity /\ Elements <= 0

LEMMA BalanceKept == Balance /\ [Next]_vars => Balance'
  <1> SUFFICES ASSUME Balance, [Next]_vars PROVE Balance'
    OBVIOUS
  <1>0. Places \in Int /\ Elements \in Int /\ Capacity \in Nat
    BY BalanceType, ChannelAssumption DEF Balance
  <1>1. ASSUME NEW c \in Client, NewCall(c) \/ Step(c) PROVE Balance'
    <2>1. Kept(c)
      BY <1>1, StepKept DEF Balance
    <2> QED BY <1>0, <2>1 DEF Balance, Kept
  <1>2. CASE UNCHANGED vars
    BY <1>2, StutterKept DEF Balance
  <1> QED BY <1>1, <1>2 DEF Next

LEMMA ReadsAreBacked == ASSUME Balance PROVE ReadBacked /\ Bounded
  <1>1. IInv /\ Cardinality(Readers) = Reading
    BY Balanced DEF Balance, N, Readers, Reading, ReaderPc
  <1>2. /\ Capacity \in Nat /\ wcount \in Nat /\ Reading \in Nat
        /\ Len(queue_) \in Nat /\ Cardinality(HoldW) \in Nat
    <2>1. Cardinality(HoldW) = Pushing + Granted(wst) /\ Granted(wst) \in Nat
      BY HoldCount, GrantedNat DEF Balance
    <2> QED BY <2>1, NumbersNat, ChannelAssumption DEF Balance, Sound, SemState, Queued
  <1> QED BY <1>1, <1>2 DEF IInv, PlacesBounded, Bounded

\* The invariant of the model-checked scenes is inductive: each semaphore and its
\* clients agree on who waits, and neither places nor read signals outgrow what
\* the capacity, the readers in progress and the queued elements allow.
THEOREM ChannelInductive == Spec => []IInv
  <1>1. Init => Balance
    BY InitSound, ChannelAssumption DEF Balance
  <1>2. Balance => IInv
    BY Balanced DEF Balance
  <1> QED BY <1>1, <1>2, BalanceKept, PTL DEF Spec

\* queue_.front() and pop() are never reached on an empty queue, whatever times
\* out or gives up, for any coroutines, threads and capacity.
THEOREM ChannelReadBacked == Spec => []ReadBacked
  <1>1. Init => Balance
    BY InitSound, ChannelAssumption DEF Balance
  <1>2. Balance => ReadBacked
    BY ReadsAreBacked
  <1> QED BY <1>1, <1>2, BalanceKept, PTL DEF Spec

\* The queue never holds more than the capacity and one element for each reader
\* that has arrived and is still to pop.
THEOREM ChannelBounded == Spec => []Bounded
  <1>1. Init => Balance
    BY InitSound, ChannelAssumption DEF Balance
  <1>2. Balance => Bounded
    BY ReadsAreBacked
  <1> QED BY <1>1, <1>2, BalanceKept, PTL DEF Spec
-----------------------------------------------------------------------------
(* Coroutines alone: no signal is ever lost.                               *)

Exact == Sound /\ Places = Capacity /\ Elements = 0

\* The counters stay below their bound, so no signal is refused.
LEMMA NeverFull ==
    ASSUME Exact, Capacity + Cardinality(Client) < SizeMax
    PROVE  wcount < SizeMax /\ rcount < SizeMax
  <1>1. /\ Pushing \in Nat /\ Popping \in Nat /\ Owing \in Nat /\ Reading \in Nat
        /\ Queued \in Nat /\ Capacity \in Nat /\ SizeMax \in Nat
    BY NumbersNat, ChannelAssumption DEF Exact
  <1>2. /\ wcount \in Nat /\ Granted(wst) \in Nat
        /\ rcount \in Nat /\ Granted(rst) \in Nat
    BY GrantedNat DEF Exact, Sound, SemState
  <1>3. Reading <= Cardinality(Client) /\ Cardinality(Client) \in Nat
    <2>2. At(ReaderPc) \subseteq Client
      BY DEF At
    <2>3. Cardinality(At(ReaderPc)) <= Cardinality(Client)
      BY <2>2, ClientFinite, FS_Subset
    <2> QED BY <2>3, ClientFinite, FS_CardinalityType DEF Reading, N
  <1>4. wcount + Granted(wst) + Pushing + Queued - Reading = Capacity
    BY DEF Exact, Places, Signals
  <1>5. rcount + Granted(rst) + Popping + Owing - Queued = 0
    BY DEF Exact, Elements, Signals
  <1>6. Queued <= Capacity + Reading
    BY <1>1, <1>2, <1>4
  <1> QED BY <1>1, <1>2, <1>3, <1>4, <1>5, <1>6

\* A step of a coroutine keeps both balances as they are.
LEMMA ExactKept ==
    ASSUME Capacity + Cardinality(Client) < SizeMax, Exact,
           NEW c \in Coroutine, NewCall(c) \/ Step(c)
    PROVE  Exact'
  <1>1. Kept(c)
    BY StepKept DEF Exact, Client
  <1>2. wcount < SizeMax /\ rcount < SizeMax
    BY NeverFull
  <1> QED BY <1>1, <1>2 DEF Exact, Kept

LEMMA ExactTokens == ASSUME Exact PROVE TokensExact
  <1>1. /\ Pushing \in Nat /\ Popping \in Nat /\ Owing \in Nat /\ Reading \in Nat
        /\ Queued \in Nat /\ Capacity \in Nat
    BY NumbersNat, ChannelAssumption DEF Exact
  <1>2. /\ wcount \in Nat /\ Granted(wst) \in Nat
        /\ rcount \in Nat /\ Granted(rst) \in Nat
    BY GrantedNat DEF Exact, Sound, SemState
  <1>3. wcount + Granted(wst) + Pushing + Queued - Reading = Capacity
    BY DEF Exact, Places, Signals
  <1>4. rcount + Granted(rst) + Popping + Owing = Queued
    <2> DEFINE s == rcount + Granted(rst) + Popping + Owing
    <2>1. s \in Int /\ s - Queued = 0
      BY <1>1, <1>2 DEF Exact, Elements, Signals
    <2> HIDE DEF s
    <2>2. s = Queued
      BY <1>1, <2>1
    <2> QED BY <2>2 DEF s
  <1>5. /\ Cardinality(HoldW) = Pushing + Granted(wst)
        /\ Cardinality(HoldR) = Popping + Granted(rst)
    BY HoldCount DEF Exact
  <1>6. Cardinality(Readers) = Reading /\ Cardinality(Owe) = Owing
    BY DEF N, Readers, Owe, ReaderPc, Reading, Owing
  <1>7. wcount + Cardinality(HoldW) + Queued = Capacity + Cardinality(Readers)
    BY <1>1, <1>2, <1>3, <1>5, <1>6
  <1>8. rcount + Cardinality(HoldR) + Cardinality(Owe) = Queued
    <2>1. rcount + (Popping + Granted(rst)) + Owing = Queued
      BY <1>1, <1>2, <1>4
    <2> QED BY <1>5, <1>6, <2>1
  <1> QED BY <1>7, <1>8 DEF TokensExact, Queued

\* When everybody is blocked no signal is held, so the counters alone tell
\* whether there are elements and places.
LEMMA ExactNobody == ASSUME Exact, AllBlocked
                     PROVE  /\ rwaiters # <<>> => queue_ = <<>> /\ wwaiters = <<>>
                            /\ wwaiters # <<>> => Len(queue_) = Capacity
  <1>1. /\ Reading \in Nat /\ Queued \in Nat /\ Capacity \in Nat
        /\ wcount \in Nat /\ rcount \in Nat
        /\ rwaiters \in Seq(Coroutine) /\ wwaiters \in Seq(Coroutine) /\ queue_ \in Seq(Client)
    BY NumbersNat, ChannelAssumption DEF Exact, Sound, SemState
  <1>2. /\ \A c \in Coroutine : /\ Member(wwaiters, c) => wst[c] = "waiting" /\ pc[c] = "wait_w"
                                /\ Member(rwaiters, c) => rst[c] = "waiting" /\ pc[c] = "wait_r"
        /\ \A c : Member(wwaiters, c) \/ Member(rwaiters, c) => c \in Coroutine
    BY <1>1 DEF Exact, Sound, SemState, AtPlace, Member
  <1>3. \A c \in Client : pc[c] \in {"idle", "wait_w", "wait_r"}
    BY <1>2 DEF AllBlocked
  <1>4. Pushing = 0 /\ Popping = 0 /\ Owing = 0
    <2>1. At({"push"}) = {} /\ At({"pop"}) = {} /\ At({"signal_r"}) = {}
      BY <1>3 DEF At
    <2> QED BY <2>1, FS_EmptySet DEF Pushing, Popping, Owing, N
  <1>5. Granted(wst) = 0 /\ Granted(rst) = 0
    <2>1. ASSUME NEW c \in Coroutine PROVE wst[c] # "granted" /\ rst[c] # "granted"
      <3>1. c \in Client /\ (wst[c] = "granted" => pc[c] = "wait_w")
                         /\ (rst[c] = "granted" => pc[c] = "wait_r")
        BY DEF Exact, Sound, AtPlace, Client
      <3> QED BY <1>2, <3>1 DEF AllBlocked
    <2>2. {c \in Coroutine : wst[c] = "granted"} = {} /\ {c \in Coroutine : rst[c] = "granted"} = {}
      BY <2>1
    <2> QED BY <2>2, FS_EmptySet DEF Granted
  <1>6. wcount + Queued - Reading = Capacity /\ rcount = Queued
    <2>1. wcount + 0 + 0 + Queued - Reading = Capacity
      BY <1>4, <1>5 DEF Exact, Places, Signals
    <2>2. rcount + 0 + 0 + 0 - Queued = 0
      BY <1>4, <1>5 DEF Exact, Elements, Signals
    <2> QED BY <1>1, <2>1, <2>2
  <1>7. Reading > 0 <=> rwaiters # <<>>
    <2>1. At(ReaderPc) # {} <=> rwaiters # <<>>
      <3>1. ASSUME rwaiters # <<>> PROVE At(ReaderPc) # {}
        <4>1. Member(rwaiters, rwaiters[1])
          BY <1>1, <3>1 DEF Member
        <4>2. rwaiters[1] \in Client /\ pc[rwaiters[1]] = "wait_r"
          BY <1>2, <4>1 DEF Client
        <4> QED BY <4>2 DEF At, ReaderPc
      <3>2. ASSUME rwaiters = <<>>, NEW c \in At(ReaderPc) PROVE FALSE
        <4>1. c \in Client /\ pc[c] = "wait_r"
          BY <1>3 DEF At, ReaderPc
        <4>2. Member(rwaiters, c)
          BY <1>2, <4>1 DEF AllBlocked
        <4> QED BY <3>2, <4>2 DEF Member
      <3> QED BY <3>1, <3>2
    <2>2. IsFiniteSet(At(ReaderPc))
      BY ClientFinite, FS_Subset DEF At
    <2>3. Cardinality(At(ReaderPc)) = 0 <=> At(ReaderPc) = {}
      BY <2>2, FS_EmptySet
    <2> QED BY <1>1, <2>1, <2>3 DEF Reading, N
  <1>8. (wcount > 0 => wwaiters = <<>>) /\ (rcount > 0 => rwaiters = <<>>)
    BY DEF Exact, Sound, SemState
  <1>9. ASSUME rwaiters # <<>> PROVE queue_ = <<>> /\ wwaiters = <<>>
    <2>1. Queued = 0 /\ wcount > 0
      BY <1>1, <1>6, <1>7, <1>8, <1>9
    <2> QED BY <1>1, <1>8, <2>1 DEF Queued
  <1>10. ASSUME wwaiters # <<>> PROVE Len(queue_) = Capacity
    <2>1. Reading = 0 /\ wcount = 0
      BY <1>1, <1>7, <1>8, <1>9, <1>10
    <2> QED BY <1>1, <1>6, <2>1 DEF Queued
  <1> QED BY <1>9, <1>10

\* A channel without threads, or that no thread uses.
CastInv == cast \subseteq Client /\ (cast \cap Thread = {} => Exact)

LEMMA CastKept ==
    ASSUME Capacity + Cardinality(Client) < SizeMax,
           CastInv, [CastNext]_<<vars, cast>>
    PROVE  CastInv'
  <1>1. cast' = cast
    BY DEF CastNext
  <1>2. ASSUME cast \cap Thread = {} PROVE Exact'
    <2>1. Exact /\ cast \subseteq Coroutine
      BY <1>2 DEF CastInv, Client
    <2>2. CASE CastNext
      <3>1. PICK c \in cast : NewCall(c) \/ Step(c)
        BY <2>2 DEF CastNext
      <3> QED BY <2>1, <3>1, ExactKept
    <2>3. CASE UNCHANGED <<vars, cast>>
      BY <2>1, <2>3, StutterKept DEF Exact
    <2> QED BY <2>2, <2>3
  <1>3. cast' \subseteq Client
    BY <1>1 DEF CastInv
  <1> QED BY <1>1, <1>2, <1>3 DEF CastInv

\* In a channel that only coroutines use, however many threads there are besides,
\* no signal is lost or invented, however timed operations time out and give up.
\* The counters are size_t: the capacity and the clients are fewer than its values.
THEOREM ChannelExact ==
    ASSUME Capacity + Cardinality(Client) < SizeMax
    PROVE  CastSpec => []CoTokensExact
  <1>1. CastInit => CastInv
    BY InitSound DEF CastInit, CastInv, Exact
  <1>2. CastInv /\ [CastNext]_<<vars, cast>> => CastInv'
    BY CastKept
  <1>3. CastInv => CoTokensExact
    BY ExactTokens DEF CastInv, CoTokensExact
  <1> QED BY <1>1, <1>2, <1>3, PTL DEF CastSpec

\* Nor is a coroutine left blocked although there is an element or a place for it.
THEOREM ChannelForgetsNobody ==
    ASSUME Capacity + Cardinality(Client) < SizeMax
    PROVE  CastSpec => []CoNobodyForgotten
  <1>1. CastInit => CastInv
    BY InitSound DEF CastInit, CastInv, Exact
  <1>2. CastInv /\ [CastNext]_<<vars, cast>> => CastInv'
    BY CastKept
  <1>3. CastInv => CoNobodyForgotten
    BY ExactNobody DEF CastInv, CoNobodyForgotten, NobodyForgotten
  <1> QED BY <1>1, <1>2, <1>3, PTL DEF CastSpec
=============================================================================
