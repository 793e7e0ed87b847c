--------------------------- MODULE RedisPoolProofs ---------------------------
(***************************************************************************)
(* Proofs about RedisPool, for any finite set of worker threads, any size  *)
(* of the pools, any number of requests and any answers of the servers;    *)
(* and about Redispp, the pipelined client, at the end.                    *)
(***************************************************************************)
EXTENDS RedisPool, Pipeline, QueueLemmas, FiniteSetTheorems

-----------------------------------------------------------------------------
(* Types.                                                                  *)

\* A fresh pool has the right type.
LEMMA InitTypeOK == Init => TypeOK
  <1> SUFFICES ASSUME Init PROVE TypeOK
    OBVIOUS
  <1>1. FullQueue("slot") \in Seq(Connection)
    BY ConstAssumption DEF FullQueue, Connection, Pool
  <1>2. queue \in [Pool -> Seq(Connection)]
    BY <1>1 DEF Init
  <1> QED BY <1>2, ConstAssumption DEF Init, TypeOK, Connection, Pool, WorkerPc, Reply

\* The steps that move connections between queues and threads.
LEMMA PoolStepType ==
    ASSUME TypeOK, HeldInv, NEW w \in Worker,
           \/ PullConnection(w) \/ InsertHost(w) \/ PushConnection(w) \/ NotifyOne(w)
    PROVE  TypeOK'
  <1> USE DEF poolVars, requestVars
  <1>p. /\ pc \in [Worker -> WorkerPc]
        /\ {"use", "waiting", "failed", "notify", "decide", "pull"} \subseteq WorkerPc
    BY DEF TypeOK, WorkerPc
  <1>q. queue \in [Pool -> Seq(Connection)] /\ Target(w) \in Pool /\ "host" \in Pool
    BY DEF TypeOK, Target, Pool
  <1>c. con \in [Worker -> Connection \cup {NoCon}]
    BY DEF TypeOK
  <1>v. waiting \in [Pool -> SUBSET Worker]
    BY DEF TypeOK
  <1>1. CASE PullConnection(w)
    <2> DEFINE q == queue[Target(w)]
    <2>1. q # <<>> => Head(q) \in Connection /\ Tail(q) \in Seq(Connection)
      BY <1>q
    <2> HIDE DEF q
    <2>2. queue' \in [Pool -> Seq(Connection)] /\ con' \in [Worker -> Connection \cup {NoCon}]
      BY <1>c, <1>q, <1>1, <2>1 DEF PullConnection, q
    <2>3. waiting' \in [Pool -> SUBSET Worker]
      BY <1>v, <1>q, <1>1 DEF PullConnection
    <2>4. pc' \in [Worker -> WorkerPc]
      BY <1>p, <1>1 DEF PullConnection, Goto
    <2> QED BY <1>1, <2>2, <2>3, <2>4 DEF PullConnection, TypeOK
  <1>2. CASE InsertHost(w)
    <2> DEFINE f == FullQueue("host")
    <2>1. /\ f \in Seq(Connection) /\ Len(f) = PoolSize /\ f # <<>>
          /\ \A i \in 1..PoolSize : <<"host", i>> \in Connection
      BY ConstAssumption DEF FullQueue, Connection, Pool
    <2> HIDE DEF f
    <2>2. /\ Head(f) \in Connection /\ Tail(f) \in Seq(Connection)
          /\ \A k \in 0..(PoolSize - 1) : SubSeq(f, 1, k) \in Seq(Connection)
      BY <2>1, ConstAssumption
    <2>3. queue' \in [Pool -> Seq(Connection)]
      BY <1>q, <1>2, <2>2 DEF InsertHost, f
    <2>4. con' \in [Worker -> Connection \cup {NoCon}]
      BY <1>c, <1>2, <2>2 DEF InsertHost, f
    <2>5. made' \subseteq Connection
      <3>1. made \subseteq Connection
        BY DEF TypeOK
      <3>2. \A k \in 0..(PoolSize - 1) : 1..k \subseteq 1..PoolSize
        BY ConstAssumption
      <3> QED BY <1>2, <2>1, <3>1, <3>2 DEF InsertHost
    <2>6. pc' \in [Worker -> WorkerPc]
      BY <1>p, <1>2 DEF InsertHost, Goto
    <2>7. exists' \subseteq Pool
      BY <1>2 DEF InsertHost, TypeOK, Pool
    <2> QED BY <1>2, <2>3, <2>4, <2>5, <2>6, <2>7 DEF InsertHost, TypeOK
  <1>3. CASE PushConnection(w)
    <2>1. con[w] \in Connection
      BY <1>c, <1>3 DEF PushConnection, HeldInv
    <2>2. queue' \in [Pool -> Seq(Connection)]
      BY <1>q, <1>3, <2>1 DEF PushConnection
    <2>3. con' \in [Worker -> Connection \cup {NoCon}] /\ pc' \in [Worker -> WorkerPc]
      BY <1>c, <1>p, <1>3 DEF PushConnection, Goto
    <2> QED BY <1>3, <2>2, <2>3 DEF PushConnection, TypeOK
  <1>4. CASE NotifyOne(w)
    <2>1. waiting' \in [Pool -> SUBSET Worker]
      BY <1>v, <1>q, <1>4 DEF NotifyOne
    <2>2. pc' \in [Worker -> WorkerPc]
      BY <1>p, <1>4 DEF NotifyOne, Goto
    <2> QED BY <1>4, <2>1, <2>2 DEF NotifyOne, TypeOK
  <1> QED BY <1>1, <1>2, <1>3, <1>4

\* The steps of a command and of a request.
LEMMA CommandStepType ==
    ASSUME TypeOK, NEW w \in Worker,
           \/ BeginRequest(w) \/ SendCommand(w) \/ SendAsking(w) \/ DeadRedirect(w)
           \/ CheckRetry(w) \/ Redirect(w) \/ Critical(w) \/ CommandEnds(w)
           \/ Answer(w) \/ Fail(w)
    PROVE  TypeOK'
  <1> USE DEF poolVars, requestVars
  <1>p. pc \in [Worker -> WorkerPc] /\ \A l \in WorkerPc : Goto(w, l) => pc' \in [Worker -> WorkerPc]
    BY DEF TypeOK, Goto
  <1>l. {"pull", "check", "push", "failed", "undefined", "answer", "idle"} \subseteq WorkerPc
    BY DEF WorkerPc
  <1>s. stage \in [Worker -> {"first", "ask", "retry", "moved"}]
    BY DEF TypeOK
  <1>r. reply \in [Worker -> Reply] /\ Answers \subseteq Reply /\ "ok" \in Reply
    BY ConstAssumption DEF TypeOK, Reply
  <1>n. /\ got \in [Worker -> Nat] /\ floor \in [Worker -> Nat]
        /\ value \in Nat /\ best \in Nat /\ step \in [Worker -> {1, 2}]
        /\ incremented \in [Worker -> BOOLEAN]
    BY DEF TypeOK
  <1>1. CASE BeginRequest(w)
    <2>1. floor' \in [Worker -> Nat] /\ pc' \in [Worker -> WorkerPc]
      BY <1>1, <1>n, <1>p, <1>l DEF BeginRequest
    <2> QED BY <1>1, <2>1 DEF BeginRequest, TypeOK
  <1>2. CASE SendCommand(w)
    <2> PICK a \in Answers : /\ Execute(w, a)
                             /\ reply' = [reply EXCEPT ![w] = a]
      BY <1>2 DEF SendCommand
    <2>1. reply' \in [Worker -> Reply]
      BY <1>r
    <2>2. value' \in Nat
      BY <1>n DEF Execute
    <2>3. got' \in [Worker -> Nat]
      BY <1>n, <2>2 DEF Execute
    <2>4. incremented' \in [Worker -> BOOLEAN]
      BY <1>n DEF Execute
    <2>5. pc' \in [Worker -> WorkerPc]
      BY <1>2, <1>p, <1>l DEF SendCommand
    <2> QED BY <1>2, <2>1, <2>2, <2>3, <2>4, <2>5 DEF SendCommand, TypeOK
  <1>3. CASE SendAsking(w)
    <2>1. pc' \in [Worker -> WorkerPc]
      BY <1>3, <1>p, <1>l DEF SendAsking
    <2>2. stage' \in [Worker -> {"first", "ask", "retry", "moved"}]
      BY <1>3, <1>s DEF SendAsking
    <2> QED BY <1>3, <2>1, <2>2 DEF SendAsking, TypeOK
  <1>4. CASE DeadRedirect(w) \/ CheckRetry(w) \/ Critical(w)
    <2>1. pc' \in [Worker -> WorkerPc]
      BY <1>4, <1>p, <1>l DEF DeadRedirect, CheckRetry, Critical
    <2> QED BY <1>4, <2>1 DEF DeadRedirect, CheckRetry, Critical, TypeOK
  <1>5. CASE Redirect(w)
    <2>1. /\ pc' \in [Worker -> WorkerPc]
          /\ stage' \in [Worker -> {"first", "ask", "retry", "moved"}]
          /\ reply' \in [Worker -> Reply]
      BY <1>5, <1>p, <1>l, <1>s, <1>r DEF Redirect
    <2> QED BY <1>5, <2>1 DEF Redirect, TypeOK
  <1>6. CASE CommandEnds(w)
    <2>1. /\ pc' \in [Worker -> WorkerPc]
          /\ stage' \in [Worker -> {"first", "ask", "retry", "moved"}]
          /\ reply' \in [Worker -> Reply]
      BY <1>6, <1>p, <1>l, <1>s, <1>r DEF CommandEnds
    <2>2. step' \in [Worker -> {1, 2}]
      <3>1. Len(Plan) = 2
        BY DEF Plan
      <3> QED BY <1>6, <1>n, <3>1 DEF CommandEnds
    <2> QED BY <1>6, <2>1, <2>2 DEF CommandEnds, TypeOK
  <1>7. CASE Answer(w) \/ Fail(w)
    <2>1. Reset(w) /\ best' \in Nat
      BY <1>7, <1>n DEF Answer, Fail
    <2>2. /\ pc' \in [Worker -> WorkerPc]
          /\ stage' \in [Worker -> {"first", "ask", "retry", "moved"}]
          /\ reply' \in [Worker -> Reply]
      BY <2>1, <1>p, <1>l, <1>s, <1>r DEF Reset
    <2>3. /\ got' \in [Worker -> Nat] /\ floor' \in [Worker -> Nat]
          /\ step' \in [Worker -> {1, 2}]
          /\ incremented' \in [Worker -> BOOLEAN]
      BY <2>1, <1>n DEF Reset
    <2>4. con' \in [Worker -> Connection \cup {NoCon}]
      BY <2>1 DEF Reset, TypeOK
    <2> QED BY <2>1, <2>2, <2>3, <2>4 DEF Reset, TypeOK
  <1> QED BY <1>1, <1>2, <1>3, <1>4, <1>5, <1>6, <1>7

\* Every step keeps the types; only releasing needs to know that there is a
\* connection to release.
LEMMA NextTypeOK == ASSUME TypeOK, HeldInv, [Next]_vars PROVE TypeOK'
  <1>1. ASSUME NEW w \in Worker, BeginRequest(w) \/ Work(w) PROVE TypeOK'
    BY <1>1, PoolStepType, CommandStepType DEF Work
  <1>2. CASE Disconnect
    BY <1>2 DEF Disconnect, TypeOK, poolVars, requestVars
  <1>3. CASE DisconnectPool
    <2>1. queue' \in [Pool -> Seq(Connection)]
      BY <1>3 DEF DisconnectPool, TypeOK
    <2>2. closing' \in {"no", "begun", "done"}
      BY <1>3 DEF DisconnectPool
    <2> QED BY <1>3, <2>1, <2>2 DEF DisconnectPool, TypeOK, requestVars
  <1>4. CASE UNCHANGED vars
    BY <1>4 DEF vars, poolVars, requestVars, TypeOK
  <1> QED BY <1>1, <1>2, <1>3, <1>4 DEF Next
-----------------------------------------------------------------------------
(* Connections and waiting threads.                                        *)

\* A step of w leaves the other threads where they are.
OnlyMoves(w) == \A x \in Worker : x # w => /\ pc'[x] = pc[x] /\ stage'[x] = stage[x]
                                          /\ con'[x] = con[x]

\* How many threads are on their way to a pool is a number, and a change of one
\* thread changes it by one.
LEMMA ComingCount ==
    ASSUME NEW p
    PROVE  /\ Cardinality(Coming(p)) \in Nat /\ Cardinality(Coming(p)') \in Nat
           /\ Coming(p) \subseteq Coming(p)'
                 => Cardinality(Coming(p)) <= Cardinality(Coming(p)')
           /\ \A w : Coming(p) \ {w} \subseteq Coming(p)'
                 => Cardinality(Coming(p)) <= Cardinality(Coming(p)') + 1
           /\ \A w : w \notin Coming(p) /\ Coming(p) \cup {w} \subseteq Coming(p)'
                 => Cardinality(Coming(p)) + 1 <= Cardinality(Coming(p)')
           /\ \A w, x : w \in Coming(p) /\ x \notin Coming(p)
                       /\ (Coming(p) \ {w}) \cup {x} \subseteq Coming(p)'
                 => Cardinality(Coming(p)) <= Cardinality(Coming(p)')
  <1> DEFINE A == Coming(p)
             B == Coming(p)'
  <1>1. IsFiniteSet(A) /\ IsFiniteSet(B)
    <2>1. A \subseteq Worker /\ B \subseteq Worker
      BY DEF Coming
    <2> QED BY <2>1, FS_Subset, ConstAssumption
  <1> HIDE DEF A, B
  <1>2. Cardinality(A) \in Nat /\ Cardinality(B) \in Nat
    BY <1>1, FS_CardinalityType
  <1>3. ASSUME NEW C, C \subseteq B PROVE IsFiniteSet(C) /\ Cardinality(C) <= Cardinality(B)
    BY <1>1, <1>3, FS_Subset
  <1>4. ASSUME NEW w, NEW C, C = A \ {w}
        PROVE  /\ IsFiniteSet(C) /\ Cardinality(C) \in Nat
               /\ Cardinality(A) <= Cardinality(C) + 1
    <2>1. CASE w \in A
      <3>1. IsFiniteSet(C) /\ Cardinality(C) = Cardinality(A) - 1
        BY <1>1, <1>4, <2>1, FS_RemoveElement, Zenon
      <3> QED BY <1>2, <3>1, FS_CardinalityType
    <2>2. CASE w \notin A
      <3>1. C = A
        BY <1>4, <2>2
      <3> QED BY <1>1, <1>2, <3>1
    <2> QED BY <2>1, <2>2
  <1>5. ASSUME NEW w, A \ {w} \subseteq B PROVE Cardinality(A) <= Cardinality(B) + 1
    <2> DEFINE C == A \ {w}
    <2>1. C \subseteq B
      BY <1>5
    <2>2. Cardinality(C) \in Nat /\ Cardinality(A) <= Cardinality(C) + 1
      BY <1>4
    <2> HIDE DEF C
    <2>3. Cardinality(C) <= Cardinality(B)
      BY <1>3, <2>1
    <2> QED BY <1>2, <2>2, <2>3
  <1>6. ASSUME NEW w, w \notin A, A \cup {w} \subseteq B
        PROVE  Cardinality(A) + 1 <= Cardinality(B)
    <2>1. Cardinality(A \cup {w}) = Cardinality(A) + 1
      BY <1>1, <1>6, FS_AddElement
    <2> QED BY <1>3, <1>6, <2>1
  <1>7. ASSUME NEW w, NEW x, w \in A, x \notin A, (A \ {w}) \cup {x} \subseteq B
        PROVE  Cardinality(A) <= Cardinality(B)
    <2> DEFINE C == A \ {w}
    <2>1. x \notin C /\ C \cup {x} \subseteq B
      BY <1>7
    <2>2. IsFiniteSet(C) /\ Cardinality(C) \in Nat /\ Cardinality(A) <= Cardinality(C) + 1
      BY <1>4
    <2> HIDE DEF C
    <2>3. Cardinality(C \cup {x}) = Cardinality(C) + 1
      BY <2>1, <2>2, FS_AddElement
    <2>4. Cardinality(C \cup {x}) <= Cardinality(B)
      BY <1>3, <2>1
    <2> QED BY <1>2, <2>2, <2>3, <2>4
  <1> QED BY <1>2, <1>3, <1>5, <1>6, <1>7 DEF A, B

\* A step of one thread that touches no pool and wakes nobody.
LEMMA LocalStep ==
    ASSUME TypeOK, TypeOK', PoolInv, NEW w \in Worker, OnlyMoves(w),
           UNCHANGED <<exists, made, queue, waiting, closing>>,
           closing = "no", pc[w] \notin {"pull", "waiting", "notify"},
           con'[w] # NoCon => /\ con'[w] = con[w]
                              /\ pc'[w] \in {"use", "check", "push", "failed", "undefined"},
           pc'[w] \in {"use", "check", "push"} => con'[w] # NoCon /\ con'[w][1] = Target(w)'
    PROVE  PoolInv'
  <1>1. QueueInv'
    BY DEF PoolInv, QueueInv
  <1>2. HeldInv'
    <2>1. \A x \in Worker : con'[x] \in {con[x], NoCon}
      BY DEF OnlyMoves
    <2>2. ASSUME NEW x \in Worker, con'[x] # NoCon
          PROVE  /\ con'[x] \in made'
                 /\ pc'[x] \in {"use", "check", "push", "failed", "undefined"}
                 /\ \A p \in Pool : ~Member(queue'[p], con'[x])
                 /\ \A v \in Worker : con'[v] = con'[x] => v = x
      <3>1. con'[x] = con[x] /\ con[x] # NoCon
        BY <2>1, <2>2
      <3>2. pc'[x] \in {"use", "check", "push", "failed", "undefined"}
        BY <2>2, <3>1 DEF OnlyMoves, PoolInv, HeldInv
      <3>3. \A v \in Worker : con'[v] = con'[x] => v = x
        BY <2>1, <2>2, <3>1 DEF PoolInv, HeldInv
      <3> QED BY <3>1, <3>2, <3>3 DEF PoolInv, HeldInv
    <2>3. ASSUME NEW x \in Worker, pc'[x] \in {"use", "check", "push"}
          PROVE  con'[x] # NoCon /\ con'[x][1] = Target(x)'
      BY <2>3 DEF OnlyMoves, PoolInv, HeldInv, Target
    <2> QED BY <2>2, <2>3 DEF HeldInv
  <1>3. ExistsInv'
    BY DEF PoolInv, ExistsInv
  <1>4. WaitInv'
    <2> SUFFICES ASSUME NEW p \in Pool
                 PROVE  /\ \A x \in waiting'[p] : pc'[x] = "waiting" /\ Target(x)' = p
                        /\ waiting'[p] # {} => Len(queue'[p]) <= Cardinality(Coming(p)')
      BY DEF WaitInv
    <2>1. \A x \in waiting[p] : x \in Worker /\ x # w /\ pc[x] = "waiting" /\ Target(x) = p
      BY DEF TypeOK, PoolInv, WaitInv
    <2>2. Coming(p) \subseteq Coming(p)'
      BY DEF Coming, OnlyMoves, Target
    <2>3. queue[p] \in Seq(Connection)
      BY DEF TypeOK
    <2>4. Cardinality(Coming(p)) <= Cardinality(Coming(p)')
      BY <2>2, ComingCount
    <2>5. waiting[p] # {} => Len(queue[p]) <= Cardinality(Coming(p))
      BY DEF PoolInv, WaitInv
    <2>6. Len(queue[p]) \in Nat
      BY <2>3
    <2>7. waiting'[p] # {} => Len(queue'[p]) <= Cardinality(Coming(p)')
      BY <2>4, <2>5, <2>6, ComingCount
    <2> QED BY <2>1, <2>7 DEF OnlyMoves, Target
  <1> QED BY <1>1, <1>2, <1>3, <1>4 DEF PoolInv

\* A fresh pool: every connection is free, nobody waits.
LEMMA InitPoolInv == Init => PoolInv
  <1> SUFFICES ASSUME Init PROVE PoolInv
    OBVIOUS
  <1>1. QueueInv
    <2>1. /\ Len(queue["slot"]) = PoolSize /\ Len(queue["host"]) = 0
          /\ \A i \in 1..PoolSize : queue["slot"][i] = <<"slot", i>>
      BY ConstAssumption DEF Init, FullQueue, Pool
    <2>2. \A i \in 1..PoolSize : <<"slot", i>> \in made
      BY DEF Init
    <2>3. NoDup(queue["slot"]) /\ NoDup(queue["host"])
      BY <2>1, ConstAssumption DEF NoDup
    <2>4. \A i \in 1..Len(queue["slot"]) : queue["slot"][i] \in made /\ queue["slot"][i][1] = "slot"
      <3>1. \A i \in 1..PoolSize : <<"slot", i>>[1] = "slot"
        OBVIOUS
      <3> QED BY <2>1, <2>2, <3>1
    <2> QED BY <2>1, <2>3, <2>4 DEF QueueInv, Pool
  <1>2. HeldInv
    BY DEF Init, HeldInv
  <1>3. ExistsInv
    BY DEF Init, ExistsInv, Pool
  <1>4. WaitInv
    BY DEF Init, WaitInv
  <1> QED BY <1>1, <1>2, <1>3, <1>4 DEF PoolInv

\* Taking the first free connection, or going to sleep when there is none.
LEMMA PullPool ==
    ASSUME TypeOK, TypeOK', PoolInv, NEW w \in Worker, PullConnection(w)
    PROVE  PoolInv'
  <1> DEFINE p == Target(w)
             q == queue[p]
  <1>t. /\ queue \in [Pool -> Seq(Connection)] /\ con \in [Worker -> Connection \cup {NoCon}]
        /\ pc \in [Worker -> WorkerPc] /\ waiting \in [Pool -> SUBSET Worker]
        /\ p \in Pool /\ q \in Seq(Connection)
    BY DEF TypeOK, Target, Pool
  <1>o. /\ OnlyMoves(w) /\ UNCHANGED <<exists, made, closing, stage>> /\ pc[w] = "pull"
        /\ closing = "no" /\ NoDup(q)
    BY <1>t DEF PullConnection, OnlyMoves, Goto, PoolInv, ExistsInv, QueueInv
  <1>n. con[w] = NoCon
    BY <1>o DEF PoolInv, HeldInv
  <1>g. \A x \in Worker : Target(x)' = Target(x)
    BY <1>o DEF Target
  <1>1. CASE q # <<>>
    <2>1. /\ con' = [con EXCEPT ![w] = Head(q)] /\ queue' = [queue EXCEPT ![p] = Tail(q)]
          /\ pc' = [pc EXCEPT ![w] = "use"] /\ waiting' = waiting
      BY <1>1 DEF PullConnection, Goto
    <2>2. /\ Head(q) \in Connection /\ Member(q, Head(q)) /\ NoDup(Tail(q))
          /\ \A x : Member(Tail(q), x) <=> Member(q, x) /\ x # Head(q)
          /\ Len(Tail(q)) = Len(q) - 1 /\ Len(q) \in Nat
      BY <1>1, <1>t, <1>o, QueueTail
    <2>h. /\ Head(q) \in made /\ Head(q)[1] = p /\ Head(q) # NoCon
          /\ \A x \in Worker : con[x] # Head(q)
      <3>1. Head(q) # NoCon
        BY <2>2 DEF Connection, NoCon
      <3>2. Head(q) \in made /\ Head(q)[1] = p
        BY <1>t, <2>2 DEF PoolInv, QueueInv, Member
      <3>3. \A x \in Worker : con[x] # NoCon => ~Member(q, con[x])
        BY <1>t DEF PoolInv, HeldInv
      <3> QED BY <2>2, <3>1, <3>2, <3>3
    <2>m. \A r \in Pool : /\ \A x : Member(queue'[r], x) => Member(queue[r], x)
                          /\ NoDup(queue'[r]) /\ ~Member(queue'[r], Head(q))
      <3>1. \A r \in Pool : r # p => queue'[r] = queue[r]
        BY <1>t, <2>1
      <3>2. queue'[p] = Tail(q)
        BY <1>t, <2>1
      <3>3. ASSUME NEW r \in Pool, r # p PROVE ~Member(queue[r], Head(q)) /\ NoDup(queue[r])
        BY <2>h, <3>3 DEF Member, PoolInv, QueueInv
      <3> HIDE DEF p, q
      <3>4. ASSUME NEW r \in Pool, r = p
            PROVE  /\ \A x : Member(queue'[r], x) => Member(q, x)
                   /\ NoDup(queue'[r]) /\ ~Member(queue'[r], Head(q))
        BY <2>2, <3>2, <3>4
      <3>5. queue[p] = q
        BY DEF q
      <3> QED BY <3>1, <3>3, <3>4, <3>5
    <2> HIDE DEF p, q
    <2>3. QueueInv'
      <3>1. \A r \in Pool : \A x : Member(queue[r], x) => x \in made /\ x[1] = r
        BY DEF PoolInv, QueueInv, Member
      <3>2. \A r \in Pool : \A i \in 1..Len(queue'[r]) : Member(queue'[r], queue'[r][i])
        BY DEF Member
      <3> QED BY <1>o, <2>m, <3>1, <3>2 DEF QueueInv
    <2>4. HeldInv'
      <3>1. con'[w] = Head(q) /\ pc'[w] = "use"
        BY <1>t, <2>1
      <3>2. \A x \in Worker : x # w => /\ con'[x] = con[x] /\ pc'[x] = pc[x]
                                       /\ con[x] # Head(q)
        BY <1>o, <2>h DEF OnlyMoves
      <3>3. ASSUME NEW x \in Worker, con'[x] # NoCon
            PROVE  /\ con'[x] \in made'
                   /\ pc'[x] \in {"use", "check", "push", "failed", "undefined"}
                   /\ \A r \in Pool : ~Member(queue'[r], con'[x])
                   /\ \A v \in Worker : con'[v] = con'[x] => v = x
        <4>1. CASE x = w
          BY <1>o, <2>h, <2>m, <3>1, <3>2, <4>1
        <4>2. CASE x # w
          <5>1. /\ con[x] \in made /\ \A r \in Pool : ~Member(queue[r], con[x])
                /\ pc[x] \in {"use", "check", "push", "failed", "undefined"}
                /\ \A v \in Worker : con[v] = con[x] => v = x
            BY <3>2, <3>3, <4>2 DEF PoolInv, HeldInv
          <5> QED BY <1>o, <2>m, <3>1, <3>2, <4>2, <5>1
        <4> QED BY <4>1, <4>2
      <3>4. ASSUME NEW x \in Worker, pc'[x] \in {"use", "check", "push"}
            PROVE  con'[x] # NoCon /\ con'[x][1] = Target(x)'
        <4>1. CASE x = w
          BY <1>g, <1>t, <2>h, <3>1, <4>1 DEF p
        <4>2. CASE x # w
          BY <1>g, <1>t, <3>2, <3>4, <4>2 DEF PoolInv, HeldInv
        <4> QED BY <4>1, <4>2
      <3> QED BY <3>3, <3>4 DEF HeldInv
    <2>5. WaitInv'
      <3> SUFFICES ASSUME NEW r \in Pool
                   PROVE  /\ \A x \in waiting'[r] : pc'[x] = "waiting" /\ Target(x)' = r
                          /\ waiting'[r] # {} => Len(queue'[r]) <= Cardinality(Coming(r)')
        BY DEF WaitInv
      <3>1. \A x \in waiting[r] : x \in Worker /\ x # w /\ pc[x] = "waiting" /\ Target(x) = r
        BY <1>t, <1>o DEF PoolInv, WaitInv
      <3>2. Coming(r) \ {w} \subseteq Coming(r)'
        BY <1>o, <1>g DEF Coming, OnlyMoves
      <3>3. r # p => Coming(r) \subseteq Coming(r)'
        BY <1>o, <1>g DEF Coming, OnlyMoves, p
      <3>4. waiting[r] # {} => Len(queue[r]) <= Cardinality(Coming(r))
        BY DEF PoolInv, WaitInv
      <3>5. Len(queue[r]) \in Nat
        BY <1>t
      <3>6. CASE r = p
        <4>1. queue'[r] = Tail(q) /\ queue[r] = q
          BY <1>t, <2>1, <3>6 DEF q
        <4>2. Cardinality(Coming(r)) <= Cardinality(Coming(r)') + 1
          BY <3>2, ComingCount
        <4>3. waiting'[r] # {} => Len(queue'[r]) <= Cardinality(Coming(r)')
          BY <2>1, <2>2, <3>4, <4>1, <4>2, ComingCount
        <4> QED BY <1>o, <1>g, <2>1, <3>1, <4>3 DEF OnlyMoves
      <3>7. CASE r # p
        <4>1. queue'[r] = queue[r]
          BY <1>t, <2>1, <3>7
        <4>2. Cardinality(Coming(r)) <= Cardinality(Coming(r)')
          BY <3>3, <3>7, ComingCount
        <4>3. waiting'[r] # {} => Len(queue'[r]) <= Cardinality(Coming(r)')
          <5>1. Len(queue'[r]) = Len(queue[r]) /\ waiting'[r] = waiting[r]
            BY <2>1, <4>1
          <5>2. Cardinality(Coming(r)) \in Nat /\ Cardinality(Coming(r)') \in Nat
            BY ComingCount
          <5> QED BY <3>4, <3>5, <4>2, <5>1, <5>2
        <4> QED BY <1>o, <1>g, <2>1, <3>1, <4>3 DEF OnlyMoves
      <3> QED BY <3>6, <3>7
    <2>6. ExistsInv'
      BY <1>o, <2>1 DEF PoolInv, ExistsInv
    <2> QED BY <2>3, <2>4, <2>5, <2>6 DEF PoolInv
  <1>2. CASE q = <<>>
    <2>1. /\ waiting' = [waiting EXCEPT ![p] = @ \cup {w}] /\ pc' = [pc EXCEPT ![w] = "waiting"]
          /\ queue' = queue /\ con' = con /\ p \in exists
      BY <1>2 DEF PullConnection, Goto
    <2> HIDE DEF p
    <2>2. QueueInv'
      BY <1>o, <2>1 DEF PoolInv, QueueInv
    <2>3. HeldInv'
      BY <1>o, <1>n, <1>g, <1>t, <2>1 DEF PoolInv, HeldInv
    <2>4. ExistsInv'
      <3>1. "host" \notin exists => waiting'["host"] = waiting["host"]
        BY <1>t, <2>1
      <3> QED BY <1>o, <2>1, <3>1 DEF PoolInv, ExistsInv
    <2>5. WaitInv'
      <3> SUFFICES ASSUME NEW r \in Pool
                   PROVE  /\ \A x \in waiting'[r] : pc'[x] = "waiting" /\ Target(x)' = r
                          /\ waiting'[r] # {} => Len(queue'[r]) <= Cardinality(Coming(r)')
        BY DEF WaitInv
      <3>1. \A x \in waiting[r] : x \in Worker /\ x # w /\ pc[x] = "waiting" /\ Target(x) = r
        BY <1>t, <1>o DEF PoolInv, WaitInv
      <3>2. pc'[w] = "waiting" /\ \A x \in Worker : x # w => pc'[x] = pc[x]
        BY <1>t, <2>1
      <3>3. CASE r = p
        <4>1. waiting'[r] = waiting[r] \cup {w} /\ Len(queue'[r]) = 0
          BY <1>t, <1>2, <2>1, <3>3
        <4> QED BY <1>g, <3>1, <3>2, <3>3, <4>1, ComingCount DEF p
      <3>4. CASE r # p
        <4>1. waiting'[r] = waiting[r] /\ queue'[r] = queue[r] /\ Len(queue[r]) \in Nat
          BY <1>t, <2>1, <3>4
        <4>2. Coming(r) \subseteq Coming(r)'
          BY <1>g, <3>2, <3>4 DEF Coming, p
        <4>3. Cardinality(Coming(r)) <= Cardinality(Coming(r)')
          BY <4>2, ComingCount
        <4>4. waiting[r] # {} => Len(queue[r]) <= Cardinality(Coming(r))
          BY DEF PoolInv, WaitInv
        <4> QED BY <1>g, <3>1, <3>2, <4>1, <4>3, <4>4, ComingCount
      <3> QED BY <3>3, <3>4
    <2> QED BY <2>2, <2>3, <2>4, <2>5 DEF PoolInv
  <1> QED BY <1>1, <1>2

\* The pool of a new host: its connections are new, so nobody can have them.
LEMMA InsertPool ==
    ASSUME TypeOK, TypeOK', PoolInv, NEW w \in Worker, InsertHost(w)
    PROVE  PoolInv'
  <1> DEFINE F == FullQueue("host")
             h == queue'["host"]
  <1>t. /\ queue \in [Pool -> Seq(Connection)] /\ con \in [Worker -> Connection \cup {NoCon}]
        /\ pc \in [Worker -> WorkerPc] /\ waiting \in [Pool -> SUBSET Worker]
        /\ Pool = {"slot", "host"}
    BY DEF TypeOK, Pool
  <1>o. /\ OnlyMoves(w) /\ UNCHANGED <<closing, stage, waiting>> /\ pc[w] = "pull"
        /\ closing = "no" /\ "host" \in exists' /\ exists \subseteq exists' /\ made \subseteq made'
        /\ pc'[w] \in {"use", "failed"} /\ queue'["slot"] = queue["slot"]
    BY <1>t DEF InsertHost, OnlyMoves, Goto, PoolInv, ExistsInv
  <1>h. /\ Target(w) = "host" /\ waiting["host"] = {} /\ \A x \in made : x[1] # "host"
        /\ "slot" \in exists
    BY <1>o DEF InsertHost, PoolInv, ExistsInv, Target
  <1>n. con[w] = NoCon
    BY <1>o DEF PoolInv, HeldInv
  <1>g. \A x \in Worker : Target(x)' = Target(x)
    BY <1>o DEF Target
  <1>f. /\ F \in Seq(Connection) /\ Len(F) = PoolSize /\ F # <<>> /\ NoDup(F)
        /\ \A i \in 1..PoolSize : F[i] = <<"host", i>>
    BY ConstAssumption DEF FullQueue, Connection, Pool, NoDup
  <1> HIDE DEF F
  <1>1. /\ NoDup(h) /\ \A i \in 1..Len(h) : h[i] \in made' /\ h[i][1] = "host"
        /\ \/ con' = con /\ pc'[w] = "failed"
           \/ /\ con' = [con EXCEPT ![w] = Head(F)]
              /\ Head(F) \in made' /\ Head(F)[1] = "host" /\ ~Member(h, Head(F))
    <2>1. CASE /\ made' = made \cup {<<"host", i>> : i \in 1..PoolSize}
               /\ queue' = [queue EXCEPT !["host"] = Tail(F)]
               /\ con' = [con EXCEPT ![w] = Head(F)]
      <3>1. h = Tail(F)
        BY <1>t, <2>1
      <3>2. /\ Head(F) = <<"host", 1>> /\ Len(Tail(F)) = PoolSize - 1
            /\ \A i \in 1..(PoolSize - 1) : Tail(F)[i] = <<"host", i + 1>>
        BY <1>f, ConstAssumption
      <3>3. NoDup(h) /\ ~Member(h, Head(F))
        BY <1>f, <3>1, QueueTail
      <3>4. \A i \in 1..(PoolSize - 1) : i + 1 \in 1..PoolSize
        BY ConstAssumption
      <3>5. \A i \in 1..PoolSize : F[i] \in made' /\ F[i][1] = "host"
        <4>1. \A i \in 1..PoolSize : <<"host", i>> \in made'
          BY <2>1
        <4>2. \A i \in 1..PoolSize : F[i][1] = "host"
          BY <1>f
        <4> QED BY <1>f, <4>1, <4>2
      <3>6. \A i \in 1..Len(h) : h[i] = F[i + 1] /\ i + 1 \in 1..PoolSize
        BY <1>f, <3>1, <3>2, <3>4
      <3>7. \A i \in 1..Len(h) : h[i] \in made' /\ h[i][1] = "host"
        BY <3>5, <3>6
      <3>8. Head(F) = F[1] /\ 1 \in 1..PoolSize
        BY <1>f, ConstAssumption
      <3> QED BY <2>1, <3>3, <3>5, <3>7, <3>8
    <2>2. ASSUME NEW k \in 0..(PoolSize - 1),
                 made' = made \cup {<<"host", i>> : i \in 1..k},
                 queue' = [queue EXCEPT !["host"] = SubSeq(F, 1, k)],
                 con' = con, pc'[w] = "failed"
          PROVE  NoDup(h) /\ \A i \in 1..Len(h) : h[i] \in made' /\ h[i][1] = "host"
      <3>1. h = SubSeq(F, 1, k)
        BY <1>t, <2>2
      <3>2. Len(h) = k /\ \A i \in 1..k : h[i] = <<"host", i>>
        BY <1>f, <3>1, ConstAssumption
      <3>3. \A i \in 1..k : <<"host", i>> \in made' /\ <<"host", i>>[1] = "host"
        BY <2>2
      <3>4. NoDup(h)
        BY <3>2 DEF NoDup
      <3> QED BY <3>2, <3>3, <3>4
    <2> QED BY <1>t, <2>1, <2>2 DEF InsertHost, F, Goto
  <1>2. QueueInv'
    <2>1. \A i \in 1..Len(queue["slot"]) : queue["slot"][i] \in made /\ queue["slot"][i][1] = "slot"
      BY <1>t DEF PoolInv, QueueInv
    <2>2. NoDup(queue["slot"])
      BY <1>t DEF PoolInv, QueueInv
    <2> QED BY <1>o, <1>1, <1>t, <2>1, <2>2 DEF QueueInv
  <1>3. \A x \in Worker, p \in Pool : con[x] # NoCon => ~Member(queue'[p], con[x])
    <2>1. \A x \in Worker : con[x] # NoCon => con[x][1] # "host" /\ ~Member(queue["slot"], con[x])
      BY <1>h, <1>t DEF PoolInv, HeldInv
    <2>2. \A x : Member(h, x) => x[1] = "host"
      BY <1>1 DEF Member
    <2> QED BY <1>o, <1>t, <2>1, <2>2
  <1>4. HeldInv'
    <2>1. \A x \in Worker : x # w => /\ con'[x] = con[x] /\ pc'[x] = pc[x]
      BY <1>o DEF OnlyMoves
    <2>2. \A x \in Worker : con[x] # NoCon => con[x][1] # "host" /\ con[x] \in made'
      BY <1>h, <1>o DEF PoolInv, HeldInv
    <2>3. CASE con' = con /\ pc'[w] = "failed"
      BY <1>3, <1>g, <1>n, <2>1, <2>2, <2>3 DEF PoolInv, HeldInv
    <2>4. CASE /\ con' = [con EXCEPT ![w] = Head(F)]
               /\ Head(F) \in made' /\ Head(F)[1] = "host" /\ ~Member(h, Head(F))
      <3>1. con'[w] = Head(F) /\ Head(F) # NoCon
        BY <1>t, <2>4 DEF NoCon
      <3>2. \A p \in Pool : ~Member(queue'[p], Head(F))
        <4>1. ~Member(queue["slot"], Head(F))
          BY <1>t, <2>4 DEF Member, PoolInv, QueueInv
        <4> QED BY <1>t, <1>o, <2>4, <4>1
      <3>3. \A x \in Worker : x # w => con'[x] # Head(F)
        BY <2>1, <2>2, <2>4, <3>1
      <3>4. ASSUME NEW x \in Worker, con'[x] # NoCon
            PROVE  /\ con'[x] \in made'
                   /\ pc'[x] \in {"use", "check", "push", "failed", "undefined"}
                   /\ \A p \in Pool : ~Member(queue'[p], con'[x])
                   /\ \A v \in Worker : con'[v] = con'[x] => v = x
        <4>1. CASE x = w
          BY <1>o, <2>4, <3>1, <3>2, <3>3, <4>1
        <4>2. CASE x # w
          <5>1. /\ pc[x] \in {"use", "check", "push", "failed", "undefined"}
                /\ \A v \in Worker : con[v] = con[x] => v = x
            BY <2>1, <3>4, <4>2 DEF PoolInv, HeldInv
          <5> QED BY <1>3, <2>1, <2>2, <3>1, <3>3, <3>4, <4>2, <5>1
        <4> QED BY <4>1, <4>2
      <3>5. ASSUME NEW x \in Worker, pc'[x] \in {"use", "check", "push"}
            PROVE  con'[x] # NoCon /\ con'[x][1] = Target(x)'
        <4>1. CASE x = w
          BY <1>g, <1>h, <2>4, <3>1, <4>1
        <4>2. CASE x # w
          BY <1>g, <2>1, <3>5, <4>2 DEF PoolInv, HeldInv
        <4> QED BY <4>1, <4>2
      <3> QED BY <3>4, <3>5 DEF HeldInv
    <2> QED BY <1>1, <2>3, <2>4
  <1>5. ExistsInv'
    BY <1>o, <1>h DEF ExistsInv
  <1>6. WaitInv'
    <2>1. \A x \in waiting["slot"] : x \in Worker /\ x # w /\ pc[x] = "waiting" /\ Target(x) = "slot"
      BY <1>t, <1>o DEF PoolInv, WaitInv
    <2>2. Coming("slot") \subseteq Coming("slot")'
      BY <1>o, <1>g, <1>h DEF Coming, OnlyMoves
    <2>3. Cardinality(Coming("slot")) <= Cardinality(Coming("slot")')
      BY <2>2, ComingCount
    <2>4. waiting["slot"] # {} => Len(queue["slot"]) <= Cardinality(Coming("slot"))
      BY <1>t DEF PoolInv, WaitInv
    <2>5. /\ Cardinality(Coming("slot")) \in Nat /\ Cardinality(Coming("slot")') \in Nat
          /\ Len(queue["slot"]) \in Nat /\ Len(queue'["slot"]) = Len(queue["slot"])
      BY <1>t, <1>o, ComingCount
    <2>6. waiting'["slot"] # {} => Len(queue'["slot"]) <= Cardinality(Coming("slot")')
      BY <1>o, <2>3, <2>4, <2>5
    <2> QED BY <1>t, <1>o, <1>g, <1>h, <2>1, <2>6 DEF WaitInv, OnlyMoves
  <1> QED BY <1>2, <1>4, <1>5, <1>6 DEF PoolInv

\* Giving a connection back: the thread still has its notification to make.
LEMMA PushPool ==
    ASSUME TypeOK, TypeOK', PoolInv, NEW w \in Worker, PushConnection(w)
    PROVE  PoolInv'
  <1> DEFINE p == Target(w)
             q == queue[p]
             c == con[w]
  <1>t. /\ queue \in [Pool -> Seq(Connection)] /\ con \in [Worker -> Connection \cup {NoCon}]
        /\ pc \in [Worker -> WorkerPc] /\ waiting \in [Pool -> SUBSET Worker]
        /\ p \in Pool /\ q \in Seq(Connection)
    BY DEF TypeOK, Target, Pool
  <1>o. /\ OnlyMoves(w) /\ UNCHANGED <<exists, made, closing, stage, waiting>> /\ pc[w] = "push"
        /\ closing = "no" /\ NoDup(q) /\ con'[w] = NoCon /\ pc'[w] = "notify"
        /\ queue' = [queue EXCEPT ![p] = Append(q, c)]
    BY <1>t DEF PushConnection, OnlyMoves, Goto, PoolInv, ExistsInv, QueueInv
  <1>c. /\ c \in Connection /\ c \in made /\ c[1] = p
        /\ \A r \in Pool : ~Member(queue[r], c)
        /\ \A x \in Worker : con[x] = c => x = w
    BY <1>o, <1>t DEF PoolInv, HeldInv
  <1>g. \A x \in Worker : Target(x)' = Target(x)
    BY <1>o DEF Target
  <1>a. /\ \A x : Member(Append(q, c), x) <=> Member(q, x) \/ x = c
        /\ NoDup(Append(q, c)) /\ Len(Append(q, c)) = Len(q) + 1 /\ Len(q) \in Nat
    BY <1>t, <1>o, <1>c, QueueAppend
  <1> HIDE DEF c, q, p
  <1>m. /\ \A r \in Pool : r # p => queue'[r] = queue[r]
        /\ queue'[p] = Append(q, c) /\ queue[p] = q
    BY <1>t, <1>o DEF q
  <1>1. \A r \in Pool : \A x : Member(queue'[r], x) => Member(queue[r], x) \/ (x = c /\ r = p)
    <2>1. ASSUME NEW r \in Pool, NEW x, Member(queue'[r], x)
          PROVE  Member(queue[r], x) \/ (x = c /\ r = p)
      <3>1. CASE r = p
        BY <1>a, <1>m, <2>1, <3>1
      <3>2. CASE r # p
        <4>1. queue'[r] = queue[r]
          BY <1>m, <3>2
        <4> QED BY <2>1, <4>1
      <3> QED BY <3>1, <3>2
    <2> QED BY <2>1
  <1>2. QueueInv'
    <2>1. \A r \in Pool : \A x : Member(queue[r], x) => x \in made /\ x[1] = r
      BY DEF PoolInv, QueueInv, Member
    <2>2. \A r \in Pool : \A i \in 1..Len(queue'[r]) : Member(queue'[r], queue'[r][i])
      BY DEF Member
    <2>3. \A r \in Pool : NoDup(queue'[r])
      <3>1. \A r \in Pool : NoDup(queue[r])
        BY DEF PoolInv, QueueInv
      <3> QED BY <1>a, <1>m, <3>1
    <2>4. \A r \in Pool : \A x : Member(queue'[r], x) => x \in made' /\ x[1] = r
      BY <1>o, <1>1, <1>c, <2>1
    <2> QED BY <2>2, <2>3, <2>4 DEF QueueInv
  <1>3. HeldInv'
    <2>1. \A x \in Worker : x # w => /\ con'[x] = con[x] /\ pc'[x] = pc[x] /\ con[x] # c
      BY <1>o, <1>c DEF OnlyMoves
    <2>2. ASSUME NEW x \in Worker, con'[x] # NoCon
          PROVE  /\ con'[x] \in made'
                 /\ pc'[x] \in {"use", "check", "push", "failed", "undefined"}
                 /\ \A r \in Pool : ~Member(queue'[r], con'[x])
                 /\ \A v \in Worker : con'[v] = con'[x] => v = x
      <3>1. x # w /\ con'[x] = con[x] /\ con[x] # c
        BY <1>o, <2>1, <2>2
      <3>2. /\ con[x] \in made /\ pc[x] \in {"use", "check", "push", "failed", "undefined"}
            /\ \A r \in Pool : ~Member(queue[r], con[x])
            /\ \A v \in Worker : con[v] = con[x] => v = x
        BY <2>2, <3>1 DEF PoolInv, HeldInv
      <3> QED BY <1>o, <1>1, <2>1, <2>2, <3>1, <3>2
    <2>3. ASSUME NEW x \in Worker, pc'[x] \in {"use", "check", "push"}
          PROVE  con'[x] # NoCon /\ con'[x][1] = Target(x)'
      BY <1>o, <1>g, <2>1, <2>3 DEF PoolInv, HeldInv
    <2> QED BY <2>2, <2>3 DEF HeldInv
  <1>4. ExistsInv'
    BY <1>o DEF PoolInv, ExistsInv
  <1>5. WaitInv'
    <2> SUFFICES ASSUME NEW r \in Pool
                 PROVE  /\ \A x \in waiting'[r] : pc'[x] = "waiting" /\ Target(x)' = r
                        /\ waiting'[r] # {} => Len(queue'[r]) <= Cardinality(Coming(r)')
      BY DEF WaitInv
    <2>1. \A x \in waiting[r] : x \in Worker /\ x # w /\ pc[x] = "waiting" /\ Target(x) = r
      BY <1>t, <1>o DEF PoolInv, WaitInv
    <2>2. Coming(r) \subseteq Coming(r)' /\ w \notin Coming(r) /\ (r = p => w \in Coming(r)')
      BY <1>o, <1>g DEF Coming, OnlyMoves, p
    <2>3. waiting[r] # {} => Len(queue[r]) <= Cardinality(Coming(r))
      BY DEF PoolInv, WaitInv
    <2>4. /\ Cardinality(Coming(r)) \in Nat /\ Cardinality(Coming(r)') \in Nat
          /\ Len(queue[r]) \in Nat
      BY <1>t, ComingCount
    <2>5. CASE r = p
      <3>1. Len(queue'[r]) = Len(queue[r]) + 1
        BY <1>a, <1>m, <2>5
      <3>2. Cardinality(Coming(r)) + 1 <= Cardinality(Coming(r)')
        <4>1. w \notin Coming(r) /\ Coming(r) \cup {w} \subseteq Coming(r)'
          BY <2>2, <2>5
        <4> QED BY <4>1, ComingCount
      <3>3. waiting'[r] # {} => Len(queue'[r]) <= Cardinality(Coming(r)')
        BY <1>o, <2>3, <2>4, <3>1, <3>2
      <3> QED BY <1>o, <1>g, <2>1, <3>3 DEF OnlyMoves
    <2>6. CASE r # p
      <3>1. Len(queue'[r]) = Len(queue[r])
        BY <1>m, <2>6
      <3>2. Cardinality(Coming(r)) <= Cardinality(Coming(r)')
        BY <2>2, ComingCount
      <3>3. waiting'[r] # {} => Len(queue'[r]) <= Cardinality(Coming(r)')
        BY <1>o, <2>3, <2>4, <3>1, <3>2
      <3> QED BY <1>o, <1>g, <2>1, <3>3 DEF OnlyMoves
    <2> QED BY <2>5, <2>6
  <1> QED BY <1>2, <1>3, <1>4, <1>5 DEF PoolInv

\* One notification: it moves one waiter to the queue in the notifier's place.
LEMMA NotifyPool ==
    ASSUME TypeOK, TypeOK', PoolInv, NEW w \in Worker, NotifyOne(w)
    PROVE  PoolInv'
  <1> DEFINE p == Target(w)
  <1>t. /\ queue \in [Pool -> Seq(Connection)] /\ pc \in [Worker -> WorkerPc]
        /\ waiting \in [Pool -> SUBSET Worker] /\ p \in Pool
    BY DEF TypeOK, Target, Pool
  <1>o. /\ UNCHANGED <<exists, made, queue, con, closing, stage>> /\ pc[w] = "notify"
        /\ closing = "no"
    BY DEF NotifyOne, PoolInv, ExistsInv, poolVars
  <1>g. \A x \in Worker : Target(x)' = Target(x)
    BY <1>o DEF Target
  <1>w. \A r \in Pool : \A x \in waiting[r] :
           x \in Worker /\ x # w /\ pc[x] = "waiting" /\ Target(x) = r
    BY <1>t, <1>o DEF PoolInv, WaitInv
  <1>n. \A r \in Pool : /\ Cardinality(Coming(r)) \in Nat /\ Cardinality(Coming(r)') \in Nat
                        /\ Len(queue[r]) \in Nat /\ Len(queue'[r]) = Len(queue[r])
    BY <1>t, <1>o, ComingCount
  <1>l. \A r \in Pool : waiting[r] # {} => Len(queue[r]) <= Cardinality(Coming(r))
    BY DEF PoolInv, WaitInv
  <1> HIDE DEF p
  <1>1. /\ \A x \in Worker : pc[x] \notin {"notify", "waiting"} => pc'[x] = pc[x]
        /\ \A x \in Worker : pc'[x] \in {"use", "check", "push"} => pc'[x] = pc[x]
        /\ WaitInv'
    <2>1. CASE waiting[p] = {} /\ Goto(w, "decide") /\ waiting' = waiting
      <3>1. pc'[w] = "decide" /\ \A x \in Worker : x # w => pc'[x] = pc[x]
        BY <1>t, <2>1 DEF Goto
      <3>2. ASSUME NEW r \in Pool, waiting'[r] # {}
            PROVE  Len(queue'[r]) <= Cardinality(Coming(r)')
        <4>1. Coming(r) \subseteq Coming(r)'
          BY <1>g, <2>1, <3>1, <3>2 DEF Coming, p
        <4>2. Cardinality(Coming(r)) <= Cardinality(Coming(r)')
          BY <4>1, ComingCount
        <4> QED BY <1>l, <1>n, <2>1, <3>2, <4>2
      <3>3. \A r \in Pool : \A x \in waiting'[r] : pc'[x] = "waiting" /\ Target(x)' = r
        BY <1>g, <1>w, <2>1, <3>1
      <3>4. WaitInv'
        BY <3>2, <3>3 DEF WaitInv
      <3> QED BY <1>o, <3>1, <3>4
    <2>2. ASSUME NEW x \in waiting[p],
                 waiting' = [waiting EXCEPT ![p] = @ \ {x}],
                 pc' = [pc EXCEPT ![w] = "decide", ![x] = "pull"]
          PROVE  /\ \A y \in Worker : pc[y] \notin {"notify", "waiting"} => pc'[y] = pc[y]
                 /\ \A y \in Worker : pc'[y] \in {"use", "check", "push"} => pc'[y] = pc[y]
                 /\ WaitInv'
      <3>0. x \in Worker /\ x # w /\ pc[x] = "waiting" /\ Target(x) = p
        BY <1>t, <1>w
      <3>1. /\ pc'[w] = "decide" /\ pc'[x] = "pull"
            /\ \A y \in Worker : y # w /\ y # x => pc'[y] = pc[y]
        BY <1>t, <2>2, <3>0
      <3>2. \A r \in Pool : waiting'[r] = IF r = p THEN waiting[r] \ {x} ELSE waiting[r]
        BY <1>t, <2>2
      <3>3. ASSUME NEW r \in Pool, waiting'[r] # {}
            PROVE  Len(queue'[r]) <= Cardinality(Coming(r)')
        <4>1. Cardinality(Coming(r)) <= Cardinality(Coming(r)')
          <5>1. CASE r = p
            <6>1. /\ w \in Coming(r) /\ x \notin Coming(r)
                  /\ (Coming(r) \ {w}) \cup {x} \subseteq Coming(r)'
              BY <1>g, <1>o, <3>0, <3>1, <5>1 DEF Coming, p
            <6> QED BY <6>1, ComingCount
          <5>2. CASE r # p
            <6>1. Coming(r) \subseteq Coming(r)'
              BY <1>g, <3>0, <3>1, <5>2 DEF Coming, p
            <6> QED BY <6>1, ComingCount
          <5> QED BY <5>1, <5>2
        <4>2. waiting[r] # {}
          BY <3>2, <3>3
        <4> QED BY <1>l, <1>n, <4>1, <4>2
      <3>4. ASSUME NEW r \in Pool, NEW y \in waiting'[r]
            PROVE  pc'[y] = "waiting" /\ Target(y)' = r
        <4>1. y \in waiting[r] /\ (r = p => y # x)
          BY <3>2, <3>4
        <4>2. y # x
          BY <1>w, <3>0, <4>1
        <4> QED BY <1>g, <1>w, <3>1, <4>1, <4>2
      <3>5. WaitInv'
        BY <3>3, <3>4 DEF WaitInv
      <3> QED BY <1>o, <3>0, <3>1, <3>5
    <2> QED BY <2>1, <2>2 DEF NotifyOne, p
  <1>2. QueueInv'
    BY <1>o DEF PoolInv, QueueInv
  <1>3. HeldInv'
    <2>1. ASSUME NEW x \in Worker, con'[x] # NoCon
          PROVE  /\ con'[x] \in made'
                 /\ pc'[x] \in {"use", "check", "push", "failed", "undefined"}
                 /\ \A r \in Pool : ~Member(queue'[r], con'[x])
                 /\ \A v \in Worker : con'[v] = con'[x] => v = x
      BY <1>o, <1>1, <2>1 DEF PoolInv, HeldInv
    <2>2. ASSUME NEW x \in Worker, pc'[x] \in {"use", "check", "push"}
          PROVE  con'[x] # NoCon /\ con'[x][1] = Target(x)'
      BY <1>o, <1>1, <1>g, <2>2 DEF PoolInv, HeldInv
    <2> QED BY <2>1, <2>2 DEF HeldInv
  <1>4. ExistsInv'
    <2>1. "host" \notin exists => waiting'["host"] = {}
      <3>1. "host" \in Pool /\ ("host" \notin exists => waiting["host"] = {})
        BY <1>o DEF Pool, PoolInv, ExistsInv
      <3>2. waiting'["host"] \subseteq waiting["host"]
        BY <1>t, <3>1 DEF NotifyOne, p
      <3> QED BY <3>1, <3>2
    <2> QED BY <1>o, <2>1 DEF PoolInv, ExistsInv
  <1> QED BY <1>1, <1>2, <1>3, <1>4 DEF PoolInv

\* The steps of a command: they use the connection of their thread only.
LEMMA CommandPool ==
    ASSUME TypeOK, TypeOK', PoolInv, NEW w \in Worker,
           \/ BeginRequest(w) \/ SendCommand(w) \/ SendAsking(w) \/ DeadRedirect(w)
           \/ CheckRetry(w) \/ Redirect(w) \/ Critical(w) \/ CommandEnds(w)
           \/ Answer(w) \/ Fail(w)
    PROVE  PoolInv'
  <1> USE DEF poolVars, requestVars
  <1>t. /\ pc \in [Worker -> WorkerPc] /\ con \in [Worker -> Connection \cup {NoCon}]
        /\ stage \in [Worker -> {"first", "ask", "retry", "moved"}]
    BY DEF TypeOK
  <1>h. /\ con[w] # NoCon => pc[w] \in {"use", "check", "push", "failed", "undefined"}
        /\ pc[w] \in {"use", "check", "push"} => con[w] # NoCon /\ con[w][1] = Target(w)
        /\ pc[w] \notin {"idle", "undefined"} => closing = "no"
    BY DEF PoolInv, HeldInv, ExistsInv
  <1>1. CASE BeginRequest(w)
    <2>1. /\ OnlyMoves(w) /\ UNCHANGED <<exists, made, queue, waiting, closing>>
          /\ closing = "no" /\ pc[w] = "idle" /\ pc'[w] = "pull" /\ con'[w] = con[w]
      BY <1>1, <1>t DEF BeginRequest, OnlyMoves, Goto
    <2> QED BY <1>h, <2>1, LocalStep
  <1>2. CASE SendCommand(w)
    <2>1. /\ OnlyMoves(w) /\ UNCHANGED <<exists, made, queue, waiting, closing>>
          /\ pc[w] = "use" /\ pc'[w] \in {"check", "push"} /\ con'[w] = con[w]
          /\ Target(w)' = Target(w)
      BY <1>2, <1>t DEF SendCommand, OnlyMoves, Goto, Target
    <2> QED BY <1>h, <2>1, LocalStep
  <1>3. CASE SendAsking(w)
    <2>1. /\ OnlyMoves(w) /\ UNCHANGED <<exists, made, queue, waiting, closing>>
          /\ pc[w] = "use" /\ pc'[w] \in {"use", "failed"} /\ con'[w] = con[w]
          /\ Target(w)' = Target(w)
      BY <1>3, <1>t DEF SendAsking, OnlyMoves, Goto, Target
    <2> QED BY <1>h, <2>1, LocalStep
  <1>4. CASE DeadRedirect(w) \/ CheckRetry(w)
    <2>1. /\ OnlyMoves(w) /\ UNCHANGED <<exists, made, queue, waiting, closing>>
          /\ pc[w] \in {"use", "check"} /\ pc'[w] \in {"push", "failed", "undefined"}
          /\ con'[w] = con[w] /\ Target(w)' = Target(w)
      BY <1>4, <1>t DEF DeadRedirect, CheckRetry, OnlyMoves, Goto, Target
    <2> QED BY <1>h, <2>1, LocalStep
  <1>5. CASE Redirect(w) \/ Critical(w) \/ CommandEnds(w)
    <2>1. /\ OnlyMoves(w) /\ UNCHANGED <<exists, made, queue, waiting, closing>>
          /\ pc[w] = "decide" /\ pc'[w] \in {"pull", "failed", "undefined", "answer"}
          /\ con'[w] = con[w]
      BY <1>5, <1>t DEF Redirect, Critical, CommandEnds, OnlyMoves, Goto
    <2> QED BY <1>h, <2>1, LocalStep
  <1>6. CASE Answer(w) \/ Fail(w)
    <2>1. /\ OnlyMoves(w) /\ UNCHANGED <<exists, made, queue, waiting, closing>>
          /\ pc[w] \in {"answer", "failed"} /\ pc'[w] = "idle" /\ con'[w] = NoCon
      BY <1>6, <1>t DEF Answer, Fail, Reset, OnlyMoves, Goto
    <2> QED BY <1>h, <2>1, LocalStep
  <1> QED BY <1>1, <1>2, <1>3, <1>4, <1>5, <1>6

\* Closing: no command is running, and the pool that is closed is complete.
LEMMA ClosePool ==
    ASSUME TypeOK, TypeOK', PoolInv, Disconnect \/ DisconnectPool
    PROVE  PoolInv'
  <1>1. CASE Disconnect
    <2>1. /\ UNCHANGED <<exists, made, queue, waiting, pc, stage, con>> /\ closing' # "no"
          /\ \A w \in Worker : pc[w] \in {"idle", "undefined"}
      BY <1>1 DEF Disconnect, poolVars
    <2>2. QueueInv'
      BY <2>1 DEF PoolInv, QueueInv
    <2>3. HeldInv'
      BY <2>1 DEF PoolInv, HeldInv, Target
    <2>4. WaitInv'
      <3>1. waiting \in [Pool -> SUBSET Worker]
        BY DEF TypeOK
      <3>2. \A r \in Pool : waiting[r] = {}
        BY <2>1, <3>1 DEF PoolInv, WaitInv
      <3> QED BY <2>1, <3>2 DEF WaitInv
    <2> QED BY <2>1, <2>2, <2>3, <2>4 DEF PoolInv, ExistsInv
  <1>2. CASE DisconnectPool
    <2>1. PICK p \in exists : /\ Len(queue[p]) = PoolSize
                              /\ queue' = [queue EXCEPT ![p] = <<>>]
                              /\ made' = made \ {queue[p][i] : i \in 1..PoolSize}
      BY <1>2 DEF DisconnectPool
    <2>2. /\ UNCHANGED <<waiting, pc, stage, con>> /\ closing # "no" /\ closing' # "no"
          /\ \A w \in Worker : pc[w] \in {"idle", "undefined"} /\ Target(w)' = Target(w)
      BY <1>2 DEF DisconnectPool, PoolInv, ExistsInv, Target
    <2>t. queue \in [Pool -> Seq(Connection)] /\ waiting \in [Pool -> SUBSET Worker] /\ p \in Pool
      BY DEF TypeOK
    <2>3. /\ \A r \in Pool : r # p => queue'[r] = queue[r]
          /\ Len(queue'[p]) = 0
      BY <2>1, <2>t
    <2>4. \A x : x \in made' <=> x \in made /\ ~Member(queue[p], x)
      BY <2>1 DEF Member
    <2>5. QueueInv'
      <3> SUFFICES ASSUME NEW r \in Pool
                   PROVE  /\ NoDup(queue'[r])
                          /\ \A i \in 1..Len(queue'[r]) :
                                queue'[r][i] \in made' /\ queue'[r][i][1] = r
        BY DEF QueueInv
      <3>1. CASE r = p
        BY <2>3, <3>1 DEF NoDup
      <3>2. CASE r # p
        <4>1. /\ NoDup(queue[r])
              /\ \A i \in 1..Len(queue[r]) : queue[r][i] \in made /\ queue[r][i][1] = r
          BY DEF PoolInv, QueueInv
        <4>2. \A x : Member(queue[p], x) => x[1] = p
          BY <2>t DEF PoolInv, QueueInv, Member
        <4>3. \A i \in 1..Len(queue[r]) : queue[r][i] \in made'
          BY <2>4, <3>2, <4>1, <4>2
        <4> QED BY <2>3, <3>2, <4>1, <4>3
      <3> QED BY <3>1, <3>2
    <2>6. HeldInv'
      <3>1. \A x : ~Member(queue'[p], x)
        BY <2>3 DEF Member
      <3>2. \A r \in Pool : \A x : Member(queue'[r], x) => Member(queue[r], x)
        BY <2>3, <3>1
      <3>3. ASSUME NEW w \in Worker, con[w] # NoCon
            PROVE  /\ con[w] \in made'
                   /\ pc[w] \in {"use", "check", "push", "failed", "undefined"}
                   /\ \A r \in Pool : ~Member(queue'[r], con[w])
                   /\ \A v \in Worker : con[v] = con[w] => v = w
        BY <2>4, <2>t, <3>2, <3>3 DEF PoolInv, HeldInv
      <3> QED BY <2>2, <3>3 DEF HeldInv
    <2>7. WaitInv'
      <3>1. \A r \in Pool : waiting[r] = {}
        BY <2>2, <2>t DEF PoolInv, WaitInv
      <3> QED BY <2>2, <3>1 DEF WaitInv
    <2>8. ExistsInv'
      BY <2>2 DEF ExistsInv
    <2> QED BY <2>5, <2>6, <2>7, <2>8 DEF PoolInv
  <1> QED BY <1>1, <1>2
-----------------------------------------------------------------------------
(* Flow numbers.                                                           *)

\* The server's answer to a command.
LEMMA ExecuteFlow ==
    ASSUME TypeOK, FlowInv, NEW w \in Worker, NEW a \in Reply, Execute(w, a),
           UNCHANGED <<best, floor, step>>, pc'[w] # "idle",
           \A x \in Worker : x # w => pc'[x] = pc[x]
    PROVE  FlowInv'
  <1>t. /\ got \in [Worker -> Nat] /\ floor \in [Worker -> Nat]
        /\ value \in Nat /\ best \in Nat /\ step \in [Worker -> {1, 2}]
        /\ incremented \in [Worker -> BOOLEAN]
    BY DEF TypeOK
  <1>i. /\ best <= value
        /\ \A x \in Worker : /\ pc[x] = "idle" => ~incremented[x] /\ step[x] = 1
                             /\ floor[x] <= best /\ got[x] <= value
                             /\ step[x] = 1 => got[x] = 0
                             /\ incremented[x] => value > floor[x]
                             /\ incremented[x] /\ got[x] # 0 => got[x] > floor[x]
    BY DEF FlowInv
  <1>p. Plan[1] = "incr" /\ Plan[2] = "get"
    BY DEF Plan
  <1>1. value' \in Nat /\ value <= value'
    BY <1>t DEF Execute
  <1>o. \A x \in Worker : x # w => incremented'[x] = incremented[x] /\ got'[x] = got[x]
    BY <1>t DEF Execute
  <1>2. ASSUME NEW x \in Worker, x # w
        PROVE  /\ pc'[x] = "idle" => ~incremented'[x] /\ step'[x] = 1
               /\ floor'[x] <= best' /\ got'[x] <= value'
               /\ step'[x] = 1 => got'[x] = 0
               /\ incremented'[x] => value' > floor'[x]
               /\ incremented'[x] /\ got'[x] # 0 => got'[x] > floor'[x]
    BY <1>t, <1>i, <1>1, <1>o, <1>2
  <1>3. CASE step[w] = 1
    <2>1. got'[w] = 0
      BY <1>t, <1>i, <1>p, <1>3 DEF Execute
    <2>2. incremented'[w] => a = "ok"
      BY <1>t, <1>p, <1>3 DEF Execute
    <2>3. a = "ok" => value' = value + 1
      BY <1>p, <1>3 DEF Execute
    <2>4. incremented'[w] => value' > floor'[w]
      BY <1>t, <1>i, <2>2, <2>3
    <2>5. floor'[w] <= best' /\ best' <= value'
      BY <1>t, <1>i, <1>1
    <2> QED BY <1>1, <1>2, <1>3, <2>1, <2>4, <2>5 DEF FlowInv
  <1>4. CASE step[w] = 2
    <2>1. got'[w] \in {got[w], value'} /\ incremented'[w] = incremented[w] /\ value' = value
      BY <1>t, <1>p, <1>4 DEF Execute
    <2>2. /\ floor'[w] <= best' /\ got'[w] <= value' /\ best' <= value'
          /\ incremented'[w] => value' > floor'[w]
          /\ incremented'[w] /\ got'[w] # 0 => got'[w] > floor'[w]
      BY <1>t, <1>i, <2>1
    <2> QED BY <1>2, <1>4, <2>2 DEF FlowInv
  <1> QED BY <1>t, <1>3, <1>4

\* Every step keeps the counter ahead of the numbers given out.
LEMMA NextFlowInv == ASSUME TypeOK, FlowInv, [Next]_vars PROVE FlowInv'
  <1> USE DEF poolVars, requestVars
  <1>t. /\ got \in [Worker -> Nat] /\ floor \in [Worker -> Nat]
        /\ value \in Nat /\ best \in Nat /\ step \in [Worker -> {1, 2}]
        /\ incremented \in [Worker -> BOOLEAN] /\ pc \in [Worker -> WorkerPc]
    BY DEF TypeOK
  <1>i. /\ best <= value
        /\ \A x \in Worker : /\ pc[x] = "idle" => ~incremented[x] /\ step[x] = 1
                             /\ floor[x] <= best /\ got[x] <= value
                             /\ step[x] = 1 => got[x] = 0
                             /\ incremented[x] => value > floor[x]
                             /\ incremented[x] /\ got[x] # 0 => got[x] > floor[x]
    BY DEF FlowInv
  <1>s. ASSUME UNCHANGED <<value, best, incremented, got, floor, step>>,
               \A x \in Worker : pc'[x] = "idle" => pc[x] = "idle"
        PROVE  FlowInv'
    BY <1>i, <1>s DEF FlowInv
  <1>1. ASSUME NEW w \in Worker, BeginRequest(w) PROVE FlowInv'
    <2>1. /\ UNCHANGED <<value, best, incremented, got, step>> /\ pc[w] = "idle"
          /\ floor' = [floor EXCEPT ![w] = best]
          /\ \A x \in Worker : pc'[x] = "idle" => pc[x] = "idle"
      BY <1>1, <1>t DEF BeginRequest, Goto
    <2>2. \A x \in Worker : floor'[x] = IF x = w THEN best ELSE floor[x]
      BY <1>t, <2>1
    <2> QED BY <1>i, <1>t, <2>1, <2>2 DEF FlowInv
  <1>2. ASSUME NEW w \in Worker, SendCommand(w) PROVE FlowInv'
    <2>1. PICK a \in Answers : Execute(w, a)
      BY <1>2 DEF SendCommand
    <2>2. /\ a \in Reply /\ UNCHANGED <<best, floor, step>> /\ pc'[w] # "idle"
          /\ \A x \in Worker : x # w => pc'[x] = pc[x]
      BY <1>2, <1>t, ConstAssumption DEF SendCommand, Goto
    <2> QED BY <2>1, <2>2, ExecuteFlow
  <1>3. ASSUME NEW w \in Worker, CommandEnds(w) PROVE FlowInv'
    <2>1. /\ UNCHANGED <<value, best, incremented, got, floor>>
          /\ \A x \in Worker : pc'[x] = "idle" => pc[x] = "idle" /\ x # w
          /\ \A x \in Worker : x # w => step'[x] = step[x]
          /\ step'[w] = 2
      <3>1. Len(Plan) = 2
        BY DEF Plan
      <3> QED BY <1>3, <1>t, <3>1 DEF CommandEnds, Goto
    <2> QED BY <1>i, <1>t, <2>1 DEF FlowInv
  <1>4. ASSUME NEW w \in Worker, Answer(w) \/ Fail(w) PROVE FlowInv'
    <2>1. /\ best' \in {best, got[w]} /\ best <= best' /\ value' = value /\ Reset(w)
      BY <1>4, <1>t DEF Answer, Fail, Reset
    <2>2. /\ step'[w] = 1 /\ got'[w] = 0 /\ floor'[w] = 0 /\ ~incremented'[w]
          /\ \A x \in Worker : x # w => /\ step'[x] = step[x] /\ got'[x] = got[x]
                                        /\ floor'[x] = floor[x] /\ pc'[x] = pc[x]
                                        /\ incremented'[x] = incremented[x]
      BY <2>1, <1>t DEF Reset, Goto
    <2>3. best' <= value' /\ best' \in Nat
      BY <1>i, <1>t, <2>1
    <2>4. ASSUME NEW x \in Worker
          PROVE  /\ pc'[x] = "idle" => ~incremented'[x] /\ step'[x] = 1
                 /\ floor'[x] <= best' /\ got'[x] <= value'
                 /\ step'[x] = 1 => got'[x] = 0
                 /\ incremented'[x] => value' > floor'[x]
                 /\ incremented'[x] /\ got'[x] # 0 => got'[x] > floor'[x]
      <3>1. CASE x = w
        BY <1>t, <2>1, <2>2, <2>3, <3>1
      <3>2. CASE x # w
        BY <1>i, <1>t, <2>1, <2>2, <2>3, <3>2
      <3> QED BY <3>1, <3>2
    <2> QED BY <2>3, <2>4 DEF FlowInv
  <1>5. ASSUME NEW w \in Worker,
               \/ PullConnection(w) \/ InsertHost(w) \/ PushConnection(w) \/ NotifyOne(w)
        PROVE  FlowInv'
    <2>1. /\ UNCHANGED <<value, best, incremented, got, floor, step>>
          /\ \A x \in Worker : pc'[x] = "idle" => pc[x] = "idle"
      BY <1>5, <1>t DEF PullConnection, InsertHost, PushConnection, NotifyOne, Goto
    <2> QED BY <1>s, <2>1
  <1>6. ASSUME NEW w \in Worker,
               \/ SendAsking(w) \/ DeadRedirect(w) \/ CheckRetry(w) \/ Redirect(w) \/ Critical(w)
        PROVE  FlowInv'
    <2>1. /\ UNCHANGED <<value, best, incremented, got, floor, step>>
          /\ \A x \in Worker : pc'[x] = "idle" => pc[x] = "idle"
      BY <1>6, <1>t DEF SendAsking, DeadRedirect, CheckRetry, Redirect, Critical, Goto
    <2> QED BY <1>s, <2>1
  <1>7. CASE Disconnect \/ DisconnectPool \/ UNCHANGED vars
    <2>1. UNCHANGED <<value, best, incremented, got, floor, step, pc>>
      BY <1>7 DEF Disconnect, DisconnectPool, vars
    <2> QED BY <1>s, <2>1
  <1> QED BY <1>1, <1>2, <1>3, <1>4, <1>5, <1>6, <1>7 DEF Next, Work
-----------------------------------------------------------------------------
(* The results.                                                            *)

\* Every step keeps connections and waiting threads in order.
LEMMA NextPoolInv == ASSUME TypeOK, TypeOK', PoolInv, [Next]_vars PROVE PoolInv'
  <1>1. ASSUME NEW w \in Worker, BeginRequest(w) \/ Work(w) PROVE PoolInv'
    BY <1>1, PullPool, InsertPool, PushPool, NotifyPool, CommandPool DEF Work
  <1>2. CASE UNCHANGED vars
    <2>1. UNCHANGED <<exists, made, queue, waiting, pc, stage, con, closing>>
      BY <1>2 DEF vars, poolVars
    <2>2. QueueInv'
      BY <2>1 DEF PoolInv, QueueInv
    <2>3. HeldInv'
      BY <2>1 DEF PoolInv, HeldInv, Target
    <2>4. ExistsInv'
      BY <2>1 DEF PoolInv, ExistsInv
    <2>5. WaitInv'
      <3>1. \A p \in Pool : Coming(p)' = Coming(p)
        BY <2>1 DEF Coming, Target
      <3> QED BY <2>1, <3>1, Zenon DEF PoolInv, WaitInv, Target
    <2> QED BY <2>2, <2>3, <2>4, <2>5 DEF PoolInv
  <1> QED BY <1>1, <1>2, ClosePool DEF Next

\* The inductive invariant: types, connections and waiters, flow numbers.
THEOREM RedisPoolInductive == Spec => [](TypeOK /\ PoolInv /\ FlowInv)
  <1>1. Init => FlowInv
    BY DEF Init, FlowInv
  <1>2. TypeOK /\ PoolInv /\ FlowInv /\ [Next]_vars => (TypeOK /\ PoolInv /\ FlowInv)'
    BY NextTypeOK, NextPoolInv, NextFlowInv DEF PoolInv
  <1> QED BY <1>1, <1>2, InitTypeOK, InitPoolInv, PTL DEF Spec

\* A connection is in one place: free in its own pool, once, or used by one
\* thread (ThreadedPool::pullConnection and pushConnection).
THEOREM RedisPoolExclusive == Spec => []Exclusive
  <1>1. TypeOK /\ PoolInv => Exclusive
    <2> SUFFICES ASSUME TypeOK, PoolInv PROVE Exclusive
      OBVIOUS
    <2>1. \A p \in Pool : \A i, j \in 1..Len(queue[p]) :
             /\ queue[p][i] \in made /\ queue[p][i][1] = p
             /\ queue[p][i] = queue[p][j] => i = j
      BY DEF PoolInv, QueueInv, NoDup
    <2>2. Held \cap Free = {}
      <3>1. ASSUME NEW c \in Free PROVE \E p \in Pool : Member(queue[p], c)
        BY DEF Free, Member
      <3>2. ASSUME NEW c \in Held PROVE \A p \in Pool : ~Member(queue[p], c)
        BY DEF Held, PoolInv, HeldInv
      <3> QED BY <3>1, <3>2
    <2>3. \A w, x \in Worker : con[w] # NoCon /\ con[w] = con[x] => w = x
      BY DEF PoolInv, HeldInv
    <2> QED BY <2>1, <2>2, <2>3 DEF Exclusive
  <1> QED BY <1>1, RedisPoolInductive, PTL

\* Nobody sleeps on a pool that has a free connection while no notification
\* and no woken thread is on its way (notify_one comes after the unlock).
THEOREM RedisPoolNoForgottenWaiter == Spec => []NoForgottenWaiter
  <1>1. TypeOK /\ PoolInv => NoForgottenWaiter
    <2> SUFFICES ASSUME TypeOK, PoolInv, NEW p \in Pool, queue[p] # <<>>, waiting[p] # {}
                 PROVE  Coming(p) # {}
      BY DEF NoForgottenWaiter, Coming
    <2>1. Len(queue[p]) \in Nat /\ Len(queue[p]) > 0
      BY DEF TypeOK
    <2>2. Len(queue[p]) <= Cardinality(Coming(p))
      BY DEF PoolInv, WaitInv
    <2>3. Cardinality({}) = 0
      BY FS_EmptySet
    <2>4. ASSUME Coming(p) = {} PROVE FALSE
      <3>1. Cardinality(Coming(p)) = 0
        BY <2>3, <2>4, Zenon
      <3> QED BY <2>1, <2>2, <3>1
    <2> QED BY <2>4
  <1> QED BY <1>1, RedisPoolInductive, PTL

\* A flow number whose INCR was answered is higher than every number answered
\* before its request began (deal_with_flow_number).
THEOREM RedisPoolFlowNumberFresh == Spec => []FlowNumberFresh
  <1>1. FlowInv => FlowNumberFresh
    BY DEF FlowInv, FlowNumberFresh
  <1> QED BY <1>1, RedisPoolInductive, PTL
-----------------------------------------------------------------------------
(***************************************************************************)
(* The pipelined client: Redispp, for any number of commands and any       *)
(* lengths of multi-bulk answers (R!ConstOk).  While there is no lapse and *)
(* the stream works, the client is in step with the server: the lines on   *)
(* their way are sorted by the objects that are to read them, every object *)
(* that is to read something has its answer among them, and the lines of a *)
(* transaction are as many as it will read.                                *)
(***************************************************************************)
\* Answers, and the objects that read them.
Kinds == {"status", "int", "bulk", "multi", "queued"}
Item == [of : Nat, is : {"err", "status", "int", "bulk", "multi", "exec"}, len : Int]

\* The commands of an open transaction are only queued.
Pending(i) == state = "Dirty" /\ i > transaction
\* Objects whose answer is on its way, other than a transaction's.
Due(i) == i \in list /\ i # transaction /\ R!Unread(i) /\ ~Pending(i)

\* Objects are numbered as they are made; the transaction is the only queued one.
Objects ==
    /\ R!ConstOk
    /\ n \in 0..MaxCmd
    /\ list \subseteq 1..n
    /\ conn \in [R!Id -> BOOLEAN] /\ headerDone \in [R!Id -> BOOLEAN] /\ count \in [R!Id -> Int]
    /\ kind \in [R!Id -> Kinds \cup {"none"}]
    /\ \A i \in R!Id : i > n => ~headerDone[i]
    /\ \A i \in list : kind[i] # "none" /\ (kind[i] = "queued" => i = transaction)

\* The open transaction has queued all that was sent since, and nothing of it is read.
InTransaction ==
    /\ transaction \in 0..n
    /\ state \in {"Blank", "Dirty", "Committed", "Aborted"}
    /\ state = "Blank" <=> transaction = 0
    /\ transaction # 0 => transaction \in list /\ kind[transaction] = "queued"
    /\ transaction # 0 =>
          (conn[transaction] <=> state = "Dirty" \/ doing = "queued")
    /\ state = "Dirty" \/ doing = "queued" =>
          /\ queued = [x \in 1..(n - transaction) |-> transaction + x]
          /\ tcount = n - transaction
    /\ inMulti = IF state = "Dirty" THEN "open" ELSE "none"
    /\ state = "Dirty" => \A i \in (transaction + 1)..n :
                             i \in list /\ conn[i] /\ ~headerDone[i]

\* The read going on is of something that is to come.
Asked ==
    /\ doing \in {"none", "result", "next", "destroy", "type", "queued"}
    /\ R!Reading => Due(goal)
    /\ doing = "queued" => state \in {"Committed", "Aborted"}
    /\ doing = "type" => goal = n /\ n \notin list /\ state # "Dirty" /\ n # 0
                         /\ n # transaction /\ \A i \in list : ~Due(i)
    /\ doing # "queued" => qread = 0

\* A line of the transaction in the wire.
OfTransaction(t) == /\ t.of = transaction /\ t.len = 1
                    /\ state = "Dirty" \/ doing = "queued"
\* An answer to an object that is still to read it, of the kind it expects: of an
\* enumerator that has its header, the elements it counts.
Matches(t) ==
    LET i == t.of
    IN  /\ Due(i)
        /\ kind[i] \in R!Simple => t.is \in {kind[i], "err"} /\ t.len = 1
        /\ kind[i] = "multi" => IF headerDone[i] THEN t.is = "bulk" /\ t.len = count[i]
                                ELSE \/ t.is = "err" /\ t.len = 1
                                     \/ t.is = "multi"
\* The line type() waits for.
OfType(t) == doing = "type" /\ t \in {R!Line(goal, "status"), R!Line(goal, "err")}

\* EXEC has been refused, and the stream will fail when that is read.
ExecRefused == /\ doing = "queued" /\ state = "Committed"
               /\ wire[tcount + 2 - qread].is = "err"

\* The lines come in the order of the objects, each has an owner, and everybody who
\* is to read something finds it, if the stream does not fail first.
Sorted == \A x, y \in 1..Len(wire) : x < y =>
             \/ wire[x].of < wire[y].of
             \/ wire[x].of = transaction /\ wire[y].of = transaction
Owned == \A x \in 1..Len(wire) :
            OfTransaction(wire[x]) \/ Matches(wire[x]) \/ OfType(wire[x])
Sends == /\ ExecRefused \/ \A i \in list : Due(i) => \E x \in 1..Len(wire) : wire[x].of = i
         /\ doing = "type" => wire # <<>>
\* The transaction's lines: at the end while it is open, in front once it ends.
Lined ==
    /\ state = "Dirty" =>
          /\ tcount < Len(wire)
          /\ \A x \in 1..Len(wire) : /\ wire[x].of = transaction <=> x >= Len(wire) - tcount
                                     /\ x >= Len(wire) - tcount => wire[x].is = "status"
    /\ doing = "queued" =>
          /\ qread \in 0..(tcount + 1)
          /\ tcount + 2 - qread <= Len(wire)
          /\ \A x \in 1..Len(wire) :
                /\ wire[x].of = transaction <=> x <= tcount + 2 - qread
                /\ x < tcount + 2 - qread => wire[x].is = "status"
                /\ x = tcount + 2 - qread =>
                      wire[x].is \in {"err", IF state = "Committed" THEN "exec" ELSE "status"}

Wired == wire \in Seq(Item) /\ Sorted /\ Owned /\ Sends /\ Lined

\* The client is in step with the server, and stays so until a lapse or the end of
\* the stream.
InStep == Objects /\ InTransaction /\ Asked /\ Wired
PipeInv == /\ stream \in {"good", "failed"}
           /\ lapse = {} => mixed = {} /\ (stream = "good" => InStep)
-----------------------------------------------------------------------------
\* The types the other lemmas use.
LEMMA Basics ==
    ASSUME InStep
    PROVE  /\ n \in Nat /\ MaxCmd \in Nat /\ n <= MaxCmd /\ transaction \in Nat
           /\ transaction <= n /\ list \subseteq 1..n /\ list \subseteq R!Id
           /\ conn \in [R!Id -> BOOLEAN] /\ headerDone \in [R!Id -> BOOLEAN]
           /\ count \in [R!Id -> Int] /\ wire \in Seq(Item)
  <1>1. /\ n \in Nat /\ MaxCmd \in Nat /\ n <= MaxCmd /\ list \subseteq 1..n
        /\ conn \in [R!Id -> BOOLEAN] /\ headerDone \in [R!Id -> BOOLEAN]
        /\ count \in [R!Id -> Int]
    BY DEF InStep, Objects, R!ConstOk
  <1>2. transaction \in Nat /\ transaction <= n /\ wire \in Seq(Item)
    BY <1>1 DEF InStep, InTransaction, Wired
  <1> QED BY <1>1, <1>2 DEF R!Id

\* Whoever reads has the answer in front of it, and it is its own.
LEMMA HeadOwn ==
    ASSUME InStep, R!Reading
    PROVE  /\ wire # <<>> /\ Head(wire) = wire[1] /\ wire[1] \in Item
           /\ R!Turn = wire[1].of /\ R!Turn \in list /\ Due(R!Turn) /\ R!Turn <= goal
           /\ Matches(wire[1])
           /\ kind[R!Turn] \in R!Simple \cup {"multi"}
  <1>1. /\ wire \in Seq(Item) /\ Due(goal) /\ goal \in list /\ list \subseteq 1..n
        /\ n \in Nat /\ transaction \in Nat
    BY DEF InStep, Wired, Asked, Due, Objects, InTransaction
  <1>2. PICK z \in 1..Len(wire) : wire[z].of = goal
    BY <1>1 DEF InStep, Wired, Sends, ExecRefused, R!Reading
  <1>3. wire # <<>> /\ Head(wire) = wire[1] /\ 1 \in 1..Len(wire) /\ wire[1] \in Item
    BY <1>1, <1>2
  <1> DEFINE h == wire[1].of
  <1>4. h \in Nat
    BY <1>3 DEF Item
  <1>5. \A i \in list : Due(i) => h <= i \/ (h = transaction /\ i = transaction)
    <2> SUFFICES ASSUME NEW i \in list, Due(i) PROVE h <= i
      OBVIOUS
    <2>1. PICK x \in 1..Len(wire) : wire[x].of = i
      BY DEF InStep, Wired, Sends, ExecRefused, R!Reading
    <2>2. i # transaction /\ i \in Nat
      BY <1>1 DEF Due
    <2>3. CASE x = 1
      BY <1>4, <2>1, <2>3
    <2>4. CASE x # 1
      <3>1. 1 < x
        BY <2>1, <2>4
      <3>2. h < i
        BY <1>3, <2>1, <2>2, <3>1 DEF InStep, Wired, Sorted
      <3> QED BY <1>4, <2>2, <3>2
    <2> QED BY <2>3, <2>4
  <1>6. h <= goal
    BY <1>1, <1>4, <1>5
  <1>7. ~OfTransaction(wire[1])
    BY <1>1, <1>5, <1>4 DEF OfTransaction, Due, Pending, R!Reading
  <1>8. Matches(wire[1])
    BY <1>3, <1>7 DEF InStep, Wired, Owned, OfType, R!Reading
  <1>9. Due(h) /\ h \in list /\ R!Unread(h)
    BY <1>8 DEF Matches, Due
  <1>10. R!Turn = h
    <2>1. \A i \in R!Before : i \in list /\ i < goal /\ i \in Nat /\ (i = transaction \/ Due(i))
      BY <1>1 DEF R!Before, Due, Pending
    <2>2. \A i \in R!Before : i # transaction
      BY <1>1, <2>1 DEF R!Before, Due, Pending, InStep, InTransaction, Asked, R!Unread, R!Reading
    <2>3. \A i \in R!Before : h <= i
      BY <1>5, <2>1, <2>2
    <2>4. CASE h < goal
      <3>1. h \in R!Before
        BY <1>9, <2>4 DEF R!Before
      <3>2. \A i \in R!Before : (\A j \in R!Before : i <= j) => i = h
        BY <2>1, <2>3, <3>1, <1>4
      <3> QED BY <2>3, <3>1, <3>2 DEF R!Turn
    <2>5. CASE h = goal
      <3>1. R!Before = {}
        BY <2>1, <2>3, <2>5, <1>4
      <3> QED BY <2>5, <3>1 DEF R!Turn
    <2> QED BY <1>1, <1>4, <1>6, <2>4, <2>5
  <1>11. kind[h] \in R!Simple \cup {"multi"}
    <2> HIDE DEF h
    <2>1. h \in R!Id
      BY <1>9 DEF InStep, Objects, R!ConstOk, R!Id
    <2>2. kind[h] \in Kinds \cup {"none"} /\ kind[h] # "none" /\ kind[h] # "queued"
      BY <1>9, <2>1 DEF InStep, Objects, Due
    <2> QED BY <2>2 DEF Kinds, R!Simple
  <1> QED BY <1>3, <1>6, <1>8, <1>9, <1>10, <1>11

\* What is left of the answers once a line is read.
LEMMA NextLines ==
    ASSUME wire \in Seq(Item), wire # <<>>
    PROVE  /\ R!Left \in Int /\ R!NextLine \in Seq(Item)
           /\ R!Left > 0 => /\ Len(R!NextLine) = Len(wire)
                          /\ R!NextLine[1] = [of |-> wire[1].of, is |-> "bulk", len |-> R!Left]
                          /\ \A x \in 2..Len(wire) : R!NextLine[x] = wire[x]
           /\ ~(R!Left > 0) => /\ Len(R!NextLine) = Len(wire) - 1
                             /\ \A x \in 1..(Len(wire) - 1) : R!NextLine[x] = wire[x + 1]
  <1>1. wire[1] \in Item /\ Head(wire) = wire[1] /\ Len(wire) \in Nat /\ Len(wire) > 0
    OBVIOUS
  <1>2. R!Left \in Int
    BY <1>1 DEF R!Left, Item
  <1> DEFINE t == [of |-> wire[1].of, is |-> "bulk", len |-> R!Left]
  <1>3. t \in Item
    BY <1>1, <1>2 DEF Item
  <1>4. CASE R!Left > 0
    <2>1. R!NextLine = [wire EXCEPT ![1] = t]
      BY <1>1, <1>4 DEF R!NextLine
    <2> HIDE DEF t
    <2> QED BY <1>1, <1>2, <1>3, <1>4, <2>1 DEF t
  <1>5. CASE ~(R!Left > 0)
    <2>1. R!NextLine = Tail(wire)
      BY <1>5 DEF R!NextLine
    <2> QED BY <1>1, <1>2, <1>5, <2>1
  <1> QED BY <1>4, <1>5

\* The wire after a read of the object whose turn it is, of all that is left for
\* it or of one of several elements.
LEMMA Consumed ==
    ASSUME NEW r, r = R!Turn, InStep, R!Reading, wire' = R!NextLine, R!Reading' \/ R!Idle',
           transaction' = transaction, state' = state, tcount' = tcount, kind' = kind,
           \A i : i # r => (Due(i)' <=> Due(i)),
           \A i \in R!Id : i # r => headerDone'[i] = headerDone[i] /\ count'[i] = count[i],
           \/ ~(R!Left > 0) /\ ~Due(r)'
           \/ R!Left > 0 /\ Due(r)' /\ kind[r] = "multi" /\ headerDone'[r] /\ count'[r] = R!Left
    PROVE  Wired'
  <1> DEFINE w == wire'
             l == Len(wire)
  <1>1. /\ wire # <<>> /\ Head(wire) = wire[1] /\ r = wire[1].of /\ wire \in Seq(Item)
        /\ r # transaction /\ Due(r)
    BY HeadOwn DEF InStep, Wired, Due
  <1>2. l \in Nat /\ l > 0 /\ \A x \in 1..l : wire[x] \in Item /\ wire[x].of \in Nat
    <2>1. \A x \in 1..l : wire[x] \in Item
      BY <1>1
    <2> QED BY <1>1, <2>1 DEF Item
  <1>3. /\ R!Left \in Int /\ w \in Seq(Item)
        /\ R!Left > 0 => /\ Len(w) = l
                       /\ w[1] = [of |-> r, is |-> "bulk", len |-> R!Left]
                       /\ \A x \in 2..l : w[x] = wire[x]
        /\ ~(R!Left > 0) => /\ Len(w) = l - 1
                          /\ \A x \in 1..(l - 1) : w[x] = wire[x + 1]
    BY <1>1, NextLines
  <1>4. doing # "type" /\ doing # "queued" /\ doing' # "type" /\ doing' # "queued"
    BY DEF R!Reading, R!Idle
  <1>5. \A x \in 2..l : wire[x].of # r /\ wire[x].of > r
    BY <1>1, <1>2 DEF InStep, Wired, Sorted
  <1>6. ASSUME NEW t \in Item, t.of # r
        PROVE  (OfTransaction(t) => OfTransaction(t)') /\ (Matches(t) => Matches(t)')
    <2>1. OfTransaction(t) => OfTransaction(t)'
      BY <1>4 DEF OfTransaction
    <2>2. Matches(t) => Matches(t)'
      <3>1. Due(t.of) => t.of \in R!Id
        BY Basics DEF Due
      <3> QED BY <1>6, <3>1 DEF Matches
    <2> QED BY <2>1, <2>2
  <1>7. \A x \in 2..l : (OfTransaction(wire[x]) \/ Matches(wire[x]))
    BY <1>2, <1>4 DEF InStep, Wired, Owned, OfType
  <1>8. ASSUME NEW x \in 1..Len(w), NEW y \in 2..l, w[x] = wire[y]
        PROVE  OfTransaction(wire[x])' \/ Matches(wire[x])'
    <2>1. PICK t \in Item : t = wire[y]
      BY <1>2
    <2>2. t.of # r /\ (OfTransaction(t) \/ Matches(t))
      BY <1>5, <1>7, <2>1
    <2>3. OfTransaction(t)' \/ Matches(t)'
      BY <1>6, <2>2
    <2> QED BY <1>8, <2>1, <2>3
  <1>9. CASE R!Left > 0
    <2>1. Len(w) = l /\ w[1] = [of |-> r, is |-> "bulk", len |-> R!Left] /\ w[1].of = r
          /\ \A x \in 2..l : w[x] = wire[x]
      BY <1>3, <1>9
    <2>2. Sorted'
      BY <1>1, <1>2, <2>1 DEF InStep, Wired, Sorted
    <2>3. Owned'
      <3>1. Matches(wire[1])'
        <4>2. Due(r)' /\ kind[r] = "multi" /\ headerDone'[r] /\ count'[r] = R!Left
          BY <1>3, <1>9
        <4>3. wire'[1].of = r /\ wire'[1].is = "bulk" /\ wire'[1].len = R!Left
          BY <2>1
        <4> QED BY <4>2, <4>3 DEF Matches, R!Simple
      <3>2. ASSUME NEW x \in 2..l PROVE OfTransaction(wire[x])' \/ Matches(wire[x])'
        BY <1>2, <1>8, <2>1
      <3> QED BY <1>2, <2>1, <3>1, <3>2 DEF Owned
    <2>4. Sends'
      <3>1. ASSUME NEW i, Due(i)' PROVE \E x \in 1..Len(w) : w[x].of = i
        <4>1. Due(i) /\ i \in list
          BY <1>1, <3>1 DEF Due
        <4>2. PICK x \in 1..l : wire[x].of = i
          BY <1>4, <4>1 DEF InStep, Wired, Sends, ExecRefused
        <4> QED BY <1>1, <1>2, <2>1, <4>2
      <3> QED BY <3>1, <1>4 DEF Sends
    <2>5. Lined'
      BY <1>1, <1>2, <1>4, <2>1 DEF InStep, Wired, Lined
    <2> QED BY <1>3, <2>2, <2>3, <2>4, <2>5 DEF Wired
  <1>10. CASE ~(R!Left > 0)
    <2>1. Len(w) = l - 1 /\ \A x \in 1..(l - 1) : w[x] = wire[x + 1]
      BY <1>3, <1>10
    <2>2. Sorted'
      <3>1. ASSUME NEW x \in 1..(l - 1), NEW y \in 1..(l - 1), x < y
            PROVE  w[x].of < w[y].of \/ (w[x].of = transaction /\ w[y].of = transaction)
        <4>1. x + 1 \in 1..l /\ y + 1 \in 1..l /\ x + 1 < y + 1
          BY <1>2, <3>1
        <4>2. w[x] = wire[x + 1] /\ w[y] = wire[y + 1]
          BY <2>1
        <4> QED BY <4>1, <4>2 DEF InStep, Wired, Sorted
      <3> QED BY <1>2, <2>1, <3>1 DEF Sorted
    <2>3. Owned'
      <3>2. ASSUME NEW x \in 1..(l - 1) PROVE OfTransaction(wire[x])' \/ Matches(wire[x])'
        <4>1. x + 1 \in 2..l
          BY <1>2
        <4> QED BY <1>2, <1>8, <2>1, <4>1
      <3> QED BY <1>2, <2>1, <3>2 DEF Owned
    <2>4. Sends'
      <3>1. ASSUME NEW i, Due(i)' PROVE \E x \in 1..Len(w) : w[x].of = i
        <4>0. i # r
          BY <3>1, <1>10, <1>3
        <4>1. Due(i) /\ i \in list
          BY <1>1, <3>1, <4>0 DEF Due
        <4>2. PICK x \in 1..l : wire[x].of = i
          BY <1>4, <4>1 DEF InStep, Wired, Sends, ExecRefused
        <4>3. x - 1 \in 1..(l - 1) /\ (x - 1) + 1 = x
          BY <1>1, <1>2, <4>0, <4>2
        <4> QED BY <2>1, <4>2, <4>3
      <3> QED BY <3>1, <1>4 DEF Sends
    <2>5. Lined'
      <3>1. state = "Dirty" => wire[1].of # transaction /\ tcount < l /\ tcount \in Int
        BY <1>1 DEF InStep, Wired, Lined, InTransaction, Objects, R!ConstOk
      <3>2. ASSUME state = "Dirty"
            PROVE  /\ tcount < Len(w)
                   /\ \A x \in 1..Len(w) : /\ w[x].of = transaction <=> x >= Len(w) - tcount
                                           /\ x >= Len(w) - tcount => w[x].is = "status"
        <4>1. 1 < l - tcount
          BY <1>2, <3>1, <3>2 DEF InStep, Wired, Lined
        <4>2. \A x \in 1..Len(w) : x + 1 \in 1..l /\ w[x] = wire[x + 1]
                                   /\ (x >= Len(w) - tcount <=> x + 1 >= l - tcount)
          BY <1>2, <2>1, <3>1, <3>2
        <4>3. \A x \in 1..l : /\ wire[x].of = transaction <=> x >= l - tcount
                              /\ x >= l - tcount => wire[x].is = "status"
          BY <3>2 DEF InStep, Wired, Lined
        <4>4. tcount < Len(w)
          BY <1>2, <2>1, <3>1, <3>2, <4>1
        <4> QED BY <4>2, <4>3, <4>4
      <3>3. (state = "Dirty" =>
               /\ tcount < Len(wire)
               /\ \A x \in 1..Len(wire) :
                     /\ wire[x].of = transaction <=> x >= Len(wire) - tcount
                     /\ x >= Len(wire) - tcount => wire[x].is = "status")'
        BY <3>2
      <3> QED BY <1>4, <3>3 DEF Lined
    <2> QED BY <1>3, <2>2, <2>3, <2>4, <2>5 DEF Wired
  <1> QED BY <1>9, <1>10

\* The object whose turn it is, and the one that asked.
LEMMA Own ==
    ASSUME NEW r, r = R!Turn, InStep, R!Reading
    PROVE  /\ r \in list /\ r \in R!Id /\ r \in Nat /\ Due(r) /\ r # transaction /\ conn[r]
           /\ goal \in list /\ goal \in R!Id /\ goal \in Nat /\ Due(goal)
           /\ goal # transaction /\ conn[goal]
           /\ r <= goal /\ r = wire[1].of /\ Matches(wire[1])
           /\ Head(wire) = wire[1] /\ wire[1] \in Item
           /\ kind[r] \in R!Simple \cup {"multi"}
  <1>1. /\ r \in list /\ Due(r) /\ r <= goal /\ r = wire[1].of /\ Matches(wire[1])
        /\ Head(wire) = wire[1] /\ wire[1] \in Item /\ kind[r] \in R!Simple \cup {"multi"}
    BY HeadOwn
  <1>2. Due(goal)
    BY DEF InStep, Asked
  <1>3. r # transaction /\ conn[r] /\ goal \in list /\ goal # transaction /\ conn[goal]
    BY <1>1, <1>2 DEF Due, R!Unread
  <1>4. r \in R!Id /\ goal \in R!Id /\ r \in Nat /\ goal \in Nat
    BY <1>1, <1>3, Basics
  <1> QED BY <1>1, <1>2, <1>3, <1>4

\* One line is read by the object whose turn it is, and all parts follow.
LEMMA ReadKept ==
    ASSUME NEW r, r = R!Turn, InStep, R!Reading, n' = n, kind' = kind,
           UNCHANGED R!txVars, wire' = R!NextLine,
           list' \in {list, list \ {r}}, conn' \in [R!Id -> BOOLEAN],
           headerDone' \in [R!Id -> BOOLEAN], count' \in [R!Id -> Int],
           \A i \in R!Id \ {r} : /\ conn'[i] = conn[i]
                              /\ headerDone'[i] = headerDone[i] /\ count'[i] = count[i],
           \/ ~(R!Left > 0) /\ (r \notin list' \/ ~R!Unread(r)')
           \/ /\ R!Left > 0 /\ list' = list /\ conn'[r] = conn[r]
              /\ kind[r] = "multi" /\ headerDone'[r] /\ count'[r] = R!Left,
           \/ R!Over
           \/ UNCHANGED <<doing, goal, qread>> /\ (goal # r \/ R!Left > 0)
    PROVE  InStep'
  <1>1. /\ r \in list /\ Due(r) /\ r <= goal /\ Due(goal)
        /\ r # transaction /\ goal # transaction
        /\ n \in Nat /\ MaxCmd \in Nat /\ n <= MaxCmd /\ list \subseteq 1..n
        /\ transaction \in Nat /\ r \in Nat /\ goal \in Nat
    BY Own, Basics
  <1>2. UNCHANGED <<transaction, state, tcount, queued, inMulti>>
    BY DEF R!txVars
  <1>3. R!Reading' \/ R!Idle'
    BY DEF R!Over, R!Idle, R!Reading
  <1>4. \A i : i # r => (Due(i)' <=> Due(i))
    BY <1>2, Basics DEF Due, R!Unread, Pending
  <1>5. \/ ~(R!Left > 0) /\ ~Due(r)'
        \/ R!Left > 0 /\ Due(r)' /\ kind[r] = "multi" /\ headerDone'[r] /\ count'[r] = R!Left
    BY <1>1, <1>2 DEF Due, R!Unread, Pending
  <1>6. Wired'
    <2>1. \A i \in R!Id : i # r => headerDone'[i] = headerDone[i] /\ count'[i] = count[i]
      OBVIOUS
    <2> QED BY <1>2, <1>3, <1>4, <1>5, <2>1, Consumed
  <1>7. Objects'
    BY <1>1, <1>2 DEF InStep, Objects
  <1>8. InTransaction'
    <2>1. doing # "queued" /\ doing' # "queued"
      BY <1>3 DEF R!Reading, R!Idle
    <2>2. state = "Dirty" => r < transaction
      BY <1>1 DEF Due, Pending
    <2>3. transaction # 0 => transaction \in list' /\ conn'[transaction] = conn[transaction]
      BY <1>1, Basics DEF InStep, InTransaction
    <2>4. state = "Dirty" => \A i \in (transaction + 1)..n :
                                i \in list' /\ conn'[i] /\ ~headerDone'[i]
      <3> SUFFICES ASSUME state = "Dirty", NEW i \in (transaction + 1)..n
                   PROVE i \in list' /\ conn'[i] /\ ~headerDone'[i]
        OBVIOUS
      <3>1. i # r
        BY <1>1, <2>2
      <3>2. i \in list /\ i \in R!Id
        BY Basics DEF InStep, InTransaction
      <3> QED BY <3>1, <3>2 DEF InStep, InTransaction
    <2> QED BY <1>2, <2>1, <2>3, <2>4 DEF InStep, InTransaction
  <1>9. Asked'
    <2>1. R!Reading' => Due(goal)'
      <3> SUFFICES ASSUME R!Reading' PROVE Due(goal)'
        OBVIOUS
      <3>1. goal' = goal /\ (goal # r \/ R!Left > 0)
        BY DEF R!Over, R!Reading
      <3>2. PICK g : g = goal
        OBVIOUS
      <3>3. Due(g)'
        BY <1>1, <1>4, <1>5, <3>1, <3>2
      <3> QED BY <3>1, <3>2, <3>3
    <2> QED BY <1>2, <1>3, <2>1 DEF InStep, Asked, R!Over, R!Reading, R!Idle
  <1> QED BY <1>6, <1>7, <1>8, <1>9 DEF InStep

\* What a read by the one whose turn it is finds.
LEMMA TakeOwn ==
    ASSUME NEW r, r = R!Turn, NEW k, InStep, R!Reading, stream = "good", R!Take(r, k)
    PROVE  /\ wire' = R!NextLine /\ mixed' = mixed
           /\ stream' \in {"good", "failed"}
           /\ R!Succeeds(k) => stream' = "good"
           /\ stream' = "good" /\ ~R!Succeeds(k) => k = "status" /\ wire[1].is = "err"
           /\ R!Succeeds(k) /\ k # "int" => wire[1].is = k
           /\ Head(wire) = wire[1] /\ wire[1] \in Item
  BY HeadOwn DEF R!Take, R!Succeeds, R!Fits

\* A status, an integer or a bulk is read, or throws.
LEMMA SimpleRead ==
    ASSUME InStep, stream = "good", lapse = {}, lapse' = {}, R!ReadSimple
    PROVE  mixed' = mixed /\ stream' \in {"good", "failed"} /\ (stream' = "good" => InStep')
  <1>1. PICK r : r = R!Turn
    OBVIOUS
  <1>2. /\ R!Reading /\ kind[r] \in R!Simple /\ R!Take(r, kind[r]) /\ n' = n /\ kind' = kind
        /\ UNCHANGED <<headerDone, count>> /\ UNCHANGED R!txVars
    BY <1>1 DEF R!ReadSimple
  <1>3. /\ r \in list /\ Due(r) /\ r \in R!Id /\ goal \in R!Id /\ Matches(wire[1])
        /\ r = wire[1].of /\ wire[1] \in Item /\ conn[goal]
    BY <1>1, <1>2, Own
  <1>4. wire' = R!NextLine /\ mixed' = mixed /\ stream' \in {"good", "failed"}
        /\ Head(wire) = wire[1]
    BY <1>1, <1>2, TakeOwn
  <1>5. ASSUME stream' = "good" PROVE InStep'
    <2>1. wire[1].is # "multi" /\ wire[1].len = 1
      BY <1>2, <1>3 DEF Matches, R!Simple
    <2>2. ~(R!Left > 0)
      BY <1>4, <2>1 DEF R!Left
    <2>3. conn \in [R!Id -> BOOLEAN] /\ headerDone \in [R!Id -> BOOLEAN] /\ count \in [R!Id -> Int]
      BY Basics
    <2>4. CASE R!Succeeds(kind[r])
      <3>1. R!Done(r)
        BY <1>1, <2>4 DEF R!ReadSimple
      <3> QED BY <1>1, <1>2, <1>3, <1>4, <2>2, <2>3, <3>1, ReadKept DEF R!Done, R!Unlink, R!Unread
    <2>5. CASE ~R!Succeeds(kind[r])
      <3>1. R!Leave([conn EXCEPT ![r] = FALSE])
        BY <1>1, <2>5 DEF R!ReadSimple
      <3>2. doing = "destroy" => goal = r
        BY <1>3, <1>5, <2>3, <3>1 DEF R!Leave, R!Lapse
      <3>3. conn' = [conn EXCEPT ![r] = FALSE] /\ list' \in {list, list \ {r}} /\ R!Over
        BY <1>3, <2>3, <3>1, <3>2 DEF R!Leave, R!Unlink
      <3> QED BY <1>1, <1>2, <1>3, <1>4, <2>2, <2>3, <3>3, ReadKept DEF R!Unread
    <2> QED BY <2>4, <2>5
  <1> QED BY <1>4, <1>5

\* The header of a multi-bulk answer is read: nil, empty, or elements to come.
LEMMA HeaderRead ==
    ASSUME InStep, stream = "good", lapse = {}, lapse' = {}, R!ReadHeader
    PROVE  mixed' = mixed /\ stream' \in {"good", "failed"} /\ (stream' = "good" => InStep')
  <1>1. PICK r : r = R!Turn
    OBVIOUS
  <1> DEFINE len == IF R!Succeeds("multi") THEN Head(wire).len ELSE 0
  <1>2. /\ R!Reading /\ kind[r] = "multi" /\ ~headerDone[r] /\ R!Take(r, "multi")
        /\ headerDone' = [headerDone EXCEPT ![r] = TRUE]
        /\ count' = [count EXCEPT ![r] = len]
        /\ IF ~R!Succeeds("multi") \/ len < 0 THEN R!Leave(conn)
           ELSE IF len = 0 THEN R!Done(r)
           ELSE UNCHANGED <<conn, list, doing, goal, qread, lapse>>
        /\ n' = n /\ kind' = kind /\ UNCHANGED R!txVars
    BY <1>1 DEF R!ReadHeader
  <1>3. /\ r \in list /\ Due(r) /\ r \in R!Id /\ goal \in R!Id /\ Matches(wire[1])
        /\ r = wire[1].of /\ wire[1] \in Item /\ conn[goal] /\ conn[r]
    BY <1>1, <1>2, Own
  <1>4. /\ wire' = R!NextLine /\ mixed' = mixed /\ stream' \in {"good", "failed"}
        /\ Head(wire) = wire[1] /\ (stream' = "good" => R!Succeeds("multi"))
        /\ (R!Succeeds("multi") => wire[1].is = "multi")
    BY <1>1, <1>2, TakeOwn
  <1>5. ASSUME stream' = "good" PROVE InStep'
    <2>1. wire[1].is = "multi" /\ len = wire[1].len /\ len \in Int /\ R!Succeeds("multi")
      BY <1>3, <1>4, <1>5 DEF Item
    <2>2. R!Left = len
      BY <1>4, <2>1 DEF R!Left
    <2> HIDE DEF len
    <2>3. conn \in [R!Id -> BOOLEAN] /\ headerDone \in [R!Id -> BOOLEAN] /\ count \in [R!Id -> Int]
      BY Basics
    <2>4. /\ headerDone' \in [R!Id -> BOOLEAN] /\ count' \in [R!Id -> Int]
          /\ headerDone'[r] /\ count'[r] = len
          /\ \A i \in R!Id \ {r} : headerDone'[i] = headerDone[i] /\ count'[i] = count[i]
      BY <1>2, <1>3, <2>1, <2>3
    <2>5. CASE len < 0
      <3>1. R!Leave(conn)
        BY <1>2, <2>5
      <3>2. doing # "destroy"
        BY <1>3, <1>5, <3>1 DEF R!Leave, R!Lapse
      <3>3. conn' = conn /\ list' = list /\ R!Over
        BY <3>1, <3>2 DEF R!Leave
      <3>4. ~R!Unread(r)' /\ ~(R!Left > 0)
        BY <1>2, <2>1, <2>2, <2>4, <2>5 DEF R!Unread
      <3> QED BY <1>1, <1>2, <1>4, <2>3, <2>4, <3>3, <3>4, ReadKept
    <2>6. CASE len = 0
      <3>1. R!Done(r)
        BY <1>2, <2>1, <2>6
      <3>2. ~(R!Left > 0)
        BY <2>2, <2>6
      <3> QED BY <1>1, <1>2, <1>3, <1>4, <2>3, <2>4, <3>1, <3>2, ReadKept DEF R!Done, R!Unlink
    <2>7. CASE len > 0
      <3>1. UNCHANGED <<conn, list, doing, goal, qread, lapse>>
        BY <1>2, <2>1, <2>7
      <3>2. R!Left > 0 /\ count'[r] = R!Left
        BY <2>2, <2>4, <2>7
      <3>3. /\ conn' = conn /\ list' = list /\ UNCHANGED <<doing, goal, qread>>
            /\ conn' \in [R!Id -> BOOLEAN] /\ list' \in {list, list \ {r}}
            /\ \A i \in R!Id \ {r} : /\ conn'[i] = conn[i]
                                   /\ headerDone'[i] = headerDone[i] /\ count'[i] = count[i]
        BY <2>3, <2>4, <3>1
      <3>4. /\ R!Left > 0 /\ list' = list /\ conn'[r] = conn[r]
            /\ kind[r] = "multi" /\ headerDone'[r] /\ count'[r] = R!Left
        BY <1>2, <2>4, <3>2, <3>3
      <3>5. R!Reading /\ n' = n /\ kind' = kind /\ UNCHANGED R!txVars /\ wire' = R!NextLine
            /\ headerDone' \in [R!Id -> BOOLEAN] /\ count' \in [R!Id -> Int]
        BY <1>2, <1>4, <2>4
      <3> QED BY <1>1, <3>3, <3>4, <3>5, ReadKept
    <2> QED BY <2>1, <2>5, <2>6, <2>7
  <1> QED BY <1>4, <1>5

\* One element of a multi-bulk answer is read.
LEMMA ElementRead ==
    ASSUME InStep, stream = "good", lapse = {}, lapse' = {}, R!ReadElement
    PROVE  mixed' = mixed /\ stream' \in {"good", "failed"} /\ (stream' = "good" => InStep')
  <1>1. PICK r : r = R!Turn
    OBVIOUS
  <1>2. /\ R!Reading /\ kind[r] = "multi" /\ headerDone[r] /\ R!Take(r, "bulk")
        /\ count' = [count EXCEPT ![r] = @ - 1]
        /\ IF ~R!Succeeds("bulk") \/ (r = goal /\ doing = "next") THEN R!Leave(conn)
           ELSE IF count[r] = 1 THEN R!Done(r)
           ELSE UNCHANGED <<conn, list, doing, goal, qread, lapse>>
        /\ n' = n /\ kind' = kind /\ headerDone' = headerDone /\ UNCHANGED R!txVars
    BY <1>1 DEF R!ReadElement
  <1>3. /\ r \in list /\ Due(r) /\ r \in R!Id /\ goal \in R!Id /\ Matches(wire[1])
        /\ r = wire[1].of /\ wire[1] \in Item /\ conn[goal] /\ conn[r]
    BY <1>1, <1>2, Own
  <1>4. /\ wire' = R!NextLine /\ mixed' = mixed /\ stream' \in {"good", "failed"}
        /\ Head(wire) = wire[1]
    BY <1>1, <1>2, TakeOwn
  <1>5. InStep'
    <2>1. wire[1].is = "bulk" /\ wire[1].len = count[r] /\ R!Succeeds("bulk")
      BY <1>2, <1>3, <1>4 DEF Matches, R!Succeeds, R!Fits
    <2>2. R!Left = count[r] - 1
      BY <1>4, <2>1 DEF R!Left
    <2>3. conn \in [R!Id -> BOOLEAN] /\ headerDone \in [R!Id -> BOOLEAN] /\ count \in [R!Id -> Int]
      BY Basics
    <2>4. /\ count' \in [R!Id -> Int] /\ count'[r] = R!Left /\ count[r] \in Int /\ count[r] > 0
          /\ \A i \in R!Id \ {r} : count'[i] = count[i]
      BY <1>2, <1>3, <2>2, <2>3 DEF Due, R!Unread
    <2>5. CASE r = goal /\ doing = "next"
      <3>1. R!Leave(conn)
        BY <1>2, <2>5
      <3>3. conn' = conn /\ list' = list /\ R!Over
        BY <2>5, <3>1 DEF R!Leave
      <3>4. ~(R!Left > 0) => ~R!Unread(r)'
        BY <1>2, <2>4 DEF R!Unread
      <3> QED BY <1>1, <1>2, <1>4, <2>3, <2>4, <3>3, <3>4, ReadKept
    <2>6. CASE ~(r = goal /\ doing = "next") /\ count[r] = 1
      <3>1. R!Done(r)
        BY <1>2, <2>1, <2>6
      <3>2. ~(R!Left > 0)
        BY <2>2, <2>6
      <3> QED BY <1>1, <1>2, <1>3, <1>4, <2>3, <2>4, <3>1, <3>2, ReadKept DEF R!Done, R!Unlink
    <2>7. CASE ~(r = goal /\ doing = "next") /\ count[r] # 1
      <3>1. UNCHANGED <<conn, list, doing, goal, qread, lapse>>
        BY <1>2, <2>1, <2>7
      <3>2. R!Left > 0
        BY <2>2, <2>4, <2>7
      <3> QED BY <1>1, <1>2, <1>4, <2>3, <2>4, <3>1, <3>2, ReadKept
    <2> QED BY <2>5, <2>6, <2>7
  <1> QED BY <1>4, <1>5

\* While nothing is read, what is on its way is for objects and for the open
\* transaction, which is the last to get something.
LEMMA OldItems ==
    ASSUME InStep, R!Idle
    PROVE  \A x \in 1..Len(wire) :
              /\ wire[x] \in Item /\ wire[x].of \in 1..n
              /\ OfTransaction(wire[x]) \/ Matches(wire[x])
              /\ state = "Dirty" => wire[x].of <= transaction
              /\ state # "Dirty" => wire[x].of # transaction
  <1> SUFFICES ASSUME NEW x \in 1..Len(wire)
               PROVE  /\ wire[x] \in Item /\ wire[x].of \in 1..n
                      /\ OfTransaction(wire[x]) \/ Matches(wire[x])
                      /\ state = "Dirty" => wire[x].of <= transaction
                      /\ state # "Dirty" => wire[x].of # transaction
    OBVIOUS
  <1>1. wire[x] \in Item /\ wire[x].of \in Nat
    <2>1. wire[x] \in Item
      BY Basics
    <2> QED BY <2>1 DEF Item
  <1>2. OfTransaction(wire[x]) \/ Matches(wire[x])
    BY DEF InStep, Wired, Owned, OfType, R!Idle
  <1>3. CASE OfTransaction(wire[x])
    <2>1. state = "Dirty" /\ wire[x].of = transaction
      BY <1>3 DEF OfTransaction, R!Idle
    <2>2. transaction # 0
      BY <2>1 DEF InStep, InTransaction
    <2> QED BY <1>1, <1>2, <2>1, <2>2, Basics
  <1>4. CASE Matches(wire[x])
    <2>1. Due(wire[x].of)
      BY <1>4 DEF Matches
    <2>2. wire[x].of \in list /\ wire[x].of # transaction
          /\ (state = "Dirty" => ~(wire[x].of > transaction))
      BY <2>1 DEF Due, Pending
    <2> QED BY <1>1, <1>2, <2>2, Basics
  <1> QED BY <1>2, <1>3, <1>4

\* A step that leaves the wire alone, and the objects something is on its way for.
LEMMA Untouched ==
    ASSUME InStep, R!Idle, R!Idle' \/ R!Reading', wire' = wire,
           \/ UNCHANGED <<transaction, state, tcount>>
           \/ state # "Dirty" /\ state' # "Dirty" /\ transaction' = 0,
           kind' = kind, headerDone' = headerDone, count' = count,
           \A i : Due(i)' <=> Due(i)
    PROVE  Wired'
  <1>1. doing' # "type" /\ doing' # "queued"
    BY DEF R!Idle, R!Reading
  <1>2. wire' \in Seq(Item)
    BY Basics
  <1>3. Sorted'
    BY OldItems, Basics DEF InStep, Wired, Sorted
  <1>4. Owned'
    <2>1. ASSUME NEW t PROVE (OfTransaction(t) => OfTransaction(t)') /\ (Matches(t) => Matches(t)')
      BY DEF OfTransaction, Matches, R!Idle
    <2>2. ASSUME NEW x \in 1..Len(wire) PROVE OfTransaction(wire[x])' \/ Matches(wire[x])'
      <3>1. PICK t : t = wire[x]
        OBVIOUS
      <3>2. OfTransaction(t) \/ Matches(t)
        BY <3>1, OldItems
      <3> QED BY <2>1, <3>1, <3>2
    <2> QED BY <2>2 DEF Owned
  <1>5. Sends'
    BY <1>1 DEF InStep, Wired, Sends, Due, ExecRefused, R!Idle
  <1>6. Lined'
    BY <1>1 DEF InStep, Wired, Lined
  <1> QED BY <1>2, <1>3, <1>4, <1>5, <1>6 DEF Wired

\* An object is asked for its result.
LEMMA ResultKept ==
    ASSUME InStep, stream = "good", lapse = {}, lapse' = {}, NEW i \in R!Id, R!Result(i)
    PROVE  InStep'
  <1>1. /\ R!Idle /\ i \in list /\ R!Unread(i) /\ kind[i] # "queued" /\ R!Reading' /\ goal' = i
        /\ UNCHANGED <<n, list, wire, stream, qread, mixed>>
        /\ UNCHANGED <<kind, conn, headerDone, count>>
        /\ UNCHANGED <<transaction, state, tcount, queued, inMulti>>
    BY DEF R!Result, R!Reading, R!objVars, R!txVars
  <1>2. ~Pending(i)
    BY DEF R!Result, R!Lapse, R!OutOfTurn, Pending
  <1>3. i # transaction
    BY <1>1, Basics DEF InStep, InTransaction, Objects
  <1>4. \A j : Due(j)' <=> Due(j)
    BY <1>1 DEF Due, R!Unread, Pending
  <1>5. Wired'
    BY <1>1, <1>4, Untouched
  <1>6. Objects'
    BY <1>1 DEF InStep, Objects
  <1>7. InTransaction'
    BY <1>1 DEF InStep, InTransaction, R!Reading, R!Idle
  <1>8. Asked'
    <2>1. Due(i)'
      BY <1>1, <1>2, <1>3, <1>4 DEF Due
    <2>2. Due(goal)'
      BY <1>1, <2>1
    <2> QED BY <1>1, <2>2 DEF InStep, Asked, R!Reading, R!Idle
  <1> QED BY <1>5, <1>6, <1>7, <1>8 DEF InStep

\* An object is destroyed: it reads first, or there is nothing to read.
LEMMA DestroyKept ==
    ASSUME InStep, stream = "good", lapse = {}, lapse' = {}, NEW i \in R!Id, R!Destroy(i)
    PROVE  InStep'
  <1>1. /\ R!Idle /\ i \in list /\ kind[i] # "queued"
        /\ UNCHANGED <<n, wire, stream, qread, mixed>>
        /\ UNCHANGED <<kind, headerDone, count>>
        /\ UNCHANGED <<transaction, state, tcount, queued, inMulti>>
    BY DEF R!Destroy, R!txVars
  <1>2. i # transaction
    BY <1>1, Basics DEF InStep, InTransaction, Objects
  <1> DEFINE reads == conn[i] /\ (kind[i] = "multi" => count[i] > 0)
  <1>3. CASE reads
    <2>1. doing' = "destroy" /\ goal' = i /\ UNCHANGED <<conn, list>> /\ ~Pending(i)
      BY <1>3 DEF R!Destroy, R!Lapse, R!OutOfTurn, Pending
    <2>4. \A j : Due(j)' <=> Due(j)
      BY <1>1, <2>1 DEF Due, R!Unread, Pending
    <2>5. Wired'
      BY <1>1, <2>1, <2>4, Untouched DEF R!Reading
    <2>6. Objects'
      BY <1>1, <2>1 DEF InStep, Objects
    <2>7. InTransaction'
      BY <1>1, <2>1 DEF InStep, InTransaction, R!Idle
    <2>8. Asked'
      <3>1. Due(i)'
        BY <1>1, <1>2, <1>3, <2>1, <2>4 DEF Due, R!Unread
      <3>2. Due(goal)'
        BY <2>1, <3>1
      <3> QED BY <1>1, <2>1, <3>2 DEF InStep, Asked, R!Reading, R!Idle
    <2> QED BY <2>5, <2>6, <2>7, <2>8 DEF InStep
  <1>4. CASE ~reads
    <2>1. /\ list' = list \ {i} /\ conn' = [conn EXCEPT ![i] = FALSE] /\ ~R!Unread(i)
          /\ UNCHANGED <<doing, goal>>
      BY <1>4 DEF R!Destroy, R!Lapse, R!Unlink
    <2>2. /\ conn \in [R!Id -> BOOLEAN] /\ list \subseteq R!Id /\ conn' \in [R!Id -> BOOLEAN]
          /\ \A j \in R!Id \ {i} : conn'[j] = conn[j]
      BY <2>1, Basics
    <2>4. \A j : Due(j)' <=> Due(j)
      BY <1>1, <2>1, <2>2 DEF Due, R!Unread, Pending
    <2>5. Wired'
      BY <1>1, <2>1, <2>4, Untouched DEF R!Idle
    <2>6. Objects'
      BY <1>1, <2>1, <2>2 DEF InStep, Objects
    <2>7. InTransaction'
      <3>1. transaction # 0 => transaction \in list' /\ conn'[transaction] = conn[transaction]
        BY <1>2, <2>1, <2>2 DEF InStep, InTransaction
      <3>2. state = "Dirty" => \A j \in (transaction + 1)..n :
                                  j \in list' /\ conn'[j] /\ ~headerDone[j]
        <4> SUFFICES ASSUME state = "Dirty", NEW j \in (transaction + 1)..n
                     PROVE  j \in list' /\ conn'[j] /\ ~headerDone[j]
          OBVIOUS
        <4>1. j \in list /\ conn[j] /\ ~headerDone[j] /\ j \in R!Id
          BY <2>2 DEF InStep, InTransaction
        <4>2. j # i
          BY <2>1, <4>1 DEF R!Unread
        <4> QED BY <2>1, <2>2, <4>1, <4>2
      <3> QED BY <1>1, <2>1, <3>1, <3>2 DEF InStep, InTransaction
    <2>8. Asked'
      BY <1>1, <2>1 DEF InStep, Asked, R!Reading, R!Idle
    <2> QED BY <2>5, <2>6, <2>7, <2>8 DEF InStep
  <1> QED BY <1>3, <1>4

\* The Transaction goes.
LEMMA EndKept ==
    ASSUME InStep, R!EndTransaction
    PROVE  InStep'
  <1>1. /\ R!Idle /\ state \in {"Committed", "Aborted"}
        /\ transaction' = 0 /\ state' = "Blank" /\ tcount' = 0 /\ queued' = <<>>
        /\ list' = list \ {transaction} /\ inMulti' = inMulti
        /\ UNCHANGED <<n, wire, stream, doing, goal, qread, mixed>>
        /\ UNCHANGED <<kind, conn, headerDone, count>>
    BY DEF R!EndTransaction, R!Unlink, R!objVars
  <1>2. 0 \notin list /\ list \subseteq 1..n
    BY Basics
  <1>3. \A j : Due(j)' <=> Due(j)
    BY <1>1, <1>2 DEF Due, R!Unread, Pending
  <1>4. Wired'
    BY <1>1, <1>3, Untouched DEF R!Idle
  <1>5. Objects'
    BY <1>1, <1>2 DEF InStep, Objects
  <1>6. InTransaction'
    BY <1>1, Basics DEF InStep, InTransaction, R!Idle
  <1>7. Asked'
    BY <1>1 DEF InStep, Asked, R!Reading, R!Idle
  <1> QED BY <1>4, <1>5, <1>6, <1>7 DEF InStep

\* A line or an answer is put behind the others.
LEMMA Appended ==
    ASSUME InStep, R!Idle, NEW t \in Item, wire' = wire \o <<t>>,
           \A u \in Item : /\ OfTransaction(u) => OfTransaction(u)'
                           /\ Matches(u) => Matches(u)',
           OfTransaction(t)' \/ Matches(t)' \/ OfType(t)',
           \A x \in 1..Len(wire) : \/ wire[x].of < t.of
                                   \/ wire[x].of = transaction' /\ t.of = transaction',
           transaction' = transaction \/ state # "Dirty"
    PROVE  /\ wire' \in Seq(Item) /\ Len(wire') = Len(wire) + 1 /\ Len(wire) \in Nat
           /\ \A x \in 1..Len(wire) : wire'[x] = wire[x]
           /\ wire'[Len(wire) + 1] = t
           /\ Sorted' /\ Owned'
  <1>1. /\ wire' \in Seq(Item) /\ Len(wire') = Len(wire) + 1 /\ Len(wire) \in Nat
        /\ \A x \in 1..Len(wire) : wire'[x] = wire[x]
        /\ wire'[Len(wire) + 1] = t
    BY Basics
  <1>2. Sorted'
    <2>1. ASSUME NEW x \in 1..Len(wire'), NEW y \in 1..Len(wire'), x < y
          PROVE  \/ wire'[x].of < wire'[y].of
                 \/ wire'[x].of = transaction' /\ wire'[y].of = transaction'
      <3>1. x \in 1..Len(wire) /\ wire'[x] = wire[x]
        BY <1>1, <2>1
      <3>2. CASE y = Len(wire) + 1
        BY <1>1, <3>1, <3>2
      <3>3. CASE y # Len(wire) + 1
        <4>1. y \in 1..Len(wire) /\ wire'[y] = wire[y]
          BY <1>1, <3>3
        <4>2. \/ wire[x].of < wire[y].of
              \/ wire[x].of = transaction /\ wire[y].of = transaction
          BY <2>1, <3>1, <4>1 DEF InStep, Wired, Sorted
        <4>3. state # "Dirty" => wire[x].of # transaction
          BY <3>1, OldItems
        <4> QED BY <3>1, <4>1, <4>2, <4>3
      <3> QED BY <3>2, <3>3
    <2> QED BY <2>1 DEF Sorted
  <1>3. Owned'
    <2>1. ASSUME NEW x \in 1..Len(wire')
          PROVE  OfTransaction(wire[x])' \/ Matches(wire[x])' \/ OfType(wire[x])'
      <3>1. CASE x = Len(wire) + 1
        BY <1>1, <3>1
      <3>2. CASE x # Len(wire) + 1
        <4>1. x \in 1..Len(wire)
          BY <1>1, <3>2
        <4>2. PICK u \in Item : u = wire[x] /\ (OfTransaction(u) \/ Matches(u))
          BY <4>1, OldItems
        <4>3. OfTransaction(u)' \/ Matches(u)'
          BY <4>2
        <4> QED BY <1>1, <4>1, <4>2, <4>3
      <3> QED BY <3>1, <3>2
    <2> QED BY <2>1 DEF Owned
  <1> QED BY <1>1, <1>2, <1>3

\* Lines and answers are items of the wire.
LEMMA LineItem == ASSUME NEW i \in Nat, NEW k \in {"err", "status", "int", "bulk", "multi", "exec"}
                  PROVE  /\ R!Line(i, k) \in Item /\ R!Line(i, k).of = i
                         /\ R!Line(i, k).is = k /\ R!Line(i, k).len = 1
  BY DEF R!Line, Item

LEMMA AnswerItem ==
    ASSUME R!ConstOk, NEW i \in Nat, NEW k \in R!Simple \cup {"multi"}, NEW a \in R!Answer(i, k)
    PROVE  /\ a \in Item /\ a.of = i
           /\ k \in R!Simple => a.is \in {k, "err"} /\ a.len = 1
           /\ k = "multi" => a.is = "multi" \/ (a.is = "err" /\ a.len = 1)
  <1>1. CASE a = R!Line(i, "err")
    <2>1. a \in Item /\ a.of = i /\ a.is = "err" /\ a.len = 1
      BY <1>1, LineItem
    <2> QED BY <2>1
  <1>2. CASE k = "multi" /\ \E e \in Elements : a = [of |-> i, is |-> "multi", len |-> e]
    <2>1. PICK e \in Elements : a = [of |-> i, is |-> "multi", len |-> e]
      BY <1>2
    <2>2. e \in Int
      BY <2>1 DEF R!ConstOk
    <2> QED BY <1>2, <2>1, <2>2 DEF Item, R!Simple
  <1>3. CASE k # "multi" /\ a = R!Line(i, k)
    <2>1. k \in {"status", "int", "bulk"}
      BY <1>3 DEF R!Simple
    <2>2. a \in Item /\ a.of = i /\ a.is = k /\ a.len = 1
      BY <1>3, <2>1, LineItem
    <2> QED BY <1>3, <2>2
  <1> QED BY <1>1, <1>2, <1>3 DEF R!Answer

\* A new object.
LEMMA NewKept ==
    ASSUME InStep, NEW k \in Kinds, R!NewObject(k), UNCHANGED <<headerDone, count>>,
           k = "queued" => transaction' = n + 1 /\ transaction = 0,
           k # "queued" => transaction' = transaction
    PROVE  /\ Objects' /\ n' = n + 1 /\ n + 1 \in R!Id /\ n + 1 \notin list
           /\ list' = list \cup {n + 1} /\ kind'[n + 1] = k /\ conn'[n + 1]
           /\ ~headerDone[n + 1]
           /\ \A i \in R!Id \ {n + 1} : kind'[i] = kind[i] /\ conn'[i] = conn[i]
  <1>1. /\ n < MaxCmd /\ n' = n + 1 /\ kind' = [kind EXCEPT ![n + 1] = k]
        /\ conn' = [conn EXCEPT ![n + 1] = TRUE] /\ list' = list \cup {n + 1}
    BY DEF R!NewObject
  <1>2. /\ n \in Nat /\ MaxCmd \in Nat /\ list \subseteq 1..n /\ list \subseteq R!Id
        /\ transaction \in Nat /\ transaction <= n
        /\ conn \in [R!Id -> BOOLEAN] /\ headerDone \in [R!Id -> BOOLEAN] /\ count \in [R!Id -> Int]
    BY Basics
  <1>3. n + 1 \in R!Id /\ n + 1 \notin list
    BY <1>1, <1>2 DEF R!Id
  <1>4. kind \in [R!Id -> Kinds \cup {"none"}]
    BY DEF InStep, Objects
  <1>5. /\ kind' \in [R!Id -> Kinds \cup {"none"}] /\ conn' \in [R!Id -> BOOLEAN]
        /\ kind'[n + 1] = k /\ conn'[n + 1]
        /\ \A i \in R!Id \ {n + 1} : kind'[i] = kind[i] /\ conn'[i] = conn[i]
    BY <1>1, <1>2, <1>3, <1>4
  <1>6. ~headerDone[n + 1] /\ \A i \in R!Id : i > n + 1 => ~headerDone[i]
    BY <1>2, <1>3 DEF InStep, Objects
  <1>7. \A i \in list' : kind'[i] # "none" /\ (kind'[i] = "queued" => i = transaction')
    <2> SUFFICES ASSUME NEW i \in list'
                 PROVE  kind'[i] # "none" /\ (kind'[i] = "queued" => i = transaction')
      OBVIOUS
    <2>1. CASE i = n + 1
      BY <1>5, <2>1 DEF Kinds
    <2>2. CASE i # n + 1
      <3>1. i \in list /\ i \in R!Id /\ i # 0
        BY <1>1, <1>2, <2>2
      <3>2. kind[i] # "none" /\ (kind[i] = "queued" => i = transaction)
        BY <3>1 DEF InStep, Objects
      <3> QED BY <1>5, <2>2, <3>1, <3>2
    <2> QED BY <2>1, <2>2
  <1>8. list' \subseteq 1..n' /\ n' \in 0..MaxCmd
    BY <1>1, <1>2
  <1>9. Objects'
    BY <1>1, <1>2, <1>5, <1>6, <1>7, <1>8 DEF Objects, InStep
  <1> QED BY <1>1, <1>3, <1>5, <1>6, <1>9

\* A command outside a transaction: its answer is on its way.
LEMMA SendPlain ==
    ASSUME InStep, stream = "good", lapse' = {}, NEW k, R!Send(k), state # "Dirty"
    PROVE  InStep'
  <1>0. inMulti = "none"
    BY DEF InStep, InTransaction
  <1>1. /\ R!Idle /\ R!Idle' /\ k \in R!Simple \cup {"multi"} /\ k \in Kinds /\ k # "queued"
        /\ R!NewObject(k)
        /\ UNCHANGED <<headerDone, count, transaction, state, queued, doing, goal, qread>>
        /\ inMulti' = inMulti
        /\ \E a \in R!Answer(n + 1, k) : wire' = wire \o <<a>>
    BY <1>0 DEF R!Send, R!Sent, R!Idle, R!Simple, Kinds
  <1>2. /\ Objects' /\ n' = n + 1 /\ n + 1 \in R!Id /\ n + 1 \notin list
        /\ list' = list \cup {n + 1} /\ kind'[n + 1] = k /\ conn'[n + 1]
        /\ ~headerDone[n + 1]
        /\ \A i \in R!Id \ {n + 1} : kind'[i] = kind[i] /\ conn'[i] = conn[i]
    BY <1>1, NewKept
  <1>3. PICK a \in R!Answer(n + 1, k) : wire' = wire \o <<a>>
    BY <1>1
  <1>4. n \in Nat /\ list \subseteq R!Id /\ transaction \in Nat /\ transaction <= n /\ R!ConstOk
    BY Basics DEF InStep, Objects
  <1>5. /\ a \in Item /\ a.of = n + 1
        /\ k \in R!Simple => a.is \in {k, "err"} /\ a.len = 1
        /\ k = "multi" => a.is = "multi" \/ (a.is = "err" /\ a.len = 1)
    <2>1. n + 1 \in Nat
      BY <1>4
    <2> QED BY <1>1, <1>3, <1>4, <2>1, AnswerItem
  <1>6. \A i : Due(i)' <=> Due(i) \/ i = n + 1
    <2>1. \A i : i # n + 1 => (Due(i)' <=> Due(i))
      BY <1>1, <1>2, <1>4 DEF Due, R!Unread, Pending
    <2>2. PICK m : m = n + 1
      OBVIOUS
    <2>3. Due(m)'
      BY <1>1, <1>2, <1>4, <2>2 DEF Due, R!Unread, Pending
    <2> QED BY <2>1, <2>2, <2>3
  <1>7. \A u \in Item : /\ OfTransaction(u) => OfTransaction(u)'
                        /\ Matches(u) => Matches(u)'
    <2> SUFFICES ASSUME NEW u \in Item
                 PROVE  (OfTransaction(u) => OfTransaction(u)') /\ (Matches(u) => Matches(u)')
      OBVIOUS
    <2>1. OfTransaction(u) => OfTransaction(u)'
      BY <1>1 DEF OfTransaction
    <2>2. Due(u.of) => u.of \in R!Id \ {n + 1}
      BY <1>2, <1>4 DEF Due
    <2>3. Matches(u) => Matches(u)'
      BY <1>1, <1>2, <1>6, <2>2 DEF Matches
    <2> QED BY <2>1, <2>3
  <1>8. Matches(a)'
    <2>1. PICK m : m = n + 1
      OBVIOUS
    <2>2. Due(m)' /\ kind'[m] = k /\ ~headerDone'[m] /\ a.of = m
      BY <1>1, <1>2, <1>5, <1>6, <2>1
    <2> QED BY <1>5, <2>2 DEF Matches
  <1>9. \A x \in 1..Len(wire) : wire[x].of < a.of
    BY <1>1, <1>4, <1>5, OldItems
  <1>10. /\ wire' \in Seq(Item) /\ Len(wire') = Len(wire) + 1 /\ Len(wire) \in Nat
         /\ \A x \in 1..Len(wire) : wire'[x] = wire[x]
         /\ wire'[Len(wire) + 1] = a /\ Sorted' /\ Owned'
    BY <1>1, <1>3, <1>5, <1>7, <1>8, <1>9, Appended
  <1>11. Sends'
    <2>1. ASSUME NEW i, Due(i)' PROVE \E x \in 1..Len(wire') : wire'[x].of = i
      <3>1. CASE i = n + 1
        BY <1>5, <1>10, <3>1
      <3>2. CASE Due(i)
        <4>1. PICK x \in 1..Len(wire) : wire[x].of = i
          BY <1>1, <3>2 DEF InStep, Wired, Sends, Due, ExecRefused, R!Idle
        <4> QED BY <1>10, <4>1
      <3> QED BY <1>6, <2>1, <3>1, <3>2
    <2> QED BY <1>1, <2>1 DEF Sends, R!Idle
  <1>12. Lined'
    BY <1>1 DEF Lined, R!Idle
  <1>13. InTransaction'
    BY <1>1, <1>2, <1>4 DEF InStep, InTransaction, R!Idle
  <1>14. Asked'
    BY <1>1 DEF InStep, Asked, R!Reading, R!Idle
  <1> QED BY <1>2, <1>10, <1>11, <1>12, <1>13, <1>14 DEF InStep, Wired

\* A command in a transaction: the server says that it is queued.
LEMMA SendQueued ==
    ASSUME InStep, stream = "good", lapse' = {}, NEW k, R!Send(k), state = "Dirty"
    PROVE  InStep'
  <1>0. transaction # 0 /\ inMulti = "open"
    BY DEF InStep, InTransaction
  <1>1. /\ R!Idle /\ R!Idle' /\ k \in Kinds /\ k # "queued" /\ R!NewObject(k)
        /\ UNCHANGED <<headerDone, count, transaction, state, doing, goal, qread>>
        /\ tcount' = tcount + 1 /\ queued' = Append(queued, n + 1) /\ inMulti' = inMulti
        /\ wire' = wire \o <<R!Line(transaction, "status")>>
    BY <1>0 DEF R!Send, R!Sent, R!Idle, R!Simple, Kinds, R!Lapse
  <1>2. /\ Objects' /\ n' = n + 1 /\ n + 1 \in R!Id /\ n + 1 \notin list
        /\ list' = list \cup {n + 1} /\ kind'[n + 1] = k /\ conn'[n + 1]
        /\ ~headerDone[n + 1]
        /\ \A i \in R!Id \ {n + 1} : kind'[i] = kind[i] /\ conn'[i] = conn[i]
    BY <1>1, NewKept
  <1>4. n \in Nat /\ list \subseteq R!Id /\ transaction \in Nat /\ transaction <= n
    BY Basics
  <1>5. PICK a \in Item : a = R!Line(transaction, "status") /\ a.of = transaction
                          /\ a.is = "status" /\ a.len = 1
    BY <1>4, LineItem
  <1>6. \A i : Due(i)' <=> Due(i)
    BY <1>1, <1>2, <1>4 DEF Due, R!Unread, Pending
  <1>7. \A u \in Item : /\ OfTransaction(u) => OfTransaction(u)'
                        /\ Matches(u) => Matches(u)'
    <2> SUFFICES ASSUME NEW u \in Item
                 PROVE  (OfTransaction(u) => OfTransaction(u)') /\ (Matches(u) => Matches(u)')
      OBVIOUS
    <2>1. OfTransaction(u) => OfTransaction(u)'
      BY <1>1 DEF OfTransaction
    <2>2. Due(u.of) => u.of \in R!Id \ {n + 1}
      BY <1>2, <1>4 DEF Due
    <2>3. Matches(u) => Matches(u)'
      BY <1>1, <1>2, <1>6, <2>2 DEF Matches
    <2> QED BY <2>1, <2>3
  <1>8. OfTransaction(a)'
    BY <1>1, <1>5 DEF OfTransaction
  <1>9. \A x \in 1..Len(wire) : \/ wire[x].of < a.of
                                \/ wire[x].of = transaction' /\ a.of = transaction'
    BY <1>1, <1>4, <1>5, OldItems
  <1>10. /\ wire' \in Seq(Item) /\ Len(wire') = Len(wire) + 1 /\ Len(wire) \in Nat
         /\ \A x \in 1..Len(wire) : wire'[x] = wire[x]
         /\ wire'[Len(wire) + 1] = a /\ Sorted' /\ Owned'
    BY <1>1, <1>5, <1>7, <1>8, <1>9, Appended
  <1>11. Sends'
    <2>1. ASSUME NEW i, Due(i)' PROVE \E x \in 1..Len(wire') : wire'[x].of = i
      <3>1. PICK x \in 1..Len(wire) : wire[x].of = i
        BY <1>1, <1>6, <2>1 DEF InStep, Wired, Sends, Due, ExecRefused, R!Idle
      <3> QED BY <1>10, <3>1
    <2> QED BY <1>1, <2>1 DEF Sends, R!Idle
  <1>12. tcount = n - transaction /\ queued = [x \in 1..(n - transaction) |-> transaction + x]
    BY DEF InStep, InTransaction
  <1>13. Lined'
    <2>1. \A x \in 1..Len(wire) : /\ wire[x].of = transaction <=> x >= Len(wire) - tcount
                                  /\ x >= Len(wire) - tcount => wire[x].is = "status"
      BY DEF InStep, Wired, Lined
    <2>2. tcount < Len(wire) /\ tcount \in Nat
      BY <1>4, <1>12 DEF InStep, Wired, Lined
    <2>3. Len(wire') - tcount' = Len(wire) - tcount
      BY <1>1, <1>10, <2>2
    <2>4. tcount' < Len(wire')
      BY <1>1, <1>10, <2>2
    <2>5. \A x \in 1..Len(wire') : /\ wire'[x].of = transaction <=> x >= Len(wire) - tcount
                                   /\ x >= Len(wire) - tcount => wire'[x].is = "status"
      <3> SUFFICES ASSUME NEW x \in 1..Len(wire')
                   PROVE  /\ wire'[x].of = transaction <=> x >= Len(wire) - tcount
                          /\ x >= Len(wire) - tcount => wire'[x].is = "status"
        OBVIOUS
      <3>1. CASE x = Len(wire) + 1
        <4>1. x >= Len(wire) - tcount
          BY <1>10, <2>2, <3>1
        <4> QED BY <1>5, <1>10, <3>1, <4>1
      <3>2. CASE x # Len(wire) + 1
        <4>1. x \in 1..Len(wire) /\ wire'[x] = wire[x]
          BY <1>10, <3>2
        <4> QED BY <2>1, <4>1
      <3> QED BY <3>1, <3>2
    <2> QED BY <1>1, <2>3, <2>4, <2>5 DEF Lined, R!Idle
  <1>14. InTransaction'
    <2>1. tcount' = n' - transaction
      BY <1>1, <1>2, <1>4, <1>12
    <2>2. queued' = [x \in 1..(n' - transaction) |-> transaction + x]
      BY <1>1, <1>2, <1>4, <1>12
    <2>3. \A i \in (transaction + 1)..n' : i \in list' /\ conn'[i] /\ ~headerDone'[i]
      <3> SUFFICES ASSUME NEW i \in (transaction + 1)..n'
                   PROVE  i \in list' /\ conn'[i] /\ ~headerDone'[i]
        OBVIOUS
      <3>1. CASE i = n + 1
        BY <1>1, <1>2, <3>1
      <3>2. CASE i # n + 1
        <4>1. i \in (transaction + 1)..n
          BY <1>2, <1>4, <3>2
        <4>2. i \in list /\ conn[i] /\ ~headerDone[i]
          BY <4>1 DEF InStep, InTransaction
        <4> QED BY <1>1, <1>2, <1>4, <3>2, <4>2
      <3> QED BY <3>1, <3>2
    <2>4. /\ transaction \in 0..n' /\ transaction \in list' /\ kind'[transaction] = "queued"
          /\ conn'[transaction]
      BY <1>0, <1>2, <1>4 DEF InStep, InTransaction
    <2> QED BY <1>0, <1>1, <2>1, <2>2, <2>3, <2>4 DEF InTransaction
  <1>15. Asked'
    BY <1>1 DEF InStep, Asked, R!Reading, R!Idle
  <1> QED BY <1>2, <1>10, <1>11, <1>13, <1>14, <1>15 DEF InStep, Wired

\* type() is called when nothing else is on its way.
LEMMA TypeSent ==
    ASSUME InStep, stream = "good", lapse = {}, lapse' = {}, R!SendType
    PROVE  InStep'
  <1>1. /\ R!Idle /\ n < MaxCmd /\ n' = n + 1 /\ kind' = [kind EXCEPT ![n + 1] = "status"]
        /\ \E k \in {"status", "err"} : wire' = wire \o <<R!Line(n + 1, k)>>
        /\ doing' = "type" /\ goal' = n + 1 /\ ~R!Outstanding /\ state # "Dirty"
        /\ UNCHANGED <<conn, headerDone, count, list, transaction, state, tcount, queued, qread>>
        /\ inMulti' = inMulti
    BY DEF R!SendType, R!Sent, R!Lapse, R!txVars, R!Answer
  <1>2. /\ n \in Nat /\ MaxCmd \in Nat /\ list \subseteq 1..n /\ list \subseteq R!Id
        /\ transaction \in Nat /\ transaction <= n
        /\ conn \in [R!Id -> BOOLEAN] /\ headerDone \in [R!Id -> BOOLEAN] /\ count \in [R!Id -> Int]
        /\ R!ConstOk
    BY Basics DEF InStep, Objects
  <1>3. n + 1 \in R!Id /\ n + 1 \notin list
    BY <1>1, <1>2 DEF R!Id
  <1>4. /\ kind' \in [R!Id -> Kinds \cup {"none"}]
        /\ \A i \in R!Id \ {n + 1} : kind'[i] = kind[i]
    <2>1. kind \in [R!Id -> Kinds \cup {"none"}]
      BY DEF InStep, Objects
    <2> QED BY <1>1, <2>1 DEF Kinds
  <1>5. \A i : ~Due(i) /\ ~Due(i)'
    <2>1. \A i : ~Due(i)
      BY <1>1 DEF R!Outstanding, Due
    <2> QED BY <1>1, <1>2, <1>3, <1>4, <2>1 DEF Due, R!Unread, Pending
  <1>6. PICK a \in Item : /\ a \in {R!Line(n + 1, "status"), R!Line(n + 1, "err")}
                          /\ a.of = n + 1 /\ wire' = wire \o <<a>>
    <2>1. n + 1 \in Nat
      BY <1>2
    <2>2. PICK k \in {"status", "err"} : wire' = wire \o <<R!Line(n + 1, k)>>
      BY <1>1
    <2>3. R!Line(n + 1, k) \in Item /\ R!Line(n + 1, k).of = n + 1
      BY <2>1, LineItem
    <2>4. R!Line(n + 1, k) \in {R!Line(n + 1, "status"), R!Line(n + 1, "err")}
      OBVIOUS
    <2> QED BY <2>2, <2>3, <2>4
  <1>7. \A u \in Item : /\ OfTransaction(u) => OfTransaction(u)'
                        /\ Matches(u) => Matches(u)'
    BY <1>1, <1>5 DEF OfTransaction, Matches, R!Idle
  <1>8. OfType(a)'
    BY <1>1, <1>6 DEF OfType
  <1>9. \A x \in 1..Len(wire) : wire[x].of < a.of
    BY <1>1, <1>2, <1>6, OldItems
  <1>10. /\ wire' \in Seq(Item) /\ Len(wire') = Len(wire) + 1 /\ Len(wire) \in Nat
         /\ Sorted' /\ Owned'
    BY <1>1, <1>6, <1>7, <1>8, <1>9, Appended
  <1>11. Sends' /\ Lined'
    BY <1>1, <1>5, <1>10 DEF Sends, Lined
  <1>12. Objects'
    <2>1. \A i \in list' : kind'[i] # "none" /\ (kind'[i] = "queued" => i = transaction)
      BY <1>1, <1>2, <1>3, <1>4 DEF InStep, Objects
    <2>2. \A i \in R!Id : i > n + 1 => ~headerDone[i]
      BY <1>2 DEF InStep, Objects, R!Id
    <2> QED BY <1>1, <1>2, <1>4, <2>1, <2>2 DEF Objects
  <1>13. InTransaction'
    <2>1. transaction # 0 => kind'[transaction] = kind[transaction]
      BY <1>2, <1>3, <1>4 DEF InStep, InTransaction
    <2> QED BY <1>1, <1>2, <2>1 DEF InStep, InTransaction, R!Idle
  <1>14. Asked'
    BY <1>1, <1>2, <1>3, <1>5 DEF InStep, Asked, R!Reading, R!Idle
  <1> QED BY <1>10, <1>11, <1>12, <1>13, <1>14 DEF InStep, Wired

\* MULTI is sent.
LEMMA BeginKept ==
    ASSUME InStep, stream = "good", lapse' = {}, R!BeginTransaction
    PROVE  InStep'
  <1>1. /\ R!Idle /\ R!Idle' /\ transaction = 0 /\ R!NewObject("queued")
        /\ wire' = wire \o <<R!Line(n + 1, "status")>>
        /\ transaction' = n + 1 /\ state' = "Dirty" /\ tcount' = 0 /\ queued' = <<>>
        /\ inMulti' = "open"
        /\ UNCHANGED <<headerDone, count, doing, goal, qread>>
    BY DEF R!BeginTransaction, R!Sent, R!Idle, R!Lapse
  <1>2. /\ Objects' /\ n' = n + 1 /\ n + 1 \in R!Id /\ n + 1 \notin list
        /\ list' = list \cup {n + 1} /\ kind'[n + 1] = "queued" /\ conn'[n + 1]
        /\ ~headerDone[n + 1]
        /\ \A i \in R!Id \ {n + 1} : kind'[i] = kind[i] /\ conn'[i] = conn[i]
    <2>1. "queued" \in Kinds
      BY DEF Kinds
    <2> QED BY <1>1, <2>1, NewKept
  <1>3. state # "Dirty"
    BY <1>1 DEF InStep, InTransaction
  <1>4. n \in Nat /\ list \subseteq R!Id /\ list \subseteq 1..n
    BY Basics
  <1>5. PICK a \in Item : a = R!Line(n + 1, "status") /\ a.of = n + 1
                          /\ a.is = "status" /\ a.len = 1
    <2>1. n + 1 \in Nat
      BY <1>4
    <2> QED BY <2>1, LineItem
  <1>6. \A i : Due(i)' <=> Due(i)
    <2>1. PICK m : m = n + 1
      OBVIOUS
    <2>2. ~Due(m)' /\ ~Due(m)
      BY <1>1, <1>2, <2>1 DEF Due
    <2>3. ASSUME NEW i, i # m PROVE Due(i)' <=> Due(i)
      <3>1. i \in list => i \in R!Id /\ i # 0 /\ ~(i > n + 1)
        BY <1>4
      <3>2. i \in list' <=> i \in list
        BY <1>2, <2>1, <2>3
      <3>3. i \in list => ~Pending(i)' /\ ~Pending(i)
        BY <1>1, <1>3, <3>1 DEF Pending
      <3>4. i \in list => (R!Unread(i)' <=> R!Unread(i))
        BY <1>1, <1>2, <2>1, <2>3, <3>1 DEF R!Unread
      <3> QED BY <1>1, <2>1, <2>3, <3>1, <3>2, <3>3, <3>4 DEF Due
    <2> QED BY <2>2, <2>3
  <1>7. \A u \in Item : /\ OfTransaction(u) => OfTransaction(u)'
                        /\ Matches(u) => Matches(u)'
    <2> SUFFICES ASSUME NEW u \in Item
                 PROVE  (OfTransaction(u) => OfTransaction(u)') /\ (Matches(u) => Matches(u)')
      OBVIOUS
    <2>1. ~OfTransaction(u)
      BY <1>1, <1>3 DEF OfTransaction, R!Idle
    <2>2. Due(u.of) => u.of \in R!Id \ {n + 1}
      BY <1>2, <1>4 DEF Due
    <2>3. Matches(u) => Matches(u)'
      BY <1>1, <1>2, <1>6, <2>2 DEF Matches
    <2> QED BY <2>1, <2>3
  <1>8. OfTransaction(a)'
    BY <1>1, <1>5 DEF OfTransaction
  <1>9. \A x \in 1..Len(wire) : wire[x].of < a.of /\ wire[x].of # n + 1
    BY <1>1, <1>4, <1>5, OldItems
  <1>10. /\ wire' \in Seq(Item) /\ Len(wire') = Len(wire) + 1 /\ Len(wire) \in Nat
         /\ \A x \in 1..Len(wire) : wire'[x] = wire[x]
         /\ wire'[Len(wire) + 1] = a /\ Sorted' /\ Owned'
    BY <1>1, <1>3, <1>5, <1>7, <1>8, <1>9, Appended
  <1>11. Sends'
    <2>1. ASSUME NEW i, Due(i)' PROVE \E x \in 1..Len(wire') : wire'[x].of = i
      <3>1. PICK x \in 1..Len(wire) : wire[x].of = i
        BY <1>1, <1>6, <2>1 DEF InStep, Wired, Sends, Due, ExecRefused, R!Idle
      <3> QED BY <1>10, <3>1
    <2> QED BY <1>1, <2>1 DEF Sends, R!Idle
  <1>13. Lined'
    <2>1. \A x \in 1..Len(wire') : /\ wire'[x].of = n + 1 <=> x >= Len(wire')
                                   /\ x >= Len(wire') => wire'[x].is = "status"
      BY <1>5, <1>9, <1>10
    <2>2. tcount' < Len(wire') /\ Len(wire') - tcount' = Len(wire')
      BY <1>1, <1>10
    <2> QED BY <1>1, <2>1, <2>2 DEF Lined, R!Idle
  <1>14. InTransaction'
    <2>1. n' - transaction' = 0 /\ transaction' \in 0..n' /\ (transaction' + 1)..n' = {}
          /\ transaction' # 0
      BY <1>1, <1>2, <1>4
    <2>2. queued' = [x \in 1..(n' - transaction') |-> transaction' + x]
      <3>1. 1..(n' - transaction') = {}
        BY <2>1
      <3> QED BY <1>1, <3>1
    <2> QED BY <1>1, <1>2, <2>1, <2>2 DEF InTransaction
  <1>15. Asked'
    BY <1>1 DEF InStep, Asked, R!Reading, R!Idle
  <1> QED BY <1>2, <1>10, <1>11, <1>13, <1>14, <1>15 DEF InStep, Wired

\* type() reads the only line there is.
LEMMA TypeRead ==
    ASSUME InStep, stream = "good", R!ReadType
    PROVE  mixed' = mixed /\ stream' = "good" /\ InStep'
  <1>1. /\ doing = "type" /\ R!Take(goal, "status") /\ R!Over
        /\ UNCHANGED <<n, kind, conn, headerDone, count, list>>
        /\ UNCHANGED <<transaction, state, tcount, queued, inMulti>>
    BY DEF R!ReadType, R!objVars, R!txVars
  <1>2. /\ goal = n /\ state # "Dirty" /\ \A i \in list : ~Due(i)
        /\ n # transaction
    BY <1>1 DEF InStep, Asked
  <1>3. \A x \in 1..Len(wire) : /\ wire[x] \in {R!Line(goal, "status"), R!Line(goal, "err")}
                                /\ wire[x].of = n
    <2>1. \A x \in 1..Len(wire) : ~OfTransaction(wire[x]) /\ ~Matches(wire[x])
      BY <1>1, <1>2 DEF OfTransaction, Matches, Due
    <2> QED BY <1>2, <2>1 DEF InStep, Wired, Owned, OfType, R!Line
  <1>4. wire # <<>> /\ wire \in Seq(Item) /\ n \in Nat
    BY <1>1, Basics DEF InStep, Wired, Sends
  <1>5. /\ 1 \in 1..Len(wire) /\ Head(wire) = wire[1]
        /\ wire[1] \in {R!Line(goal, "status"), R!Line(goal, "err")}
        /\ Len(wire) \in Nat
    BY <1>3, <1>4
  <1>6. Head(wire).of = goal /\ Head(wire).is \in {"status", "err"} /\ Head(wire).len = 1
    BY <1>5 DEF R!Line
  <1>7. mixed' = mixed /\ stream' = "good" /\ wire' = R!NextLine
    BY <1>1, <1>4, <1>6 DEF R!Take, R!Fits
  <1>8. Len(wire) = 1
    <2> SUFFICES ASSUME Len(wire) # 1 PROVE FALSE
      OBVIOUS
    <2>1. 2 \in 1..Len(wire)
      <3>1. 1 \in 1..Len(wire) /\ Len(wire) \in Nat
        BY <1>5
      <3> QED BY <3>1
    <2>2. wire[1].of < wire[2].of \/ wire[1].of = transaction
      BY <1>5, <2>1 DEF InStep, Wired, Sorted
    <2> QED BY <1>2, <1>3, <1>4, <1>5, <2>1, <2>2
  <1>9. ~(R!Left > 0)
    BY <1>6 DEF R!Left
  <1>10. wire' \in Seq(Item) /\ Len(wire') = 0
    BY <1>4, <1>7, <1>8, <1>9, NextLines
  <1>11. Wired'
    <2>1. doing' = "none" /\ state' # "Dirty"
      BY <1>1, <1>2 DEF R!Over
    <2>2. Sorted' /\ Owned' /\ Lined'
      BY <1>10, <2>1 DEF Sorted, Owned, Lined
    <2>3. \A i \in list : ~Due(i)'
      BY <1>1, <1>2 DEF Due, R!Unread, Pending
    <2> QED BY <1>1, <1>10, <2>1, <2>2, <2>3 DEF Wired, Sends
  <1>12. Objects'
    BY <1>1 DEF InStep, Objects
  <1>13. InTransaction'
    BY <1>1 DEF InStep, InTransaction, R!Over
  <1>14. Asked'
    BY <1>1 DEF Asked, R!Over, R!Reading
  <1> QED BY <1>7, <1>11, <1>12, <1>13, <1>14 DEF InStep

\* A transaction ends in turn: there is nothing but its own lines.
LEMMA OnlyItsLines ==
    ASSUME InStep, R!Idle, state = "Dirty", ~\E i \in list : i < transaction /\ R!Unread(i)
    PROVE  /\ Len(wire) = tcount + 1 /\ tcount \in Nat /\ tcount = n - transaction
           /\ \A x \in 1..Len(wire) : /\ wire[x].of = transaction /\ wire[x].is = "status"
                                      /\ wire[x].len = 1
           /\ \A i : ~Due(i)
  <1>1. /\ n \in Nat /\ transaction \in Nat /\ transaction <= n /\ list \subseteq 1..n
        /\ wire \in Seq(Item)
    BY Basics
  <1>2. \A i : ~Due(i)
    <2> SUFFICES ASSUME NEW i, Due(i) PROVE FALSE
      OBVIOUS
    <2>1. i \in list /\ i # transaction /\ R!Unread(i) /\ ~(i > transaction)
      BY DEF Due, Pending
    <2>2. i \in Nat
      BY <1>1, <2>1
    <2>3. i < transaction
      BY <1>1, <2>1, <2>2
    <2> QED BY <2>1, <2>3
  <1>3. \A x \in 1..Len(wire) : OfTransaction(wire[x])
    BY <1>2, OldItems DEF Matches
  <1>4. tcount = n - transaction /\ tcount \in Nat
    BY <1>1 DEF InStep, InTransaction
  <1>5. /\ tcount < Len(wire)
        /\ \A x \in 1..Len(wire) : /\ wire[x].of = transaction <=> x >= Len(wire) - tcount
                                   /\ x >= Len(wire) - tcount => wire[x].is = "status"
    BY DEF InStep, Wired, Lined
  <1>6. \A x \in 1..Len(wire) : wire[x].of = transaction /\ wire[x].len = 1
    BY <1>3 DEF OfTransaction
  <1>7. Len(wire) = tcount + 1
    <2>1. Len(wire) \in Nat /\ 1 \in 1..Len(wire)
      BY <1>1, <1>4, <1>5
    <2>2. 1 >= Len(wire) - tcount
      BY <1>5, <1>6, <2>1
    <2> QED BY <1>4, <1>5, <2>1, <2>2
  <1> QED BY <1>2, <1>4, <1>5, <1>6, <1>7

\* EXEC is refused, or DISCARD answered with nothing queued.
LEMMA LastLine ==
    ASSUME InStep, R!Idle, state = "Dirty", state' \in {"Committed", "Aborted"},
           doing' = "queued", goal' = transaction, inMulti' = "none",
           NEW k \in {"status", "err"}, wire' = wire \o <<R!Line(transaction, k)>>,
           state' = "Committed" => k = "err", state' = "Aborted" => queued = <<>>,
           ~\E i \in list : i < transaction /\ R!Unread(i),
           UNCHANGED <<n, kind, conn, headerDone, count, list, transaction, tcount, queued, qread>>
    PROVE  InStep'
  <1>2. /\ Len(wire) = tcount + 1 /\ tcount \in Nat /\ tcount = n - transaction
        /\ \A x \in 1..Len(wire) : /\ wire[x].of = transaction /\ wire[x].is = "status"
                                   /\ wire[x].len = 1
        /\ \A i : ~Due(i)
    BY OnlyItsLines
  <1>3. /\ n \in Nat /\ transaction \in Nat /\ transaction <= n /\ list \subseteq 1..n
    BY Basics
  <1>4. ASSUME state' = "Aborted" PROVE n = transaction
    <2>1. queued = [x \in 1..(n - transaction) |-> transaction + x] /\ queued = <<>>
      BY <1>4 DEF InStep, InTransaction
    <2>2. 1..(n - transaction) = DOMAIN queued /\ DOMAIN queued = {}
      BY <2>1
    <2>3. n - transaction \in Nat /\ ~(1 <= n - transaction)
      BY <1>3, <2>2
    <2> QED BY <1>3, <2>3
  <1>5. PICK a \in Item : a = R!Line(transaction, k) /\ a.of = transaction
                          /\ a.is = k /\ a.len = 1
    BY <1>3, LineItem
  <1>6. ASSUME state' = "Aborted" PROVE \A i : ~Due(i)'
    <2> SUFFICES ASSUME NEW i, Due(i)' PROVE FALSE
      OBVIOUS
    <2>1. i \in list /\ i # transaction /\ R!Unread(i)
      BY DEF Due, R!Unread
    <2>2. i < transaction
      BY <1>3, <1>4, <1>6, <2>1
    <2> QED BY <2>1, <2>2
  <1>7. \A u \in Item : /\ OfTransaction(u) => OfTransaction(u)'
                        /\ Matches(u) => Matches(u)'
    BY <1>2 DEF OfTransaction, Matches
  <1>8. OfTransaction(a)'
    BY <1>5 DEF OfTransaction
  <1>10. /\ wire' \in Seq(Item) /\ Len(wire') = Len(wire) + 1 /\ Len(wire) \in Nat
         /\ \A x \in 1..Len(wire) : wire'[x] = wire[x]
         /\ wire'[Len(wire) + 1] = a /\ Sorted' /\ Owned'
    BY <1>2, <1>5, <1>7, <1>8, Appended
  <1>12. qread = 0
    BY DEF InStep, Asked, R!Idle
  <1>13. /\ Len(wire') = tcount + 2 /\ tcount' + 2 - qread' = tcount + 2
         /\ wire'[tcount + 2] = a
    <2>1. Len(wire) + 1 = tcount + 2
      BY <1>2
    <2> QED BY <1>2, <1>10, <1>12, <2>1
  <1>11. Sends'
    <2>1. CASE state' = "Aborted"
      BY <1>6, <2>1 DEF Sends
    <2>2. CASE state' = "Committed"
      <3>1. ExecRefused'
        BY <1>5, <1>13, <2>2 DEF ExecRefused
      <3> QED BY <3>1 DEF Sends
    <2> QED BY <2>1, <2>2
  <1>9. Lined'
    <2>1. qread' \in 0..(tcount' + 1)
      BY <1>2, <1>12
    <2>2. \A x \in 1..Len(wire') : /\ wire'[x].of = transaction /\ x <= tcount + 2
                                   /\ x < tcount + 2 => wire'[x].is = "status"
                                   /\ x = tcount + 2 => wire'[x].is = k
      <3> SUFFICES ASSUME NEW x \in 1..Len(wire')
                   PROVE  /\ wire'[x].of = transaction /\ x <= tcount + 2
                          /\ x < tcount + 2 => wire'[x].is = "status"
                          /\ x = tcount + 2 => wire'[x].is = k
        OBVIOUS
      <3>1. x \in 1..(tcount + 2) /\ tcount \in Nat
        BY <1>2, <1>13
      <3>2. CASE x = tcount + 2
        BY <1>5, <1>13, <3>1, <3>2
      <3>3. CASE x # tcount + 2
        <4>1. x \in 1..Len(wire) /\ x < tcount + 2
          BY <1>2, <3>1, <3>3
        <4> QED BY <1>2, <1>10, <3>1, <3>3, <4>1
      <3> QED BY <3>2, <3>3
    <2>3. tcount' + 2 - qread' <= Len(wire')
      BY <1>2, <1>13
    <2> QED BY <1>13, <2>1, <2>2, <2>3 DEF Lined
  <1>14. InTransaction'
    BY DEF InStep, InTransaction
  <1>15. Asked'
    BY DEF Asked, R!Reading
  <1>16. Objects'
    BY DEF InStep, Objects
  <1> QED BY <1>9, <1>10, <1>11, <1>14, <1>15, <1>16 DEF InStep, Wired

\* DISCARD in turn, with nothing queued.
LEMMA AbortKept ==
    ASSUME InStep, stream = "good", lapse = {}, lapse' = {}, R!Abort
    PROVE  InStep'
  <1>1. /\ R!Idle /\ state = "Dirty" /\ state' = "Aborted" /\ doing' = "queued"
        /\ goal' = transaction /\ inMulti' = "none"
        /\ queued = <<>> /\ ~\E i \in list : i < transaction /\ R!Unread(i)
        /\ UNCHANGED <<n, kind, conn, headerDone, count, list, transaction, tcount, queued, qread>>
    BY DEF R!Abort, R!objVars
  <1>2. PICK k \in {"status", "err"} : wire' = wire \o <<R!Line(transaction, k)>>
    BY DEF R!Abort, R!Sent
  <1> QED BY <1>1, <1>2, LastLine

\* EXEC's answer has those of the commands behind it, in their order.
LEMMA ExecAnswered ==
    ASSUME InStep, stream = "good", lapse = {}, lapse' = {}, R!Commit,
           wire' # wire \o <<R!Line(transaction, "err")>>
    PROVE  InStep'
  <1>1. /\ R!Idle /\ state = "Dirty" /\ state' = "Committed" /\ doing' = "queued"
        /\ goal' = transaction /\ inMulti' = "none"
        /\ ~\E i \in list : i < transaction /\ R!Unread(i)
        /\ UNCHANGED <<n, kind, conn, headerDone, count, list, transaction, tcount, queued, qread>>
    BY DEF R!Commit, R!Lapse, R!objVars
  <1>2. PICK a \in [DOMAIN queued -> UNION {R!Answer(i, kind[i]) : i \in 1..n}] :
           /\ \A x \in DOMAIN queued : a[x] \in R!Answer(queued[x], kind[queued[x]])
           /\ wire' = wire \o (<<R!Line(transaction, "exec")>> \o a)
    BY DEF R!Commit, R!Sent
  <1>3. /\ Len(wire) = tcount + 1 /\ tcount \in Nat /\ tcount = n - transaction
        /\ \A x \in 1..Len(wire) : /\ wire[x].of = transaction /\ wire[x].is = "status"
                                   /\ wire[x].len = 1
        /\ \A i : ~Due(i)
    BY <1>1, OnlyItsLines
  <1>4. /\ n \in Nat /\ transaction \in Nat /\ transaction <= n /\ list \subseteq 1..n
        /\ wire \in Seq(Item) /\ R!ConstOk /\ list \subseteq R!Id
    BY Basics DEF InStep, Objects
  <1>5. queued = [x \in 1..tcount |-> transaction + x] /\ DOMAIN queued = 1..tcount
    BY <1>1, <1>3 DEF InStep, InTransaction
  <1>6. \A i \in (transaction + 1)..n : /\ i \in list /\ conn[i] /\ ~headerDone[i]
                                        /\ kind[i] \in R!Simple \cup {"multi"}
    <2> SUFFICES ASSUME NEW i \in (transaction + 1)..n
                 PROVE  /\ i \in list /\ conn[i] /\ ~headerDone[i]
                        /\ kind[i] \in R!Simple \cup {"multi"}
      OBVIOUS
    <2>1. i \in list /\ conn[i] /\ ~headerDone[i] /\ i \in R!Id /\ i # transaction
      BY <1>1, <1>4 DEF InStep, InTransaction
    <2>2. kind[i] \in Kinds \cup {"none"} /\ kind[i] # "none" /\ kind[i] # "queued"
      BY <2>1 DEF InStep, Objects
    <2> QED BY <2>1, <2>2 DEF Kinds, R!Simple
  <1>7. ASSUME NEW x \in 1..tcount
        PROVE  /\ a[x] \in Item /\ a[x].of = transaction + x
               /\ kind[transaction + x] \in R!Simple =>
                     a[x].is \in {kind[transaction + x], "err"} /\ a[x].len = 1
               /\ kind[transaction + x] = "multi" =>
                     a[x].is = "multi" \/ (a[x].is = "err" /\ a[x].len = 1)
    <2>1. transaction + x \in (transaction + 1)..n /\ transaction + x \in Nat
      BY <1>3, <1>4
    <2>2. a[x] \in R!Answer(transaction + x, kind[transaction + x])
      BY <1>2, <1>5
    <2>3. kind[transaction + x] \in R!Simple \cup {"multi"}
      BY <1>6, <2>1
    <2> QED BY <1>4, <2>1, <2>2, <2>3, AnswerItem
  <1>8. PICK e \in Item : e = R!Line(transaction, "exec") /\ e.of = transaction
                          /\ e.is = "exec" /\ e.len = 1
    BY <1>4, LineItem
  <1>9. /\ wire' \in Seq(Item) /\ Len(wire') = tcount + 2 + tcount
        /\ \A x \in 1..(tcount + 1) : wire'[x] = wire[x]
        /\ wire'[tcount + 2] = e
        /\ \A x \in 1..tcount : wire'[tcount + 2 + x] = a[x]
    <2>1. a \in Seq(Item) /\ Len(a) = tcount
      <3>1. a \in [1..tcount -> Item]
        BY <1>2, <1>5, <1>7
      <3> QED BY <1>3, <3>1
    <2>2. PICK b \in Seq(Item) : b = <<e>> \o a
      <3>1. <<e>> \in Seq(Item)
        OBVIOUS
      <3>2. <<e>> \o a \in Seq(Item)
        BY <2>1, <3>1, QueueConcat
      <3> QED BY <3>2
    <2>3. /\ Len(b) = tcount + 1 /\ b[1] = e
          /\ \A x \in 1..tcount : b[x + 1] = a[x]
      BY <1>3, <2>1, <2>2
    <2>4. wire' = wire \o b
      BY <1>2, <1>8, <2>2
    <2>5. /\ wire' \in Seq(Item) /\ Len(wire') = Len(wire) + Len(b)
          /\ \A x \in 1..Len(wire) : wire'[x] = wire[x]
          /\ \A x \in 1..Len(b) : wire'[Len(wire) + x] = b[x]
      BY <1>4, <2>4
    <2>6. \A x \in 1..tcount : /\ x + 1 \in 1..Len(b)
                               /\ Len(wire) + (x + 1) = tcount + 2 + x
      BY <1>3, <2>3
    <2>7. 1 \in 1..Len(b) /\ Len(wire) + 1 = tcount + 2
          /\ Len(wire) + Len(b) = tcount + 2 + tcount
      <3>1. Len(wire) = tcount + 1 /\ Len(b) = tcount + 1 /\ tcount \in Nat
        BY <1>3, <2>3
      <3> QED BY <3>1
    <2>8. \A x \in 1..tcount : wire'[tcount + 2 + x] = a[x]
      BY <2>3, <2>5, <2>6
    <2>9. wire'[tcount + 2] = e /\ Len(wire') = tcount + 2 + tcount
      BY <2>3, <2>5, <2>7
    <2> QED BY <1>3, <2>5, <2>8, <2>9
  <1>10. ASSUME NEW y \in 1..Len(wire')
         PROVE  \/ y <= tcount + 1 /\ wire'[y] = wire[y] /\ y \in 1..Len(wire)
                \/ y = tcount + 2 /\ wire'[y] = e
                \/ \E x \in 1..tcount : y = tcount + 2 + x /\ wire'[y] = a[x]
    <2>1. CASE y > tcount + 2
      <3>0. tcount \in Nat /\ y \in Int /\ y <= tcount + 2 + tcount
        BY <1>3, <1>9
      <3>1. PICK x \in 1..tcount : x = y - (tcount + 2)
        BY <2>1, <3>0
      <3>2. y = tcount + 2 + x
        BY <1>3, <3>1
      <3> QED BY <1>9, <3>2
    <2> QED BY <1>3, <1>9, <2>1
  <1>11. \A y \in 1..Len(wire') :
            /\ y <= tcount + 2 => wire'[y].of = transaction /\ wire'[y].len = 1
            /\ y < tcount + 2 => wire'[y].is = "status"
            /\ y = tcount + 2 => wire'[y].is = "exec"
            /\ y > tcount + 2 => wire'[y].of = transaction + (y - (tcount + 2))
    <2> SUFFICES ASSUME NEW y \in 1..Len(wire')
                 PROVE  /\ y <= tcount + 2 => wire'[y].of = transaction /\ wire'[y].len = 1
                        /\ y < tcount + 2 => wire'[y].is = "status"
                        /\ y = tcount + 2 => wire'[y].is = "exec"
                        /\ y > tcount + 2 => wire'[y].of = transaction + (y - (tcount + 2))
      OBVIOUS
    <2>1. CASE y <= tcount + 1 /\ wire'[y] = wire[y] /\ y \in 1..Len(wire)
      BY <1>3, <2>1
    <2>2. CASE y = tcount + 2 /\ wire'[y] = e
      BY <1>3, <1>8, <2>2
    <2>3. CASE \E x \in 1..tcount : y = tcount + 2 + x /\ wire'[y] = a[x]
      <3>1. PICK x \in 1..tcount : y = tcount + 2 + x /\ wire'[y] = a[x]
        BY <2>3
      <3>2. a[x].of = transaction + x
        BY <1>7
      <3>3. tcount \in Nat /\ y = tcount + 2 + x /\ x \in Nat /\ x > 0
        BY <1>3, <3>1
      <3>4. x = y - (tcount + 2) /\ y > tcount + 2
        BY <3>3
      <3>5. ~(y <= tcount + 2) /\ ~(y < tcount + 2) /\ y # tcount + 2
        BY <3>3
      <3> QED BY <3>1, <3>2, <3>4, <3>5
    <2> QED BY <1>10, <2>1, <2>2, <2>3
  <1>12. Sorted'
    <2>1. ASSUME NEW x \in 1..Len(wire'), NEW y \in 1..Len(wire'), x < y
          PROVE  \/ wire'[x].of < wire'[y].of
                 \/ wire'[x].of = transaction' /\ wire'[y].of = transaction'
      <3>1. tcount \in Nat /\ x \in Nat /\ y \in Nat /\ transaction \in Nat
        BY <1>3, <1>4, <1>9
      <3>2. CASE y <= tcount + 2
        BY <1>1, <1>11, <2>1, <3>1, <3>2
      <3>3. CASE y > tcount + 2 /\ x <= tcount + 2
        <4>1. wire'[y].of = transaction + (y - (tcount + 2)) /\ wire'[x].of = transaction
          BY <1>11, <3>3
        <4> QED BY <3>1, <3>3, <4>1
      <3>4. CASE x > tcount + 2
        <4>1. y > tcount + 2
          BY <2>1, <3>1, <3>4
        <4>2. /\ wire'[y].of = transaction + (y - (tcount + 2))
              /\ wire'[x].of = transaction + (x - (tcount + 2))
          BY <1>11, <3>4, <4>1
        <4> QED BY <2>1, <3>1, <4>2
      <3> QED BY <3>1, <3>2, <3>3, <3>4
    <2> QED BY <2>1 DEF Sorted
  <1>13. \A i : Due(i)' <=> i \in (transaction + 1)..n
    <2> SUFFICES ASSUME NEW i PROVE Due(i)' <=> i \in (transaction + 1)..n
      OBVIOUS
    <2>1. Due(i)' <=> i \in list /\ i # transaction /\ R!Unread(i)
      BY <1>1 DEF Due, R!Unread, Pending
    <2>2. i \in (transaction + 1)..n => Due(i)'
      BY <1>4, <1>6, <2>1 DEF R!Unread
    <2>3. ASSUME Due(i)' PROVE i \in (transaction + 1)..n
      <3>1. i \in list /\ i # transaction /\ ~(i < transaction)
        BY <1>1, <2>1, <2>3
      <3> QED BY <1>4, <3>1
    <2> QED BY <2>2, <2>3
  <1>14. Owned'
    <2>1. ASSUME NEW y \in 1..Len(wire') PROVE OfTransaction(wire[y])' \/ Matches(wire[y])'
      <3>1. CASE y <= tcount + 2
        <4>1. wire'[y].of = transaction' /\ wire'[y].len = 1
          BY <1>1, <1>11, <3>1
        <4> QED BY <1>1, <4>1 DEF OfTransaction
      <3>2. CASE y > tcount + 2
        <4>1. PICK x \in 1..tcount : y = tcount + 2 + x /\ wire'[y] = a[x]
          BY <1>3, <1>10, <3>2
        <4>2. PICK m \in (transaction + 1)..n : m = transaction + x
          <5>1. /\ tcount = n - transaction /\ n \in Nat /\ transaction \in Nat
                /\ x \in 1..tcount
            BY <1>3, <1>4
          <5> QED BY <5>1
        <4>3. PICK t \in Item : t = a[x] /\ t.of = m
                /\ (kind[m] \in R!Simple => t.is \in {kind[m], "err"} /\ t.len = 1)
                /\ (kind[m] = "multi" => t.is = "multi" \/ (t.is = "err" /\ t.len = 1))
          BY <1>7, <4>2
        <4>4. Due(m)' /\ ~headerDone'[m] /\ kind'[m] = kind[m]
          BY <1>1, <1>6, <1>13, <4>2
        <4>5. Matches(t)'
          BY <4>3, <4>4 DEF Matches
        <4> QED BY <4>1, <4>3, <4>5
      <3> QED BY <1>3, <3>1, <3>2
    <2> QED BY <2>1 DEF Owned
  <1>15. Sends'
    <2>1. ASSUME NEW i, Due(i)' PROVE \E y \in 1..Len(wire') : wire'[y].of = i
      <3>1. i \in (transaction + 1)..n
        BY <1>13, <2>1
      <3>2. PICK x \in 1..tcount : x = i - transaction
        BY <1>3, <1>4, <3>1
      <3>3. /\ tcount \in Nat /\ transaction \in Nat /\ x \in 1..tcount /\ i \in Nat
            /\ x = i - transaction /\ Len(wire') = tcount + 2 + tcount
        BY <1>3, <1>4, <1>9, <3>1, <3>2
      <3>4. tcount + 2 + x \in 1..Len(wire') /\ transaction + x = i
        BY <3>3
      <3> QED BY <1>7, <1>9, <3>2, <3>4
    <2> QED BY <1>1, <2>1 DEF Sends
  <1>16. Lined'
    <2>1. qread' = 0 /\ tcount' + 2 - qread' = tcount + 2 /\ tcount' = tcount
      BY <1>1, <1>3 DEF InStep, Asked, R!Idle
    <2>2. qread' \in 0..(tcount' + 1) /\ tcount + 2 <= Len(wire')
      BY <1>3, <1>9, <2>1
    <2>3. \A y \in 1..Len(wire') : /\ wire'[y].of = transaction <=> y <= tcount + 2
                                   /\ y < tcount + 2 => wire'[y].is = "status"
                                   /\ y = tcount + 2 => wire'[y].is = "exec"
      <3> SUFFICES ASSUME NEW y \in 1..Len(wire')
                   PROVE  /\ wire'[y].of = transaction <=> y <= tcount + 2
                          /\ y < tcount + 2 => wire'[y].is = "status"
                          /\ y = tcount + 2 => wire'[y].is = "exec"
        OBVIOUS
      <3>1. CASE y <= tcount + 2
        BY <1>11, <3>1
      <3>2. CASE y > tcount + 2
        <4>1. wire'[y].of = transaction + (y - (tcount + 2)) /\ y \in Nat /\ tcount \in Nat
          BY <1>3, <1>9, <1>11, <3>2
        <4>2. wire'[y].of # transaction /\ ~(y <= tcount + 2) /\ ~(y < tcount + 2) /\ y # tcount + 2
          BY <1>4, <3>2, <4>1
        <4> QED BY <4>2
      <3>3. y \in Nat /\ tcount \in Nat
        BY <1>3, <1>9
      <3> QED BY <3>1, <3>2, <3>3
    <2> QED BY <1>1, <2>1, <2>2, <2>3 DEF Lined
  <1>17. InTransaction'
    BY <1>1 DEF InStep, InTransaction
  <1>18. Asked'
    BY <1>1 DEF Asked, R!Reading
  <1>19. Objects'
    BY <1>1 DEF InStep, Objects
  <1> QED BY <1>9, <1>12, <1>14, <1>15, <1>16, <1>17, <1>18, <1>19 DEF InStep, Wired

\* EXEC in turn.
LEMMA CommitKept ==
    ASSUME InStep, stream = "good", lapse = {}, lapse' = {}, R!Commit
    PROVE  InStep'
  <1>1. CASE wire' # wire \o <<R!Line(transaction, "err")>>
    BY <1>1, ExecAnswered
  <1>2. CASE wire' = wire \o <<R!Line(transaction, "err")>>
    <2>1. /\ R!Idle /\ state = "Dirty" /\ state' = "Committed" /\ doing' = "queued"
          /\ goal' = transaction /\ inMulti' = "none"
          /\ ~\E i \in list : i < transaction /\ R!Unread(i)
          /\ UNCHANGED <<n, kind, conn, headerDone, count, list, transaction, tcount, queued, qread>>
      BY DEF R!Commit, R!Lapse, R!objVars
    <2> QED BY <1>2, <2>1, LastLine
  <1> QED BY <1>1, <1>2

\* A line of an ended transaction is read: it is there, and it is the right one.
LEMMA QueuedRead ==
    ASSUME InStep, stream = "good", R!ReadQueued
    PROVE  mixed' = mixed /\ (stream' = "good" => InStep')
  <1>1. doing = "queued"
    <2>1. ASSUME R!Reading, kind[R!Turn] = "queued" PROVE FALSE
      BY <2>1, Own DEF R!Simple
    <2> QED BY <2>1 DEF R!ReadQueued
  <1>2. /\ R!Take(transaction, R!LineReader)
        /\ UNCHANGED <<n, kind, headerDone, count, list>>
        /\ UNCHANGED <<transaction, state, tcount, queued, inMulti>>
    BY DEF R!ReadQueued, R!txVars
  <1>3. /\ state \in {"Committed", "Aborted"} /\ transaction # 0
        /\ conn \in [R!Id -> BOOLEAN] /\ transaction \in list /\ transaction \in R!Id
        /\ conn[transaction] /\ tcount = n - transaction /\ tcount \in Nat
        /\ wire \in Seq(Item) /\ list \subseteq R!Id
    <2>1. state \in {"Committed", "Aborted"}
      BY <1>1 DEF InStep, Asked
    <2>2. transaction # 0 /\ transaction \in list /\ conn[transaction] /\ tcount = n - transaction
      BY <1>1, <2>1 DEF InStep, InTransaction
    <2> QED BY <2>1, <2>2, Basics
  <1> DEFINE m == tcount + 2 - qread
             l == Len(wire)
  <1>4. /\ qread \in 0..(tcount + 1) /\ m <= l
        /\ \A x \in 1..l : /\ wire[x].of = transaction <=> x <= m
                           /\ x < m => wire[x].is = "status"
                           /\ x = m => wire[x].is \in
                                 {"err", IF state = "Committed" THEN "exec" ELSE "status"}
    BY <1>1 DEF InStep, Wired, Lined
  <1>5. /\ m \in Nat /\ m >= 1 /\ (m = 1 <=> qread = tcount + 1) /\ l \in Nat /\ 1 \in 1..l
        /\ qread \in Nat
    BY <1>3, <1>4
  <1>6. /\ wire # <<>> /\ Head(wire) = wire[1] /\ wire[1].of = transaction
    BY <1>3, <1>4, <1>5
  <1>7. wire[1].len = 1
    <2>1. ~Matches(wire[1]) /\ ~OfType(wire[1])
      BY <1>1, <1>6 DEF Matches, Due, OfType
    <2> QED BY <1>5, <2>1 DEF InStep, Wired, Owned, OfTransaction
  <1>8. /\ wire[1].is # "multi"
        /\ m # 1 => R!Fits(R!LineReader)
        /\ m = 1 /\ state = "Committed" => /\ R!LineReader = "int"
                                           /\ R!Fits("int") <=> wire[1].is # "err"
        /\ m = 1 /\ state = "Aborted" => R!LineReader = "status" /\ wire[1].is \in {"status", "err"}
    <2>1. CASE m = 1
      <3>1. wire[1].is \in {"err", IF state = "Committed" THEN "exec" ELSE "status"}
        BY <1>4, <1>5, <2>1
      <3>2. qread = 1 + tcount
        BY <1>3, <1>5, <2>1
      <3> QED BY <1>3, <1>6, <2>1, <3>1, <3>2 DEF R!Fits, R!LineReader
    <2>2. CASE m # 1
      <3>1. wire[1].is = "status"
        BY <1>4, <1>5, <2>2
      <3>2. qread # 1 + tcount
        BY <1>3, <1>5, <2>2
      <3> QED BY <1>3, <1>6, <2>2, <3>1, <3>2 DEF R!Fits, R!LineReader
    <2> QED BY <2>1, <2>2
  <1>a. mixed' = mixed
    BY <1>2, <1>6 DEF R!Take
  <1> SUFFICES ASSUME stream' = "good" PROVE InStep'
    BY <1>a
  <1>9. /\ m # 1 => R!Succeeds(R!LineReader)
        /\ wire' = R!NextLine /\ ~(R!Left > 0)
        /\ m = 1 => ~ExecRefused
    <2>1. wire' = R!NextLine /\ ~(R!Left > 0)
      BY <1>2, <1>6, <1>7, <1>8 DEF R!Take, R!Left
    <2>2. m # 1 => R!Succeeds(R!LineReader)
      BY <1>8 DEF R!Succeeds
    <2>3. m = 1 /\ state = "Committed" => wire[1].is # "err"
      BY <1>2, <1>6, <1>8 DEF R!Take
    <2> QED BY <2>1, <2>2, <2>3 DEF ExecRefused
  <1>10. /\ wire' \in Seq(Item) /\ Len(wire') = l - 1
         /\ \A x \in 1..(l - 1) : wire'[x] = wire[x + 1]
    BY <1>3, <1>6, <1>9, NextLines
  <1>11. (qread + 1 = R!Lines) <=> m = 1
    <2>1. R!Lines = tcount + 2
      BY <1>3 DEF R!Lines
    <2> QED BY <1>3, <1>5, <2>1
  <1>12. /\ conn' = [conn EXCEPT ![transaction] = m # 1]
         /\ m = 1 => doing' = "none" /\ qread' = 0
         /\ m # 1 => doing' = "queued" /\ qread' = qread + 1 /\ goal' = goal
    <2>1. conn' = [conn EXCEPT ![transaction] =
                     @ /\ ~(qread + 1 = R!Lines) /\ R!Succeeds(R!LineReader)]
      BY DEF R!ReadQueued
    <2>2. conn' = [conn EXCEPT ![transaction] = m # 1]
      BY <1>3, <1>9, <1>11, <2>1
    <2>3. IF qread + 1 = R!Lines THEN R!Over
          ELSE qread' = qread + 1 /\ UNCHANGED <<doing, goal>>
      BY <1>1, <1>9, <1>11 DEF R!ReadQueued
    <2> QED BY <1>1, <1>11, <2>2, <2>3 DEF R!Over
  <1> HIDE DEF m
  <1>13. /\ conn' \in [R!Id -> BOOLEAN] /\ conn'[transaction] = (m # 1)
         /\ \A i \in R!Id \ {transaction} : conn'[i] = conn[i]
    BY <1>3, <1>12
  <1>14. \A i : Due(i)' <=> Due(i)
    BY <1>2, <1>3, <1>13 DEF Due, R!Unread, Pending
  <1>15. \A x \in 1..(l - 1) : x + 1 \in 1..l /\ wire'[x] = wire[x + 1]
    BY <1>5, <1>10
  <1>16. Sorted'
    <2>1. ASSUME NEW x \in 1..(l - 1), NEW y \in 1..(l - 1), x < y
          PROVE  \/ wire'[x].of < wire'[y].of
                 \/ wire'[x].of = transaction /\ wire'[y].of = transaction
      <3>1. x + 1 \in 1..l /\ y + 1 \in 1..l /\ x + 1 < y + 1
        BY <1>5, <2>1
      <3> QED BY <1>15, <3>1 DEF InStep, Wired, Sorted
    <2> QED BY <1>2, <1>10, <2>1 DEF Sorted
  <1>17. Owned'
    <2>1. ASSUME NEW x \in 1..(l - 1) PROVE OfTransaction(wire[x])' \/ Matches(wire[x])'
      <3>1. PICK t \in Item : t = wire[x + 1] /\ t = wire'[x]
        BY <1>3, <1>15
      <3>2. OfTransaction(t) \/ Matches(t)
        BY <1>1, <1>15, <3>1 DEF InStep, Wired, Owned, OfType
      <3>3. CASE OfTransaction(t)
        <4>1. t.of = transaction /\ t.len = 1
          BY <3>3 DEF OfTransaction
        <4>2. x + 1 <= m
          BY <1>4, <1>15, <3>1, <4>1 DEF m
        <4>3. doing' = "queued"
          BY <1>5, <1>12, <4>2
        <4>4. OfTransaction(t)'
          BY <1>2, <4>1, <4>3 DEF OfTransaction
        <4> QED BY <3>1, <4>4
      <3>4. CASE Matches(t)
        <4>1. Matches(t)'
          BY <1>2, <1>14, <3>4 DEF Matches
        <4> QED BY <3>1, <4>1
      <3> QED BY <3>2, <3>3, <3>4
    <2> QED BY <1>10, <2>1 DEF Owned
  <1>18. Sends'
    <2>0. ASSUME ExecRefused PROVE ExecRefused'
      <3>1. m # 1 /\ doing' = "queued" /\ qread' = qread + 1
        BY <1>9, <1>12, <2>0
      <3>2. m - 1 \in 1..(l - 1) /\ (m - 1) + 1 = m /\ tcount' + 2 - qread' = m - 1
        BY <1>2, <1>3, <1>4, <1>5, <3>1 DEF m
      <3> QED BY <1>2, <1>15, <2>0, <3>1, <3>2 DEF ExecRefused, m
    <2>1. ASSUME ~ExecRefused, NEW i, Due(i)' PROVE \E x \in 1..Len(wire') : wire'[x].of = i
      <3>1. Due(i) /\ i \in list /\ i # transaction
        BY <1>14, <2>1 DEF Due
      <3>2. PICK x \in 1..l : wire[x].of = i
        BY <2>1, <3>1 DEF InStep, Wired, Sends
      <3>3. x - 1 \in 1..(l - 1) /\ (x - 1) + 1 = x
        BY <1>5, <1>6, <3>1, <3>2
      <3> QED BY <1>10, <3>2, <3>3
    <2> QED BY <1>12, <2>0, <2>1 DEF Sends
  <1>19. Lined'
    <2>1. ASSUME doing' = "queued"
          PROVE  /\ qread' \in 0..(tcount + 1) /\ tcount + 2 - qread' = m - 1
                 /\ tcount + 2 - qread' <= Len(wire')
      <3>1. m # 1 /\ qread' = qread + 1
        BY <1>12, <2>1
      <3> QED BY <1>3, <1>4, <1>5, <1>10, <3>1 DEF m
    <2>2. ASSUME NEW x \in 1..(l - 1)
          PROVE  /\ wire'[x].of = transaction <=> x <= m - 1
                 /\ x < m - 1 => wire'[x].is = "status"
                 /\ x = m - 1 => wire'[x].is \in
                       {"err", IF state = "Committed" THEN "exec" ELSE "status"}
      <3>1. x + 1 \in 1..l /\ wire'[x] = wire[x + 1]
        BY <1>15
      <3>2. /\ x + 1 <= m <=> x <= m - 1
            /\ x + 1 < m <=> x < m - 1
            /\ x + 1 = m <=> x = m - 1
        BY <1>5
      <3> QED BY <1>4, <3>1, <3>2 DEF m
    <2> QED BY <1>2, <1>3, <1>10, <2>1, <2>2 DEF Lined
  <1>20. Objects'
    BY <1>2, <1>13 DEF InStep, Objects
  <1>21. InTransaction'
    <2>1. conn'[transaction] <=> doing' = "queued"
      BY <1>12, <1>13
    <2>2. queued = [x \in 1..(n - transaction) |-> transaction + x]
      BY <1>1 DEF InStep, InTransaction
    <2> QED BY <1>2, <1>3, <2>1, <2>2 DEF InStep, InTransaction
  <1>22. Asked'
    BY <1>2, <1>3, <1>12 DEF Asked, R!Reading
  <1> QED BY <1>9, <1>10, <1>16, <1>17, <1>18, <1>19, <1>20, <1>21, <1>22 DEF InStep, Wired

-----------------------------------------------------------------------------
\* What no step does: forget a lapse, or repair the stream.
LEMMA NeverBack ==
    ASSUME stream \in {"good", "failed"}, R!Next
    PROVE  /\ stream' \in {"good", "failed"}
           /\ lapse' = {} => lapse = {}
           /\ stream = "failed" => stream' = "failed" /\ mixed' = mixed
  <1> DEFINE Goal == /\ stream' \in {"good", "failed"}
                     /\ lapse' = {} => lapse = {}
                     /\ stream = "failed" => stream' = "failed" /\ mixed' = mixed
  <1>1. ASSUME NEW k, R!Send(k) PROVE Goal
    BY <1>1 DEF R!Send, R!Lapse
  <1>2. CASE R!SendUnread \/ R!SendType
    BY <1>2 DEF R!SendUnread, R!SendType, R!Lapse
  <1>3. CASE R!Lose
    BY <1>3 DEF R!Lose
  <1>4. ASSUME NEW i, R!Result(i) \/ R!Destroy(i) PROVE Goal
    BY <1>4 DEF R!Result, R!Destroy, R!Lapse
  <1>5. ASSUME NEW i, NEW k, R!Take(i, k)
        PROVE  /\ stream' \in {"good", "failed"}
               /\ stream = "failed" => stream' = "failed" /\ mixed' = mixed
    BY <1>5 DEF R!Take
  <1>6. ASSUME NEW left, R!Leave(left) PROVE lapse' = {} => lapse = {}
    BY <1>6 DEF R!Leave, R!Lapse
  <1>7. ASSUME NEW i, R!Done(i) PROVE lapse' = {} => lapse = {}
    BY <1>7 DEF R!Done
  <1>8. CASE R!ReadSimple
    BY <1>5, <1>6, <1>7, <1>8 DEF R!ReadSimple
  <1>9. CASE R!ReadHeader
    BY <1>5, <1>6, <1>7, <1>9 DEF R!ReadHeader
  <1>10. CASE R!ReadElement
    BY <1>5, <1>6, <1>7, <1>10 DEF R!ReadElement
  <1>11. CASE R!ReadType \/ R!ReadQueued
    BY <1>5, <1>11 DEF R!ReadType, R!ReadQueued
  <1>12. CASE R!BeginTransaction \/ R!BeginNested \/ R!Commit \/ R!Abort \/ R!EndTransaction
    BY <1>12 DEF R!BeginTransaction, R!BeginNested, R!Commit, R!Abort, R!EndTransaction, R!Lapse
  <1> QED BY <1>1, <1>2, <1>3, <1>4, <1>8, <1>9, <1>10, <1>11, <1>12 DEF R!Next

\* A step of a client that is in step.
LEMMA StepKept ==
    ASSUME InStep, stream = "good", lapse = {}, lapse' = {}, R!Next
    PROVE  mixed' = mixed /\ (stream' = "good" => InStep')
  <1>1. ASSUME NEW k, R!Send(k) PROVE mixed' = mixed /\ InStep'
    <2>1. mixed' = mixed
      BY <1>1 DEF R!Send
    <2> QED BY <1>1, <2>1, SendPlain, SendQueued
  <1>2. ~R!SendUnread /\ ~R!BeginNested
    BY DEF R!SendUnread, R!BeginNested, R!Lapse
  <1>3. CASE R!SendType
    BY <1>3, TypeSent DEF R!SendType
  <1>4. CASE R!Lose
    BY <1>4 DEF R!Lose
  <1>5. ASSUME NEW i \in R!Id, R!Result(i) \/ R!Destroy(i) PROVE mixed' = mixed /\ InStep'
    <2>1. mixed' = mixed
      BY <1>5 DEF R!Result, R!Destroy
    <2> QED BY <1>5, <2>1, ResultKept, DestroyKept
  <1>6. CASE R!ReadSimple \/ R!ReadHeader \/ R!ReadElement
    BY <1>6, SimpleRead, HeaderRead, ElementRead
  <1>7. CASE R!ReadType \/ R!ReadQueued
    BY <1>7, TypeRead, QueuedRead
  <1>8. CASE R!BeginTransaction
    BY <1>8, BeginKept DEF R!BeginTransaction
  <1>9. CASE R!Commit
    BY <1>9, CommitKept DEF R!Commit
  <1>10. CASE R!Abort
    BY <1>10, AbortKept DEF R!Abort
  <1>11. CASE R!EndTransaction
    BY <1>11, EndKept DEF R!EndTransaction
  <1> QED BY <1>1, <1>2, <1>3, <1>4, <1>5, <1>6, <1>7, <1>8, <1>9, <1>10, <1>11 DEF R!Next

\* The invariant is kept by every step,
LEMMA PipeKept == ASSUME PipeInv, [R!Next]_(R!vars) PROVE PipeInv'
  <1>1. CASE R!Next
    <2>1. /\ stream' \in {"good", "failed"} /\ (lapse' = {} => lapse = {})
          /\ stream = "failed" => stream' = "failed" /\ mixed' = mixed
      BY <1>1, NeverBack DEF PipeInv
    <2>2. ASSUME lapse' = {} PROVE mixed' = {} /\ (stream' = "good" => InStep')
      <3>1. lapse = {} /\ mixed = {} /\ (stream = "good" => InStep)
        BY <2>1, <2>2 DEF PipeInv
      <3>2. CASE stream = "failed"
        BY <2>1, <3>1, <3>2
      <3>3. CASE stream = "good"
        BY <1>1, <2>2, <3>1, <3>3, StepKept
      <3> QED BY <3>2, <3>3 DEF PipeInv
    <2> QED BY <2>1, <2>2 DEF PipeInv
  <1>2. CASE UNCHANGED R!vars
    <2> USE <1>2 DEF R!vars, R!objVars, R!txVars
    <2>1. Objects' <=> Objects
      BY DEF Objects
    <2>2. InTransaction' <=> InTransaction
      BY DEF InTransaction
    <2>3. \A i : Due(i)' <=> Due(i)
      BY DEF Due, R!Unread, Pending
    <2>4. Asked => Asked'
      BY <2>3 DEF Asked, R!Reading
    <2>5. Wired => Wired'
      <3>1. \A t : (OfTransaction(t) => OfTransaction(t)') /\ (Matches(t) => Matches(t)')
                   /\ (OfType(t) => OfType(t)')
        BY <2>3 DEF OfTransaction, Matches, OfType
      <3>2. ASSUME Owned PROVE Owned'
        <4>1. ASSUME NEW x \in 1..Len(wire)
              PROVE  OfTransaction(wire[x])' \/ Matches(wire[x])' \/ OfType(wire[x])'
          <5>1. PICK t : t = wire[x] /\ (OfTransaction(t) \/ Matches(t) \/ OfType(t))
            BY <3>2 DEF Owned
          <5> QED BY <3>1, <5>1
        <4> QED BY <4>1 DEF Owned
      <3>3. (Sorted => Sorted') /\ (Lined => Lined')
        BY DEF Sorted, Lined
      <3>4. Sends => Sends'
        BY <2>3 DEF Sends, ExecRefused
      <3> QED BY <3>2, <3>3, <3>4 DEF Wired
    <2> QED BY <2>1, <2>2, <2>4, <2>5 DEF PipeInv, InStep
  <1> QED BY <1>1, <1>2

\* and holds at the start.
LEMMA PipeInit == ASSUME R!ConstOk, R!Init PROVE PipeInv
  <1>1. Objects
    BY DEF R!Init, Objects, R!ConstOk, R!Id
  <1>2. InTransaction
    BY DEF R!Init, InTransaction
  <1>3. Asked
    BY DEF R!Init, Asked, R!Reading
  <1>4. Wired
    <2>1. \A i : ~Due(i)
      BY DEF R!Init, Due
    <2>2. wire = <<>> /\ wire \in Seq(Item) /\ Len(wire) = 0 /\ doing = "none" /\ state = "Blank"
      BY DEF R!Init
    <2> QED BY <2>1, <2>2 DEF Wired, Sorted, Owned, Sends, Lined
  <1> QED BY <1>1, <1>2, <1>3, <1>4 DEF R!Init, PipeInv, InStep

\* In whatever order objects are asked, destroyed or queued in transactions, and
\* whichever reads throw or fail the stream, each object of the pipelined client
\* reads the answer to its own command, unless one of the recorded lapses came
\* before, a MULTI or a command after it that the server refuses among them: for any
\* number of commands and any lengths of multi-bulk answers.
THEOREM AnswersTheirOwn == ASSUME R!ConstOk PROVE R!Spec => []AnswersMatch
  <1>1. R!Init => PipeInv
    BY PipeInit
  <1>2. PipeInv /\ [R!Next]_(R!vars) => PipeInv'
    BY PipeKept
  <1>3. PipeInv => AnswersMatch
    BY DEF PipeInv, AnswersMatch, R!AnswersMatch
  <1> QED BY <1>1, <1>2, <1>3, PTL DEF R!Spec

\* Whoever reads has something to read, or a stream that tells it otherwise: the
\* client does not block for an answer that no command of its own will bring, with
\* the same exceptions.
THEOREM NobodyWaitsInVain == ASSUME R!ConstOk PROVE R!Spec => []NoVainWait
  <1>1. R!Init => PipeInv
    BY PipeInit
  <1>2. PipeInv /\ [R!Next]_(R!vars) => PipeInv'
    BY PipeKept
  <1>3. PipeInv => NoVainWait
    <2> SUFFICES ASSUME PipeInv, doing # "none", lapse = {}, stream # "failed"
                 PROVE  wire # <<>>
      BY DEF NoVainWait, R!NoVainWait, R!Readable
    <2>1. InStep
      BY DEF PipeInv
    <2>2. CASE R!Reading
      BY <2>1, <2>2, HeadOwn
    <2>3. CASE doing = "type"
      BY <2>1, <2>3 DEF InStep, Wired, Sends
    <2>4. CASE doing = "queued"
      <3>1. tcount \in Int /\ qread \in 0..(tcount + 1) /\ tcount + 2 - qread <= Len(wire)
        BY <2>1, <2>4, Basics DEF InStep, InTransaction, Wired, Lined
      <3>2. Len(wire) > 0
        BY <2>1, <3>1, Basics
      <3> QED BY <3>2
    <2> QED BY <2>1, <2>2, <2>3, <2>4 DEF InStep, Asked, R!Reading
  <1> QED BY <1>1, <1>2, <1>3, PTL DEF R!Spec
=============================================================================
