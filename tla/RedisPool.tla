------------------------------ MODULE RedisPool ------------------------------
(***************************************************************************)
(* ThreadedPool (serverResource.hpp), HiredisCommand::process (common/     *)
(* hirediscommand.h, hiredisprocess.h) and deal_with_flow_number: HTTP     *)
(* worker threads draw connections from pools under a condition variable,  *)
(* send INCR and then GET for a flow number, and follow ASK and MOVED      *)
(* redirections on a second connection.                                    *)
(*                                                                         *)
(* One key is modelled: its commands start on the pool of its slot range   *)
(* and are redirected to one other host, whose pool is made on first use.  *)
(* Sections under conLock_ are single steps (connecting a whole pool is    *)
(* done under it); the notify after the unlock and each exchange with the  *)
(* server are steps of their own.  The server is external: it answers a    *)
(* command with its value, an error, a redirection, CLUSTERDOWN, or the    *)
(* connection fails.                                                       *)
(***************************************************************************)
EXTENDS Naturals, Sequences, FiniteSets, Queues

CONSTANTS Worker,       \* the threads that serve requests
          PoolSize,     \* ThreadedPool::poolSize_
          MaxRequests,  \* bound: requests that come in
          Answers       \* the replies that may come, a subset of Reply

\* The answers to a command: "none" stands for a failed redisGetReply, which
\* leaves the caller's pointer unset.
Reply == {"ok", "err", "ask", "moved", "down", "none"}

ASSUME ConstAssumption == /\ IsFiniteSet(Worker)
                          /\ PoolSize \in Nat \ {0}
                          /\ MaxRequests \in Nat
                          /\ Answers \subseteq Reply

Pool == {"slot", "host"}        \* an entry of nodes_ and one of connections_
NoCon == <<"slot", 0>>

VARIABLES exists,     \* the pools that are in nodes_ and connections_
          made,       \* the connections fillPool stored
          queue,      \* the free connections of each pool
          waiting,    \* threads waiting on each pool's condition variable
          bad,        \* connections whose err is set
          pc,         \* position of a worker
          step,       \* which command of the request it is at, in Plan
          stage,      \* "first", "ask", "retry" or "moved": what it is sending
          con,        \* the connection it uses
          reply,      \* the reply it got
          incremented,\* its INCR was answered with a value
          got,        \* the number its GET returned, 0 for none
          floor,      \* the highest number answered when its request began
          requests,   \* requests begun
          value,      \* the server's counter
          best,       \* the highest number answered to any request
          closing     \* ThreadedPool::disconnect: "no", "begun", "done"

poolVars == <<exists, made, queue, bad>>
requestVars == <<incremented, got, floor, requests, best>>
vars == <<poolVars, waiting, pc, step, stage, con, reply, requestVars, value,
          closing>>

FullQueue(p) == [i \in 1..PoolSize |-> <<p, i>>]

\* createCluster has filled the pool of the slot range.
Init == /\ exists = {"slot"}
        /\ made = {<<"slot", i>> : i \in 1..PoolSize}
        /\ queue = [p \in Pool |-> IF p = "slot" THEN FullQueue(p) ELSE <<>>]
        /\ waiting = [p \in Pool |-> {}]
        /\ bad = {}
        /\ pc = [w \in Worker |-> "idle"]
        /\ step = [w \in Worker |-> 1]
        /\ stage = [w \in Worker |-> "first"]
        /\ con = [w \in Worker |-> NoCon]
        /\ reply = [w \in Worker |-> "ok"]
        /\ incremented = [w \in Worker |-> FALSE]
        /\ got = [w \in Worker |-> 0]
        /\ floor = [w \in Worker |-> 0]
        /\ requests = 0
        /\ value = 0
        /\ best = 0
        /\ closing = "no"

Goto(w, l) == pc' = [pc EXCEPT ![w] = l]
Target(w) == IF stage[w] = "first" THEN "slot" ELSE "host"

\* Mutant: the number is read before it is raised.
Plan_GetFirst == <<"get", "incr">>

\* The two commands of deal_with_flow_number.
Plan == <<"incr", "get">>
-----------------------------------------------------------------------------
(* The pool.                                                               *)

\* A request comes in.
BeginRequest(w) ==
    /\ pc[w] = "idle" /\ requests < MaxRequests /\ closing = "no"
    /\ requests' = requests + 1
    /\ floor' = [floor EXCEPT ![w] = best]
    /\ Goto(w, "pull")
    /\ UNCHANGED <<poolVars, waiting, step, stage, con, reply, incremented, got,
                   best, value, closing>>

\* Mutant: the connection is used but not taken out of the queue.
PullConnection_NoPop(w) ==
    LET p == Target(w)
    IN  /\ pc[w] = "pull" /\ p \in exists
        /\ \/ /\ queue[p] # <<>>
              /\ con' = [con EXCEPT ![w] = Head(queue[p])]
              /\ Goto(w, "use")
              /\ UNCHANGED <<queue, waiting>>
           \/ /\ queue[p] = <<>>
              /\ waiting' = [waiting EXCEPT ![p] = @ \cup {w}]
              /\ Goto(w, "waiting")
              /\ UNCHANGED <<queue, con>>
        /\ UNCHANGED <<exists, made, bad, step, stage, reply, requestVars,
                       value, closing>>

\* pullConnection: a free connection is taken, or the thread waits and looks
\* again when it is woken.
PullConnection(w) ==
    LET p == Target(w)
    IN  /\ pc[w] = "pull" /\ p \in exists
        /\ \/ /\ queue[p] # <<>>
              /\ con' = [con EXCEPT ![w] = Head(queue[p])]
              /\ queue' = [queue EXCEPT ![p] = Tail(@)]
              /\ Goto(w, "use")
              /\ UNCHANGED waiting
           \/ /\ queue[p] = <<>>
              /\ waiting' = [waiting EXCEPT ![p] = @ \cup {w}]
              /\ Goto(w, "waiting")
              /\ UNCHANGED <<queue, con>>
        /\ UNCHANGED <<exists, made, bad, step, stage, reply, requestVars,
                       value, closing>>

\* insert(host, port) of a host not met before: the pool is entered in the map
\* and then filled.  When a connect fails, the exception leaves it there with
\* the connections it has so far.
InsertHost(w) ==
    /\ pc[w] = "pull" /\ Target(w) \notin exists
    /\ exists' = exists \cup {"host"}
    /\ \/ /\ made' = made \cup {<<"host", i>> : i \in 1..PoolSize}
          /\ queue' = [queue EXCEPT !["host"] = Tail(FullQueue("host"))]
          /\ con' = [con EXCEPT ![w] = Head(FullQueue("host"))]
          /\ Goto(w, "use")
       \/ \E k \in 0..(PoolSize - 1) :
             /\ made' = made \cup {<<"host", i>> : i \in 1..k}
             /\ queue' = [queue EXCEPT !["host"] = SubSeq(FullQueue("host"), 1, k)]
             /\ Goto(w, "failed")
             /\ UNCHANGED con
    /\ UNCHANGED <<waiting, bad, step, stage, reply, requestVars, value, closing>>

\* pushConnection, under the lock: the connection goes back to its pool.
PushConnection(w) ==
    /\ pc[w] = "push"
    /\ queue' = [queue EXCEPT ![Target(w)] = Append(@, con[w])]
    /\ con' = [con EXCEPT ![w] = NoCon]
    /\ Goto(w, "notify")
    /\ UNCHANGED <<exists, made, bad, waiting, step, stage, reply, requestVars,
                   value, closing>>

\* Mutant: only waiters for the slot's own pool are woken.
NotifyOne_SlotOnly(w) ==
    LET p == Target(w)
    IN  /\ pc[w] = "notify"
        /\ \/ /\ waiting[p] = {} \/ p = "host"
              /\ Goto(w, "decide") /\ UNCHANGED waiting
           \/ \E x \in waiting[p] :
                 /\ p = "slot"
                 /\ waiting' = [waiting EXCEPT ![p] = @ \ {x}]
                 /\ pc' = [pc EXCEPT ![w] = "decide", ![x] = "pull"]
        /\ UNCHANGED <<poolVars, step, stage, con, reply, requestVars, value,
                       closing>>

\* After the unlock: notify_one.
NotifyOne(w) ==
    LET p == Target(w)
    IN  /\ pc[w] = "notify"
        /\ \/ /\ waiting[p] = {}
              /\ Goto(w, "decide") /\ UNCHANGED waiting
           \/ \E x \in waiting[p] :
                 /\ waiting' = [waiting EXCEPT ![p] = @ \ {x}]
                 /\ pc' = [pc EXCEPT ![w] = "decide", ![x] = "pull"]
        /\ UNCHANGED <<poolVars, step, stage, con, reply, requestVars, value,
                       closing>>

\* disconnect: poolSize_ connections are pulled from each pool and closed;
\* it waits for those that are not there.  (Called when no command is running.)
Disconnect ==
    /\ closing = "no" /\ \A w \in Worker : pc[w] \in {"idle", "undefined"}
    /\ closing' = "begun"
    /\ UNCHANGED <<poolVars, waiting, pc, step, stage, con, reply, requestVars,
                   value>>

DisconnectPool ==
    /\ closing = "begun"
    /\ \E p \in exists :
          /\ Len(queue[p]) = PoolSize
          /\ p = "slot" \/ "slot" \notin exists
          /\ queue' = [queue EXCEPT ![p] = <<>>]
          /\ made' = made \ {queue[p][i] : i \in 1..PoolSize}
          /\ exists' = exists \ {p}
          /\ closing' = IF exists = {p} THEN "done" ELSE "begun"
    /\ UNCHANGED <<bad, waiting, pc, step, stage, con, reply, requestVars, value>>
-----------------------------------------------------------------------------
(* HiredisCommand::process.                                                *)

\* What the server does with a command: INCR raises the counter, also when
\* its answer is lost.
Execute(w, a) ==
    LET cmd == Plan[step[w]]
    IN  /\ \/ cmd = "incr" /\ a = "ok" /\ value' = value + 1
           \/ cmd = "incr" /\ a = "none" /\ con[w] \notin bad
              /\ value' \in {value, value + 1}
           \/ /\ ~(cmd = "incr" /\ a = "ok")
              /\ UNCHANGED value
        /\ incremented' = [incremented EXCEPT ![w] =
                             IF cmd = "incr" THEN a = "ok" ELSE @]
        /\ got' = [got EXCEPT ![w] = IF cmd = "get" /\ a = "ok" THEN value' ELSE @]

\* processHiredisCommand on a connection.  One whose err is set answers
\* nothing, and one that fails is marked.
SendCommand(w) ==
    /\ pc[w] = "use" /\ stage[w] \in {"first", "retry", "moved"}
    /\ stage[w] = "moved" => con[w] \notin bad
    /\ \E a \in Answers :
          /\ con[w] \in bad => a = "none"
          /\ Execute(w, a)
          /\ bad' = IF a = "none" THEN bad \cup {con[w]} ELSE bad
          /\ reply' = [reply EXCEPT ![w] = a]
          /\ IF stage[w] = "retry" THEN Goto(w, "check") ELSE Goto(w, "push")
    /\ UNCHANGED <<exists, made, queue, waiting, step, stage, con, floor, requests,
                   best, closing>>

\* asking(): any error is critical, and the exception passes over the release.
SendAsking(w) ==
    /\ pc[w] = "use" /\ stage[w] = "ask" /\ con[w] \notin bad
    /\ \/ /\ "ok" \in Answers
          /\ stage' = [stage EXCEPT ![w] = "retry"]
          /\ UNCHANGED <<bad, pc>>
       \/ /\ {"none", "err"} \cap Answers # {}
          /\ bad' \in {bad, bad \cup {con[w]}}
          /\ Goto(w, "failed")
          /\ UNCHANGED stage
    /\ UNCHANGED <<exists, made, queue, waiting, step, con, reply, requestVars,
                   value, closing>>

\* A redirect connection whose err is set: LogicError, thrown before the
\* release.
DeadRedirect(w) ==
    /\ pc[w] = "use" /\ stage[w] \in {"ask", "moved"} /\ con[w] \in bad
    /\ Goto(w, "failed")
    /\ UNCHANGED <<poolVars, waiting, step, stage, con, reply, requestVars,
                   value, closing>>

\* checkCritical after the retry, still holding the connection.  The unset
\* pointer of a failed exchange may be null or anything.
CheckRetry(w) ==
    /\ pc[w] = "check"
    /\ \/ reply[w] = "none" /\ (Goto(w, "failed") \/ Goto(w, "undefined"))
       \/ reply[w] = "down" /\ Goto(w, "failed")
       \/ reply[w] \notin {"none", "down"} /\ Goto(w, "push")
    /\ UNCHANGED <<poolVars, waiting, step, stage, con, reply, requestVars,
                   value, closing>>

\* After the release.  First answer: checkCritical and processResult; a
\* redirection is followed.  Answer from the other host: it is the result.
Redirect(w) ==
    /\ pc[w] = "decide" /\ stage[w] = "first"
    /\ reply[w] \in {"ask", "moved"}
    /\ stage' = [stage EXCEPT ![w] = reply[w]]
    /\ reply' = [reply EXCEPT ![w] = "ok"]
    /\ Goto(w, "pull")
    /\ UNCHANGED <<poolVars, waiting, step, con, requestVars, value, closing>>

Critical(w) ==
    /\ pc[w] = "decide"
    /\ \/ stage[w] = "first" /\ reply[w] = "down" /\ Goto(w, "failed")
       \/ stage[w] = "first" /\ reply[w] = "none" /\ Goto(w, "failed")
       \/ stage[w] # "retry" /\ reply[w] = "none" /\ Goto(w, "undefined")
    /\ UNCHANGED <<poolVars, waiting, step, stage, con, reply, requestVars,
                   value, closing>>

\* process returns.  After INCR its reply is freed unread and GET follows;
\* after GET the number is the response.
CommandEnds(w) ==
    /\ pc[w] = "decide"
    /\ \/ stage[w] = "first" /\ reply[w] \in {"ok", "err"}
       \/ stage[w] \in {"retry", "moved"} /\ reply[w] # "none"
    /\ stage' = [stage EXCEPT ![w] = "first"]
    /\ IF step[w] < Len(Plan)
       THEN step' = [step EXCEPT ![w] = @ + 1] /\ Goto(w, "pull")
       ELSE Goto(w, "answer") /\ UNCHANGED step
    /\ reply' = [reply EXCEPT ![w] = "ok"]
    /\ UNCHANGED <<poolVars, waiting, con, requestVars, value, closing>>

\* The request is over and its local variables are gone.
Reset(w) == /\ step' = [step EXCEPT ![w] = 1]
            /\ stage' = [stage EXCEPT ![w] = "first"]
            /\ con' = [con EXCEPT ![w] = NoCon]
            /\ reply' = [reply EXCEPT ![w] = "ok"]
            /\ incremented' = [incremented EXCEPT ![w] = FALSE]
            /\ got' = [got EXCEPT ![w] = 0]
            /\ floor' = [floor EXCEPT ![w] = 0]
            /\ Goto(w, "idle")
            /\ UNCHANGED <<poolVars, waiting, requests, value, closing>>

\* The 200 response.
Answer(w) == /\ pc[w] = "answer"
             /\ best' = IF got[w] > best THEN got[w] ELSE best
             /\ Reset(w)

\* The 400 response after an exception; a connection that process still held
\* is forgotten.
Fail(w) == pc[w] = "failed" /\ Reset(w) /\ UNCHANGED best
-----------------------------------------------------------------------------
Work(w) == \/ PullConnection(w) \/ InsertHost(w) \/ PushConnection(w)
           \/ NotifyOne(w) \/ SendCommand(w) \/ SendAsking(w) \/ DeadRedirect(w)
           \/ CheckRetry(w) \/ Redirect(w) \/ Critical(w) \/ CommandEnds(w)
           \/ Answer(w) \/ Fail(w)

Next == \/ \E w \in Worker : BeginRequest(w) \/ Work(w)
        \/ Disconnect \/ DisconnectPool

Spec == Init /\ [][Next]_vars

\* Threads run, the server answers or the connection fails, disconnect goes on.
FairSpec == /\ Spec
            /\ \A w \in Worker : WF_vars(Work(w))
            /\ WF_vars(DisconnectPool)
-----------------------------------------------------------------------------
Held == {con[w] : w \in {x \in Worker : pc[x] # "undefined"}} \ {NoCon}
Free == UNION {{queue[p][i] : i \in 1..Len(queue[p])} : p \in Pool}
Leaked == made \ (Held \cup Free)

\* A connection is in one place: free in its own pool, once, or used by one
\* thread.  Two threads on one connection would read each other's replies.
Exclusive ==
    /\ \A p \in Pool : \A i, j \in 1..Len(queue[p]) :
          /\ queue[p][i] \in made /\ queue[p][i][1] = p
          /\ queue[p][i] = queue[p][j] => i = j
    /\ Held \cap Free = {}
    /\ \A w, x \in Worker : con[w] # NoCon /\ con[w] = con[x] => w = x

\* Nobody sleeps on the condition variable of a pool that has a free
\* connection, unless a notification or a thread that was woken is on its
\* way.  (The notify comes after the unlock, and a newcomer may take the
\* connection before the thread that was woken for it.)
NoForgottenWaiter ==
    \A p \in Pool :
       queue[p] # <<>> /\ waiting[p] # {}
          => \E w \in Worker : pc[w] \in {"notify", "pull"} /\ Target(w) = p

\* A flow number is higher than every number answered before its request
\* began, provided INCR itself was answered with a value: its reply is not
\* looked at, and after an error reply GET returns the old number again.
FlowNumberFresh ==
    \A w \in Worker :
       pc[w] = "answer" /\ incremented[w] /\ got[w] # 0 => got[w] > floor[w]

\* As long as no connection was lost on an error path and no pool is left
\* partly filled, every request is answered (or runs into the unset reply
\* pointer): waits for a connection end.
RequestEnds ==
    [](Leaked = {} /\ \A p \in exists : Cardinality({x \in made : x[1] = p}) = PoolSize)
      => \A w \in Worker : pc[w] = "pull" ~> pc[w] \in {"idle", "undefined"}

\* serverResource.hpp:195 says that disconnect waits "for all connection to be
\* released": once it has begun it ends, when every command released its
\* connections.
DisconnectEnds == closing = "begun" ~> closing = "done"
-----------------------------------------------------------------------------
(* The strengthening that makes the invariants inductive.                  *)

Connection == Pool \X (1..PoolSize)
WorkerPc == {"idle", "pull", "waiting", "use", "check", "push", "notify", "decide",
             "answer", "failed", "undefined"}

TypeOK == /\ exists \subseteq Pool
          /\ made \subseteq Connection
          /\ queue \in [Pool -> Seq(Connection)]
          /\ waiting \in [Pool -> SUBSET Worker]
          /\ pc \in [Worker -> WorkerPc]
          /\ step \in [Worker -> {1, 2}]
          /\ stage \in [Worker -> {"first", "ask", "retry", "moved"}]
          /\ con \in [Worker -> Connection \cup {NoCon}]
          /\ reply \in [Worker -> Reply]
          /\ incremented \in [Worker -> BOOLEAN]
          /\ got \in [Worker -> Nat] /\ floor \in [Worker -> Nat]
          /\ value \in Nat /\ best \in Nat
          /\ closing \in {"no", "begun", "done"}

\* The free connections: each once, in its own pool.
QueueInv == \A p \in Pool : /\ NoDup(queue[p])
                            /\ \A i \in 1..Len(queue[p]) :
                                  queue[p][i] \in made /\ queue[p][i][1] = p

\* A worker's connection is its own, and of the pool it will go back to.
HeldInv ==
    \A w \in Worker :
       /\ con[w] # NoCon =>
             /\ con[w] \in made
             /\ pc[w] \in {"use", "check", "push", "failed", "undefined"}
             /\ \A p \in Pool : ~Member(queue[p], con[w])
             /\ \A v \in Worker : con[v] = con[w] => v = w
       /\ pc[w] \in {"use", "check", "push"} =>
             con[w] # NoCon /\ con[w][1] = Target(w)

\* Until disconnect, which finds no command running, the slot's pool is there;
\* nothing belongs to the other host before its pool is made.
ExistsInv ==
    /\ closing = "no" => "slot" \in exists
    /\ closing = "no" /\ "host" \notin exists
          => waiting["host"] = {} /\ \A x \in made : x[1] # "host"
    /\ closing # "no" => \A w \in Worker : pc[w] \in {"idle", "undefined"}

\* Threads that will look at the queue of p or notify one that waits for it.
Coming(p) == {w \in Worker : pc[w] \in {"notify", "pull"} /\ Target(w) = p}

\* While anybody waits, there is one of them for every free connection: this is
\* what NoForgottenWaiter needs, since each takes away at most one.
WaitInv ==
    \A p \in Pool :
       /\ \A w \in waiting[p] : pc[w] = "waiting" /\ Target(w) = p
       /\ waiting[p] # {} => Len(queue[p]) <= Cardinality(Coming(p))

PoolInv == QueueInv /\ HeldInv /\ ExistsInv /\ WaitInv

\* The server's counter is ahead of every number it gave out, and of the floor
\* of every request whose INCR it has answered.
FlowInv ==
    /\ best <= value
    /\ \A w \in Worker :
          /\ pc[w] = "idle" => ~incremented[w] /\ step[w] = 1
          /\ floor[w] <= best /\ got[w] <= value
          /\ step[w] = 1 => got[w] = 0
          /\ incremented[w] => value > floor[w]
          /\ incremented[w] /\ got[w] # 0 => got[w] > floor[w]
=============================================================================
