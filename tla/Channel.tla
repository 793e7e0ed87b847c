------------------------------- MODULE Channel -------------------------------
(***************************************************************************)
(* co::Channel<T> (libgo/channel.h): a buffer of the given capacity built  *)
(* from two BlockObjects and a queue.  write_block_ counts free places,    *)
(* read_block_ counts elements.  A reader first opens a place for itself   *)
(* (write_block_.Wakeup()), so with capacity 0 a writer passes only when a *)
(* reader has come; a reader that gives up has to take its place back, and *)
(* when a writer is already using it, has to wait for that writer.         *)
(*                                                                         *)
(* Each BlockObject is an instance of Semaphore, which module BlockObject  *)
(* implements.  queue_lock_ covers one push or one pop and nothing else,   *)
(* so each of these is one step.  An element is abstracted to its writer.  *)
(* Channel<void> is the same protocol without the queue.                   *)
(***************************************************************************)
EXTENDS Integers, FiniteSets, Queues

CONSTANTS Coroutine,   \* clients that block in the semaphores
          Thread,      \* clients outside the scheduler: they poll
          Capacity,    \* capacity of the constructor
          SizeMax      \* max_wakeup's default, the largest size_t

ASSUME ChannelAssumption == /\ Capacity \in Nat
                            /\ SizeMax \in Nat
                            /\ Coroutine \cap Thread = {}
                            /\ IsFiniteSet(Coroutine) /\ IsFiniteSet(Thread)

VARIABLES wcount, wwaiters, wst,   \* write_block_
          rcount, rwaiters, rst,   \* read_block_
          queue_,
          pc, op                   \* where a client is in which operation

wvars == <<wcount, wwaiters, wst>>
rvars == <<rcount, rwaiters, rst>>
vars == <<wvars, rvars, queue_, pc, op>>

Client == Coroutine \cup Thread

PushOp == {"<<", "TimedPush", "TryPush"}
PopOp  == {">>", "TimedPop", "TryPop"}
ClientPc == {"idle", "wait_w", "push", "signal_r",
             "block_r", "wait_r", "try_r", "try_w", "pop"}

W == INSTANCE Semaphore WITH Client <- Coroutine, InitCount <- Capacity,
        MaxCount <- SizeMax, count <- wcount, waiters <- wwaiters, st <- wst
R == INSTANCE Semaphore WITH Client <- Coroutine, InitCount <- 0,
        MaxCount <- SizeMax, count <- rcount, waiters <- rwaiters, st <- rst

Init == /\ W!Init
        /\ R!Init
        /\ queue_ = <<>>
        /\ pc = [c \in Client |-> "idle"]
        /\ op = [c \in Client |-> "none"]

\* A client is in no operation once it is idle again.
Goto(c, from, to) ==
    /\ pc[c] = from
    /\ pc' = [pc EXCEPT ![c] = to]
    /\ op' = [op EXCEPT ![c] = IF to = "idle" THEN "none" ELSE @]
Call(c, k, to) ==
    /\ pc[c] = "idle"
    /\ pc' = [pc EXCEPT ![c] = to]
    /\ op' = [op EXCEPT ![c] = k]
-----------------------------------------------------------------------------
(* Writers: operator<<, TimedPush, TryPush.                                *)

\* write_block_.CoBlockWait[Timed](); a thread starts to poll.
CallPush(c, k) ==
    /\ Call(c, k, "wait_w")
    /\ IF c \in Coroutine THEN W!Wait(c) ELSE UNCHANGED wvars
    /\ UNCHANGED <<rvars, queue_>>

\* TryPush: write_block_.TryBlockWait() decides at once.
TryPush(c) ==
    /\ \/ wcount > 0 /\ W!Take /\ Call(c, "TryPush", "push")
       \/ wcount = 0 /\ UNCHANGED wvars /\ Goto(c, "idle", "idle")
    /\ UNCHANGED <<rvars, queue_>>

\* The timer of a coroutine's TimedPush.
PushTimeout(c) ==
    /\ c \in Coroutine /\ pc[c] = "wait_w" /\ op[c] = "TimedPush"
    /\ W!Timeout(c)
    /\ UNCHANGED <<rvars, queue_, pc, op>>

\* The wait is over: go on to the push, or return false.
PushWaited(c) ==
    /\ c \in Coroutine
    /\ W!Return(c)
    /\ \/ wst[c] = "granted" /\ Goto(c, "wait_w", "push")
       \/ wst[c] = "timedout" /\ Goto(c, "wait_w", "idle")
    /\ UNCHANGED <<rvars, queue_>>

\* A thread polls for a place.  CoBlockWaitTimed returns false on a thread
\* whether TryBlockWait succeeded or the time is up, so TimedPush returns.
PushPoll(c) ==
    /\ c \in Thread
    /\ \/ op[c] = "<<" /\ W!Take /\ Goto(c, "wait_w", "push")
       \/ op[c] = "TimedPush" /\ W!Take /\ Goto(c, "wait_w", "idle")
       \/ /\ op[c] = "TimedPush" /\ wcount = 0 /\ UNCHANGED wvars
          /\ Goto(c, "wait_w", "idle")
    /\ UNCHANGED <<rvars, queue_>>

Push(c) ==
    /\ Goto(c, "push", "signal_r")
    /\ queue_' = Append(queue_, c)
    /\ UNCHANGED <<wvars, rvars>>

\* read_block_.Wakeup(), after queue_lock_ was released.
PushSignal(c) ==
    /\ Goto(c, "signal_r", "idle")
    /\ R!Signal
    /\ UNCHANGED <<wvars, queue_>>
-----------------------------------------------------------------------------
(* Readers: operator>>, TimedPop, TryPop.                                  *)

\* Mutant: the place is not opened.
CallPop_NoWakeup(c, k) ==
    /\ Call(c, k, IF k = "TryPop" THEN "try_r" ELSE "block_r")
    /\ UNCHANGED <<wvars, rvars, queue_>>

\* write_block_.Wakeup() opens a place, for a blocked writer first.
CallPop(c, k) ==
    /\ Call(c, k, IF k = "TryPop" THEN "try_r" ELSE "block_r")
    /\ W!Signal
    /\ UNCHANGED <<rvars, queue_>>

\* read_block_.CoBlockWait[Timed]().
PopWait(c) ==
    /\ Goto(c, "block_r", "wait_r")
    /\ IF c \in Coroutine THEN R!Wait(c) ELSE UNCHANGED rvars
    /\ UNCHANGED <<wvars, queue_>>

PopTimeout(c) ==
    /\ c \in Coroutine /\ pc[c] = "wait_r" /\ op[c] = "TimedPop"
    /\ R!Timeout(c)
    /\ UNCHANGED <<wvars, queue_, pc, op>>

\* Mutant: a timed-out pop returns false without taking its place back.
PopWaited_NoGiveBack(c) ==
    /\ c \in Coroutine
    /\ R!Return(c)
    /\ \/ rst[c] = "granted" /\ Goto(c, "wait_r", "pop")
       \/ rst[c] = "timedout" /\ Goto(c, "wait_r", "idle")
    /\ UNCHANGED <<wvars, queue_>>

\* Mutant: a timed-out pop goes on as if it had been granted an element.
PopWaited_IgnoreResult(c) ==
    /\ c \in Coroutine
    /\ R!Return(c)
    /\ Goto(c, "wait_r", "pop")
    /\ UNCHANGED <<wvars, queue_>>

\* Granted: pop.  Timed out: try to take the place back.
PopWaited(c) ==
    /\ c \in Coroutine
    /\ R!Return(c)
    /\ \/ rst[c] = "granted" /\ Goto(c, "wait_r", "pop")
       \/ rst[c] = "timedout" /\ Goto(c, "wait_r", "try_w")
    /\ UNCHANGED <<wvars, queue_>>

\* A thread polls for an element; a timed poll reports false either way.
PopPoll(c) ==
    /\ c \in Thread
    /\ \/ op[c] = ">>" /\ R!Take /\ Goto(c, "wait_r", "pop")
       \/ op[c] = "TimedPop" /\ R!Take /\ Goto(c, "wait_r", "try_w")
       \/ /\ op[c] = "TimedPop" /\ rcount = 0 /\ UNCHANGED rvars
          /\ Goto(c, "wait_r", "try_w")
    /\ UNCHANGED <<wvars, queue_>>

\* read_block_.TryBlockWait() of TryPop and of the loop in TimedPop.
TryRead(c) ==
    /\ \/ R!Take /\ Goto(c, "try_r", "pop")
       \/ rcount = 0 /\ UNCHANGED rvars /\ Goto(c, "try_r", "try_w")
    /\ UNCHANGED <<wvars, queue_>>

\* Mutant: the loop only looks for an element once the place is gone.
TryGiveBack_Spin(c) ==
    /\ Goto(c, "try_w", "try_r")
    /\ UNCHANGED <<wvars, rvars, queue_>>

\* write_block_.TryBlockWait(): the reader takes its place back and returns
\* false, or yields and looks for an element again.
TryGiveBack(c) ==
    /\ \/ W!Take /\ Goto(c, "try_w", "idle")
       \/ wcount = 0 /\ UNCHANGED wvars /\ Goto(c, "try_w", "try_r")
    /\ UNCHANGED <<rvars, queue_>>

Pop(c) ==
    /\ Goto(c, "pop", "idle")
    /\ queue_' = Tail(queue_)
    /\ UNCHANGED <<wvars, rvars>>
-----------------------------------------------------------------------------
NewCall(c) == \/ \E k \in {"<<", "TimedPush"} : CallPush(c, k)
              \/ TryPush(c)
              \/ \E k \in PopOp : CallPop(c, k)

\* What a client goes on with once called, timers included.
Step(c) == \/ PushWaited(c) \/ PushPoll(c) \/ Push(c) \/ PushSignal(c)
           \/ PopWait(c) \/ PopWaited(c) \/ PopPoll(c) \/ Pop(c)
           \/ TryRead(c) \/ TryGiveBack(c)
           \/ PushTimeout(c) \/ PopTimeout(c)

Next == \E c \in Client : NewCall(c) \/ Step(c)

Spec == Init /\ [][Next]_vars

\* The scheduler's threads run every runnable coroutine and due timer, the
\* operating system every thread.  Nobody has to start an operation.
FairSpec == Spec /\ \A c \in Client : WF_vars(Step(c))
-----------------------------------------------------------------------------
(* Properties.                                                             *)

At(S) == {c \in Client : pc[c] \in S}

\* Clients that own a write signal (a free place) and have not used it yet.
HoldW == At({"push"}) \cup {c \in At({"wait_w"}) \cap Coroutine : wst[c] = "granted"}
\* Clients that own a read signal and have not popped yet.
HoldR == At({"pop"}) \cup {c \in At({"wait_r"}) \cap Coroutine : rst[c] = "granted"}
\* Writers whose element is queued but not announced yet.
Owe == At({"signal_r"})
\* Readers that have opened a place and neither popped nor taken it back.
Readers == At({"block_r", "wait_r", "try_r", "try_w", "pop"})

TypeOK ==
    /\ wcount \in Nat /\ wwaiters \in Seq(Coroutine)
    /\ wst \in [Coroutine -> W!ClientState]
    /\ rcount \in Nat /\ rwaiters \in Seq(Coroutine)
    /\ rst \in [Coroutine -> R!ClientState]
    /\ queue_ \in Seq(Client)
    /\ pc \in [Client -> ClientPc]
    /\ op \in [Client -> PushOp \cup PopOp \cup {"none"}]

\* std::queue::front and pop are never reached on an empty queue: every read
\* signal, stored or handed out, has an element of its own in the queue.
ReadBacked == rcount + Cardinality(HoldR) + Cardinality(Owe) <= Len(queue_)

\* The buffer is bounded: beyond the capacity there are only elements for
\* readers that have already arrived and are still to pop.
Bounded == Len(queue_) <= Capacity + Cardinality(Readers)

\* No signal is lost or invented by operations that time out or give up:
\* stored and held places plus queued elements are the capacity and one
\* place per reader in progress; read signals are exactly the elements.
TokensExact ==
    /\ wcount + Cardinality(HoldW) + Len(queue_) = Capacity + Cardinality(Readers)
    /\ rcount + Cardinality(HoldR) + Cardinality(Owe) = Len(queue_)

\* Every operation in progress is blocked in a BlockObject.
AllBlocked == \A c \in Client :
                 pc[c] # "idle" => Member(wwaiters, c) \/ Member(rwaiters, c)

\* When nothing moves any more, no blocked operation has been forgotten: a
\* reader is blocked only if there is no element and no blocked writer, and a
\* writer only if the buffer is full.
NobodyForgotten ==
    AllBlocked => /\ rwaiters # <<>> => queue_ = <<>> /\ wwaiters = <<>>
                  /\ wwaiters # <<>> => Len(queue_) = Capacity

\* The loop of TryPop, and of TimedPop after its timeout, ends once no new
\* operations arrive to compete for the signals.
CallsStop == <>[][\A c \in Client : pc[c] = "idle" => pc'[c] = "idle"]_vars
PopLoopEnds == CallsStop => \A c \in Client :
                               pc[c] \in {"try_r", "try_w"} ~> pc[c] = "idle"
-----------------------------------------------------------------------------
(* The strengthening that makes ReadBacked and Bounded inductive.          *)

\* A semaphore and its clients agree on who waits in it, at the given place of
\* the operations, and it stores a signal only when nobody does.
SemInv(count, waiters, st, place) ==
    /\ NoDup(waiters)
    /\ \A c \in Coroutine : /\ Member(waiters, c) <=> st[c] = "waiting"
                            /\ st[c] # "idle" <=> pc[c] = place
    /\ count > 0 => waiters = <<>>

WaitInv == /\ SemInv(wcount, wwaiters, wst, "wait_w")
           /\ SemInv(rcount, rwaiters, rst, "wait_r")

\* Places and elements are never more than the capacity and the readers in
\* progress allow (fewer once a timed operation of a thread lost a signal).
PlacesBounded ==
    wcount + Cardinality(HoldW) + Len(queue_) <= Capacity + Cardinality(Readers)

IInv == TypeOK /\ WaitInv /\ PlacesBounded /\ ReadBacked
=============================================================================
