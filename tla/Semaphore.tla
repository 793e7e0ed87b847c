------------------------------ MODULE Semaphore ------------------------------
(***************************************************************************)
(* What libgo's co::BlockObject promises to the code above it (CoMutex,    *)
(* Channel): a bounded counting semaphore with a FIFO of blocked clients   *)
(* and waits that may give up.  A signal goes to the client that has been  *)
(* blocked longest; only when nobody is blocked is it stored.              *)
(*                                                                         *)
(* Module BlockObject implements this specification; module Channel is     *)
(* built from two instances of it.                                         *)
(***************************************************************************)
EXTENDS Queues

CONSTANTS Client,      \* the coroutines that may block
          InitCount,   \* BlockObject's init_wakeup
          MaxCount     \* BlockObject's max_wakeup

VARIABLES count,       \* stored signals (BlockObject::wakeup_)
          waiters,     \* blocked clients, oldest first (wait_queue_)
          st           \* what each client knows of its current wait

semVars == <<count, waiters, st>>

ClientState == {"idle", "waiting", "granted", "timedout"}

Init == /\ count = InitCount
        /\ waiters = <<>>
        /\ st = [c \in Client |-> "idle"]

\* A client asks for a signal: it takes a stored one or joins the queue.
Wait(c) == /\ st[c] = "idle"
           /\ \/ /\ count > 0
                 /\ count' = count - 1
                 /\ st' = [st EXCEPT ![c] = "granted"]
                 /\ UNCHANGED waiters
              \/ /\ count = 0
                 /\ waiters' = Append(waiters, c)
                 /\ st' = [st EXCEPT ![c] = "waiting"]
                 /\ UNCHANGED count

\* A signal for the oldest blocked client.
Grant == /\ waiters # <<>>
         /\ waiters' = Tail(waiters)
         /\ st' = [st EXCEPT ![Head(waiters)] = "granted"]
         /\ UNCHANGED count

\* A signal nobody is waiting for is stored, up to the bound.
Store == /\ waiters = <<>>
         /\ count < MaxCount
         /\ count' = count + 1
         /\ UNCHANGED <<waiters, st>>

\* A signal that is neither needed nor storable is refused.
Refuse == /\ waiters = <<>>
          /\ count >= MaxCount
          /\ UNCHANGED semVars

Signal == Grant \/ Store \/ Refuse

\* A non-blocking attempt that succeeds.
Take == /\ count > 0
        /\ count' = count - 1
        /\ UNCHANGED <<waiters, st>>

\* A blocked client gives up.
Timeout(c) == \E k \in 1..Len(waiters) :
                 /\ waiters[k] = c
                 /\ waiters' = Without(waiters, k)
                 /\ st' = [st EXCEPT ![c] = "timedout"]
                 /\ UNCHANGED count

\* The wait returns: TRUE after a grant, FALSE after a timeout.
Return(c) == /\ st[c] \in {"granted", "timedout"}
             /\ st' = [st EXCEPT ![c] = "idle"]
             /\ UNCHANGED <<count, waiters>>

Next == \/ \E c \in Client : Wait(c) \/ Timeout(c) \/ Return(c)
        \/ Signal
        \/ Take

Spec == Init /\ [][Next]_semVars
=============================================================================
