------------------------------ MODULE CoRWMutex ------------------------------
(***************************************************************************)
(* co::CoRWMutex (libgo/co_rwmutex.cpp) over co::CoMutex (co_mutex.cpp).   *)
(* The mutex is a BlockObject(1, 1), an instance of Semaphore: locked when *)
(* no signal is stored.  A reader raises readers_c_ and then looks at the  *)
(* mutex; a writer takes the mutex and then waits for readers_c_ to drop   *)
(* to zero.  Each access to readers_c_ and each section of the mutex is a  *)
(* step; SleepSwitch(0) is the end of a step.                              *)
(***************************************************************************)
EXTENDS Integers, FiniteSets, Queues

CONSTANTS Coroutine

ASSUME CoroutineAssumption == IsFiniteSet(Coroutine)

VARIABLES count, waiters, st,   \* mtx_
          readers_c_,
          pc,                   \* where a coroutine is
          trying                \* it is in r_try_lock, not in r_lock

mtx == <<count, waiters, st>>
vars == <<mtx, readers_c_, pc, trying>>

M == INSTANCE Semaphore WITH Client <- Coroutine, InitCount <- 1, MaxCount <- 1

Pc == {"idle", "r_check", "r_undo", "r_sleep", "r_cs",
       "w_wait", "w_drain", "w_trycheck", "w_release", "w_cs", "threw"}

Init == /\ M!Init
        /\ readers_c_ = 0
        /\ pc = [c \in Coroutine |-> "idle"]
        /\ trying = [c \in Coroutine |-> FALSE]

Goto(c, from, to) == /\ pc[c] = from
                     /\ pc' = [pc EXCEPT ![c] = to]

\* CoMutex::is_lock.
is_lock == count = 0

\* CoMutex::unlock: a signal that Wakeup refuses is a double unlock.
unlock(c, from) ==
    \/ M!Grant /\ Goto(c, from, "idle")
    \/ M!Store /\ Goto(c, from, "idle")
    \/ M!Refuse /\ Goto(c, from, "threw")
-----------------------------------------------------------------------------
(* Readers.                                                                *)

\* ++readers_c_ of r_lock or r_try_lock.
r_lock(c, try) ==
    /\ Goto(c, "idle", "r_check")
    /\ readers_c_' = readers_c_ + 1
    /\ trying' = [trying EXCEPT ![c] = try]
    /\ UNCHANGED mtx

\* if (!mtx_.is_lock()) break;
r_check(c) ==
    /\ \/ ~is_lock /\ Goto(c, "r_check", "r_cs")
       \/ is_lock /\ Goto(c, "r_check", "r_undo")
    /\ UNCHANGED <<mtx, readers_c_, trying>>

\* --readers_c_: r_try_lock returns false, r_lock sleeps.
r_undo(c) ==
    /\ Goto(c, "r_undo", IF trying[c] THEN "idle" ELSE "r_sleep")
    /\ readers_c_' = readers_c_ - 1
    /\ trying' = [trying EXCEPT ![c] = FALSE]
    /\ UNCHANGED mtx

\* Mutant: readers_c_ is not raised again.
r_retry_NoIncrement(c) ==
    /\ Goto(c, "r_sleep", "r_check")
    /\ UNCHANGED <<mtx, readers_c_, trying>>

\* The next round of r_lock's loop.
r_retry(c) ==
    /\ Goto(c, "r_sleep", "r_check")
    /\ readers_c_' = readers_c_ + 1
    /\ UNCHANGED <<mtx, trying>>

r_unlock(c) ==
    /\ Goto(c, "r_cs", "idle")
    /\ readers_c_' = readers_c_ - 1
    /\ trying' = [trying EXCEPT ![c] = FALSE]
    /\ UNCHANGED mtx
-----------------------------------------------------------------------------
(* Writers.                                                                *)

\* mtx_.lock() of w_lock.
w_lock(c) ==
    /\ Goto(c, "idle", "w_wait")
    /\ M!Wait(c)
    /\ UNCHANGED <<readers_c_, trying>>

w_locked(c) ==
    /\ Goto(c, "w_wait", "w_drain")
    /\ M!Return(c)
    /\ UNCHANGED <<readers_c_, trying>>

\* Mutant: the writer does not wait for the readers.
w_drain_Skip(c) ==
    /\ Goto(c, "w_drain", "w_cs")
    /\ UNCHANGED <<mtx, readers_c_, trying>>

\* while (readers_c_) SleepSwitch(0);
w_drain(c) ==
    /\ readers_c_ = 0
    /\ Goto(c, "w_drain", "w_cs")
    /\ UNCHANGED <<mtx, readers_c_, trying>>

\* if (!mtx_.try_lock()) return false; a failed attempt changes nothing.
w_try_lock(c) ==
    /\ M!Take
    /\ Goto(c, "idle", "w_trycheck")
    /\ UNCHANGED <<readers_c_, trying>>

\* if (readers_c_) { mtx_.unlock(); return false; }
w_trycheck(c) ==
    /\ \/ readers_c_ = 0 /\ Goto(c, "w_trycheck", "w_cs")
       \/ readers_c_ # 0 /\ Goto(c, "w_trycheck", "w_release")
    /\ UNCHANGED <<mtx, readers_c_, trying>>

\* Mutant: a failed w_try_lock keeps the mutex.
w_release_Keep(c) ==
    /\ Goto(c, "w_release", "idle")
    /\ UNCHANGED <<mtx, readers_c_, trying>>

w_release(c) ==
    /\ unlock(c, "w_release")
    /\ UNCHANGED <<readers_c_, trying>>

w_unlock(c) ==
    /\ unlock(c, "w_cs")
    /\ UNCHANGED <<readers_c_, trying>>
-----------------------------------------------------------------------------
NewCall(c) == \/ \E try \in BOOLEAN : r_lock(c, try)
              \/ w_lock(c)
              \/ w_try_lock(c)
Step(c) == \/ r_check(c) \/ r_undo(c) \/ r_retry(c) \/ r_unlock(c)
           \/ w_locked(c) \/ w_drain(c) \/ w_trycheck(c) \/ w_release(c)
           \/ w_unlock(c)

Next == \E c \in Coroutine : NewCall(c) \/ Step(c)

Spec == Init /\ [][Next]_vars

\* Runnable coroutines are run, and a lock that was obtained is released.
FairSpec == Spec /\ \A c \in Coroutine : WF_vars(Step(c))
-----------------------------------------------------------------------------
(* Properties.                                                             *)

TypeOK == /\ count \in Nat
          /\ waiters \in Seq(Coroutine)
          /\ st \in [Coroutine -> M!ClientState]
          /\ readers_c_ \in Int
          /\ pc \in [Coroutine -> Pc]
          /\ trying \in [Coroutine -> BOOLEAN]

\* A writer excludes everybody else, although reader and writer each act on
\* one of mtx_ and readers_c_ and only then look at the other.
Exclusion == \A c, d \in Coroutine :
                pc[c] = "w_cs" /\ c # d => pc[d] \notin {"w_cs", "r_cs"}

\* The coroutines that own the mutex, from the grant to the unlock.
Owner(c) == \/ st[c] = "granted"
            \/ pc[c] \in {"w_drain", "w_trycheck", "w_release", "w_cs"}
\* Readers between their increment and their decrement.
Counted == {c \in Coroutine : pc[c] \in {"r_check", "r_undo", "r_cs"}}

\* readers_c_ counts exactly the readers that are inside or about to look;
\* in particular r_unlock's assert(rc >= 0) holds.
ReadersExact == readers_c_ = Cardinality(Counted)

\* The mutex is locked exactly while one coroutine owns it, so unlock never
\* throws ec_mutex_double_unlock.
MutexExact == /\ \A c, d \in Coroutine : Owner(c) /\ Owner(d) => c = d
              /\ count = 0 <=> \E c \in Coroutine : Owner(c)
              /\ \A c \in Coroutine : pc[c] # "threw"

\* The two counts of the lock say what is the case: readers_c_ counts exactly
\* the readers that are inside or about to look, and the mutex is locked exactly
\* while one writer owns it, so neither r_unlock's assert nor unlock's
\* ec_mutex_double_unlock is ever met.
CountsExact == ReadersExact /\ MutexExact

\* The strengthening: a coroutine is in w_wait exactly while the semaphore
\* knows of its wait, it is queued exactly while it is waiting, and nobody
\* waits for a free mutex.
WaitInv == /\ \A c \in Coroutine :
                 /\ st[c] \in {"idle", "waiting", "granted"}
                 /\ st[c] # "idle" <=> pc[c] = "w_wait"
                 /\ st[c] = "waiting" <=> Member(waiters, c)
           /\ NoDup(waiters)
           /\ waiters # <<>> => count = 0
           /\ count <= 1
IInv == TypeOK /\ WaitInv /\ MutexExact /\ ReadersExact /\ Exclusion

\* A w_lock gets its turn however many writers compete with it, provided the
\* readers stop knocking: only r_lock's retries and new readers, which raise
\* readers_c_ for a moment each, can hold a writer up for ever.
NoKnocking == <>[](\A c \in Coroutine :
                      pc[c] \notin {"r_check", "r_undo", "r_sleep"})
WriterEnters == NoKnocking => \A c \in Coroutine :
                                 pc[c] = "w_wait" ~> pc[c] = "w_cs"
=============================================================================
