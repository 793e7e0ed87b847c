------------------------------- MODULE FdHook --------------------------------
(***************************************************************************)
(* What a coroutine sees of its sockets: the hooked read, fcntl, ioctl,    *)
(* setsockopt, close and dup of linux_glibc_hook.cpp, and the table of     *)
(* descriptor contexts they share (FdManager, fd_context.cpp).             *)
(*                                                                         *)
(* A hooked socket is non-blocking in the kernel whatever its user asked   *)
(* for; read_write_mode makes a coroutine wait where the user wants a      *)
(* blocking call.  What the user asked for is kept by file in asked, what  *)
(* the library believes of it in the context of the descriptor number.     *)
(*                                                                         *)
(* IoWait has the inside of a poll.  Here registration, report, wake-up    *)
(* with the return of the poll, and the destructor of its sentry are one   *)
(* step each, close and dup are one step, and only reading is followed     *)
(* (writing and accepting go through the same function).  The clock is left*)
(* out: a call with a timeout may find it expired at once.                 *)
(*                                                                         *)
(* lapse collects what programs do that the library does not stand, and a  *)
(* late destructor, which it does itself (see Forget).                     *)
(***************************************************************************)
EXTENDS Naturals, FiniteSets

CONSTANTS Task,
          Fd,        \* descriptor numbers, positive
          MaxFile,   \* bound: sockets open, or with a call still going on
          MaxData,   \* bound: pieces of data that wait in one socket
          MaxSentry, \* bound: sentries of a task's polls of one number
          EtAllowed  \* set_et_mode is used

ConstOk == /\ IsFiniteSet(Task) /\ IsFiniteSet(Fd) /\ 0 \notin Fd
           /\ MaxFile \in Nat /\ MaxData \in Nat
           /\ MaxSentry \in Nat /\ EtAllowed \in BOOLEAN

File == 1..MaxFile
Ctx == 1..(Cardinality(Fd) + 2 * Cardinality(Task))   \* enough for every reference

VARIABLES
    \* the kernel
    file,      \* the open file of each number, 0 for none
    nonblock,  \* O_NONBLOCK of each file
    data,      \* what waits to be read in it
    watch,     \* its entry in epoll: number and mode, or Unwatched
    edge,      \* epoll has an edge to report
    \* FdManager
    slot,      \* the context of each number, 0 for none
    ctx,       \* FileDescriptorCtx
    \* coroutines in read()
    pc, call,
    sentries,  \* living IoSentries of a task for a number: that of its poll, and
               \* those which the timer, the reactor or a close holds beyond it
    \* what they would have seen of a plain kernel
    asked,     \* the user's O_NONBLOCK
    wrong,     \* calls that ended otherwise
    lapse

kernelVars == <<file, nonblock, data, watch, edge>>
vars == <<kernelVars, slot, ctx, pc, call, sentries, asked, wrong, lapse>>

Unwatched == [fd |-> 0, et |-> FALSE]
Blank == [fd_ |-> 0, is_initialize |-> FALSE, closed_ |-> FALSE,
          user_nonblock_ |-> FALSE, recv_o_ |-> FALSE, readable_ |-> FALSE,
          et_mode_ |-> FALSE, pending |-> FALSE, i_tasks_ |-> {}]
NoCall == [fd |-> 0, on |-> 0, ctx |-> 0, at |-> 0, timed |-> FALSE,
           big |-> FALSE]

Init == /\ file = [f \in Fd |-> 0]
        /\ nonblock = [k \in File |-> FALSE]
        /\ data = [k \in File |-> 0]
        /\ watch = [k \in File |-> Unwatched]
        /\ edge = [k \in File |-> FALSE]
        /\ slot = [f \in Fd |-> 0]
        /\ ctx = [c \in Ctx |-> Blank]
        /\ pc = [t \in Task |-> "idle"]
        /\ call = [t \in Task |-> NoCall]
        /\ sentries = [t \in Task |-> [f \in Fd |-> 0]]
        /\ asked = [k \in File |-> FALSE]
        /\ wrong = {} /\ lapse = {}

Goto(t, l) == pc' = [pc EXCEPT ![t] = l]
Lapse(l, P) == lapse' = IF P THEN lapse \cup {l} ELSE lapse
\* A call that was made on the number is still going on.
InUse(f) == \E t \in Task : pc[t] # "idle" /\ call[t].fd = f
-----------------------------------------------------------------------------
(* FdManager.                                                              *)

\* A context nobody refers to any more.
FreeCtx == CHOOSE c \in Ctx : /\ \A f \in Fd : slot[f] # c
                              /\ \A t \in Task : c \notin {call[t].ctx, call[t].at}

\* get: the context of a number is made, or initialized, on demand; for an
\* open socket this also makes it non-blocking.
Get(f) ==
    LET old == slot[f] # 0
        c == IF old THEN slot[f] ELSE FreeCtx
        fresh == ~(old /\ ctx[c].is_initialize)
    IN  [id |-> c,
         slot |-> [slot EXCEPT ![f] = c],
         ctx |-> IF fresh
                 THEN [ctx EXCEPT ![c] = [Blank EXCEPT !.fd_ = f,
                                            !.is_initialize = file[f] # 0]]
                 ELSE ctx,
         nonblock |-> IF fresh /\ file[f] # 0
                      THEN [nonblock EXCEPT ![file[f]] = TRUE] ELSE nonblock]

\* get_fd_ctx gives nothing, or something closed.
Bad(g) == ~g.ctx[g.id].is_initialize \/ g.ctx[g.id].closed_

\* The kernel, when number f gets another file or none: with its last number a
\* file goes, its epoll entry and its data.
IsOpen(files, k) == \E x \in Fd : files[x] = k
Assign(f, new) ==
    /\ file' = [file EXCEPT ![f] = new]
    /\ watch' = [k \in File |-> IF IsOpen(file', k) THEN watch[k] ELSE Unwatched]
    /\ edge' = [k \in File |-> IsOpen(file', k) /\ edge[k]]
    /\ data' = [k \in File |-> IF IsOpen(file', k) THEN data[k] ELSE 0]
    /\ asked' = [k \in File |-> IsOpen(file', k) /\ asked[k]]
KernelClose(f) == Assign(f, 0)

\* EPOLL_CTL_ADD or MOD: data that waits is an edge.  EPOLL_CTL_DEL.
Register(f, et) ==
    LET k == file[f]
    IN  /\ watch' = [watch EXCEPT ![k] = [fd |-> f, et |-> et]]
        /\ edge' = [edge EXCEPT ![k] = et /\ data[k] > 0]
Unregister(f) == [watch EXCEPT ![file[f]] = Unwatched]

\* Who waits at context c, of the record r, wakes and goes to l; a task that an
\* earlier poll left in the set does not wait for it any more.  Their revents are
\* set only if they polled the context's own number: the poll of a duplicate
\* returns 0.
Own(t, r) == call[t].fd = r.fd_
WaitsAt(t, c) == pc[t] = "waiting" /\ call[t].at = c
Woken(c, r, l) == [t \in Task |-> IF ~(t \in r.i_tasks_ /\ WaitsAt(t, c)) THEN pc[t]
                                  ELSE IF Own(t, r) THEN l ELSE "nothing"]

\* close_without_lock, but for the system call.
Closed(r) == [r EXCEPT !.closed_ = TRUE, !.pending = FALSE, !.readable_ = FALSE,
                       !.i_tasks_ = {}]
WakeAll(c) == pc' = Woken(c, ctx[c], "fn")

\* A number and its duplicate have one context.
IsShared(f) == slot[f] # 0 /\ \E x \in Fd \ {f} : slot[x] = slot[f]

\* The table cs without the contexts that only slot f, or call t, refer to.
Refs(t) == {call[t].ctx, call[t].at}
WithoutSlot(cs, f) ==
    [c \in Ctx |-> IF /\ c = slot[f] /\ ~IsShared(f)
                      /\ \A t \in Task : c \notin Refs(t) THEN Blank ELSE cs[c]]
WithoutCall(cs, t) ==
    [c \in Ctx |-> IF /\ c \in Refs(t) /\ \A f \in Fd : slot[f] # c
                      /\ \A u \in Task \ {t} : c \notin Refs(u) THEN Blank ELSE cs[c]]

\* close: the number closed is the context's own, and only once.
Close(f) ==
    /\ file[f] # 0
    /\ slot' = [slot EXCEPT ![f] = 0]
    /\ IF slot[f] = 0 THEN KernelClose(f) /\ UNCHANGED <<ctx, pc>>
       ELSE IF ctx[slot[f]].closed_
       THEN ctx' = WithoutSlot(ctx, f) /\ UNCHANGED <<file, watch, edge, data, asked, pc>>
       ELSE /\ KernelClose(ctx[slot[f]].fd_)
            /\ ctx' = WithoutSlot([ctx EXCEPT ![slot[f]] = Closed(@)], f)
            /\ WakeAll(slot[f])
    /\ Lapse("duplicate closed", IsShared(f))
    /\ UNCHANGED <<nonblock, call, sentries, wrong>>

\* dup: the duplicate gets the context of the original, unless its own slot
\* is taken (a warning is printed).
Dup(f, x) ==
    LET g == Get(f)
    IN  /\ file[f] # 0 /\ file[x] = 0
        /\ file' = [file EXCEPT ![x] = file[f]]
        /\ slot' = IF slot[x] = 0 THEN [g.slot EXCEPT ![x] = g.id] ELSE g.slot
        /\ ctx' = g.ctx /\ nonblock' = g.nonblock
        /\ lapse' = lapse \cup (IF slot[x] = 0 THEN {} ELSE {"slot taken"})
                    \cup (IF InUse(x) THEN {"number reused"} ELSE {})
        /\ UNCHANGED <<data, watch, edge, pc, call, sentries, asked, wrong>>

\* dup2: the kernel closes what the number stood for, close(newfd, false) does
\* the rest for its context, and dup shares that of the original.
Dup2(f, x) ==
    LET g == Get(f)
        c == slot[x]
    IN  /\ file[f] # 0 /\ f # x
        /\ Assign(x, file[f])
        /\ slot' = [g.slot EXCEPT ![x] = g.id]
        /\ IF c # 0 /\ ~ctx[c].closed_
           THEN ctx' = WithoutSlot([g.ctx EXCEPT ![c] = Closed(@)], x) /\ WakeAll(c)
           ELSE ctx' = g.ctx /\ UNCHANGED pc
        /\ nonblock' = g.nonblock
        /\ lapse' = lapse \cup (IF IsShared(x) THEN {"duplicate closed"} ELSE {})
                    \cup (IF InUse(x) THEN {"number reused"} ELSE {})
        /\ UNCHANGED <<call, sentries, wrong>>
-----------------------------------------------------------------------------
(* Other calls of the user, and the peer.                                  *)

\* socket(), which is not hooked: one that is non-blocking from the start
\* counts as blocking with the library.
NewFile == {k \in File : ~IsOpen(file, k) /\ \A t \in Task : call[t].on # k}
Open(f, b) ==
    /\ file[f] = 0 /\ NewFile # {}
    /\ LET k == CHOOSE x \in NewFile : TRUE
       IN  /\ file' = [file EXCEPT ![f] = k]
           /\ nonblock' = [nonblock EXCEPT ![k] = b]
           /\ asked' = [asked EXCEPT ![k] = b]
    /\ lapse' = lapse \cup (IF b THEN {"opened non-blocking"} ELSE {})
                \cup (IF InUse(f) THEN {"number reused"} ELSE {})
    /\ UNCHANGED <<data, watch, edge, slot, ctx, pc, call, sentries, wrong>>

\* fcntl(F_SETFL) and ioctl(FIONBIO): the context keeps what the user wants,
\* the kernel's flag stays set.
SetFlags(f, b) ==
    LET g == Get(f)
    IN  /\ file[f] # 0
        /\ slot' = g.slot
        /\ IF Bad(g)
           THEN /\ ctx' = g.ctx
                /\ nonblock' = [g.nonblock EXCEPT ![file[f]] = b]
           ELSE /\ ctx' = [g.ctx EXCEPT ![g.id].user_nonblock_ = b]
                /\ nonblock' = g.nonblock
        /\ asked' = [asked EXCEPT ![file[f]] = b]
        /\ UNCHANGED <<file, data, watch, edge, pc, call, sentries, wrong, lapse>>

\* fcntl(F_GETFL): what it shows of O_NONBLOCK.
GetFlags(f) == IF slot[f] # 0 /\ ~ctx[slot[f]].closed_ /\ ctx[slot[f]].is_initialize
               THEN ctx[slot[f]].user_nonblock_ ELSE nonblock[file[f]]

\* setsockopt(SO_RCVTIMEO).
SetTimeout(f, b) ==
    LET g == Get(f)
    IN  /\ file[f] # 0
        /\ slot' = g.slot /\ nonblock' = g.nonblock
        /\ ctx' = [g.ctx EXCEPT ![g.id].recv_o_ = b]
        /\ UNCHANGED <<file, data, watch, edge, pc, call, sentries, asked, wrong, lapse>>

\* set_et_mode.
SetEtMode(f) ==
    LET g == Get(f)
        c == g.id
    IN  /\ EtAllowed /\ file[f] # 0 /\ ~Bad(g) /\ ~g.ctx[c].et_mode_
        /\ slot' = g.slot /\ nonblock' = g.nonblock
        /\ ctx' = [g.ctx EXCEPT ![c].et_mode_ = TRUE]
        /\ IF g.ctx[c].pending THEN Register(g.ctx[c].fd_, TRUE)
           ELSE UNCHANGED <<watch, edge>>
        /\ UNCHANGED <<file, data, pc, call, sentries, asked, wrong, lapse>>

Arrive(k) == /\ IsOpen(file, k) /\ data[k] < MaxData
             /\ data' = [data EXCEPT ![k] = @ + 1]
             /\ edge' = [edge EXCEPT ![k] = watch[k].et]
             /\ UNCHANGED <<file, nonblock, watch, slot, ctx, pc, call,
                            sentries, asked, wrong, lapse>>
-----------------------------------------------------------------------------
(* read(), which is read_write_mode for POLLIN.                            *)

\* A call ends, the contexts being cs; P says whether a plain socket could have
\* ended it so.
Return(t, P, cs) == /\ pc' = [pc EXCEPT ![t] = "idle"]
                    /\ call' = [call EXCEPT ![t] = NoCall]
                    /\ ctx' = WithoutCall(cs, t)
                    /\ wrong' = IF P THEN wrong ELSE wrong \cup {t}

\* The number has been closed since the call began, or was not open.
Gone(t) == call[t].on = 0 \/ file[call[t].fd] # call[t].on

\* The head of the function.  big: the buffer is larger than what can come.
Read(t, f, big) ==
    LET g == Get(f)
        r == g.ctx[g.id]
        user == file[f] # 0 /\ asked[file[f]]
    IN  /\ pc[t] = "idle"
        /\ slot' = g.slot /\ ctx' = g.ctx /\ nonblock' = g.nonblock
        /\ call' = [call EXCEPT ![t] = [fd |-> f, on |-> file[f], ctx |-> g.id,
                        at |-> 0, timed |-> r.recv_o_, big |-> big]]
        /\ IF Bad(g) THEN Goto(t, "EBADF")
           ELSE IF r.user_nonblock_ THEN Goto(t, "direct")
           ELSE Goto(t, "look")
        /\ wrong' = IF ~Bad(g) /\ r.user_nonblock_ # user THEN wrong \cup {t}
                    ELSE wrong
        /\ UNCHANGED <<file, data, watch, edge, sentries, asked, lapse>>

BadFd(t) == /\ pc[t] = "EBADF" /\ Return(t, Gone(t), ctx)
            /\ UNCHANGED <<kernelVars, slot, sentries, asked, lapse>>

\* What the kernel's read takes.
Takes(t) == LET k == file[call[t].fd]
            IN  data' = [data EXCEPT ![k] = IF call[t].big THEN 0 ELSE @ - 1]

\* A call the user wants non-blocking goes to the kernel.
Direct(t) ==
    LET k == file[call[t].fd]
    IN  /\ pc[t] = "direct"
        /\ IF k = 0 THEN Return(t, Gone(t), ctx) /\ UNCHANGED data
           ELSE IF data[k] > 0 THEN Takes(t) /\ Return(t, ~Gone(t), ctx)
           ELSE nonblock[k] /\ Return(t, TRUE, ctx) /\ UNCHANGED data
        /\ UNCHANGED <<file, nonblock, watch, edge, slot, sentries, asked, lapse>>

\* retry: the flag says whether to poll first.  A timeout may have expired.
Look(t) ==
    /\ pc[t] = "look"
    /\ IF ctx[call[t].ctx].readable_ THEN Goto(t, "fn") ELSE Goto(t, "poll")
    /\ UNCHANGED <<kernelVars, slot, ctx, call, sentries, asked, wrong, lapse>>

\* The timeout: before the poll, instead of it, or while it waits.  The timer
\* wakes the task and leaves its entry; that is for the sentry's destructor.
Expire(t) ==
    /\ pc[t] \in {"poll", "waiting"} /\ call[t].timed /\ Return(t, TRUE, ctx)
    /\ UNCHANGED <<kernelVars, slot, sentries, asked, lapse>>

\* ~IoSentry of a poll that is over, when its last holder lets go of it: the task
\* as poll returns, or the timer, the reactor or a close at any later time.  It
\* looks its number up again, and del_from_reactor erases the task's entry there,
\* whichever poll made it; in level-triggered mode the registration ends with the
\* last entry.  That a poll which still waits loses its entry is the lapse.
Forget(t, f) ==
    LET g == Get(f)
        c == g.id
        r == g.ctx[c]
        hit == ~Bad(g) /\ r.pending /\ t \in r.i_tasks_
        left == r.i_tasks_ \ {t}
        gone == hit /\ left = {} /\ ~r.et_mode_
    IN  /\ sentries[t][f] > IF pc[t] = "waiting" /\ call[t].fd = f THEN 1 ELSE 0
        /\ sentries' = [sentries EXCEPT ![t][f] = @ - 1]
        /\ slot' = g.slot /\ nonblock' = g.nonblock
        /\ ctx' = IF hit THEN [g.ctx EXCEPT ![c].i_tasks_ = left,
                                            ![c].pending = ~gone] ELSE g.ctx
        /\ watch' = IF gone THEN Unregister(r.fd_) ELSE watch
        /\ Lapse("late destructor", hit /\ WaitsAt(t, c))
        /\ UNCHANGED <<file, data, edge, pc, call, asked, wrong>>

\* libgo_poll looks the number up again and registers with what it finds; a
\* bad number, or in edge-triggered mode a flag, ends the poll at once, and its
\* sentry with it, which takes an older entry of the task along.
Poll(t) ==
    LET g == Get(call[t].fd)
        r == g.ctx[g.id]
    IN  /\ pc[t] = "poll"
        /\ slot' = g.slot /\ nonblock' = g.nonblock
        /\ \/ /\ Bad(g)
              /\ ctx' = g.ctx
              /\ Goto(t, "fn") /\ UNCHANGED <<call, sentries, watch, edge>>
           \/ /\ ~Bad(g) /\ r.et_mode_ /\ r.readable_
              /\ ctx' = [g.ctx EXCEPT ![g.id].i_tasks_ = @ \ {t}]
              /\ Goto(t, IF Own(t, r) THEN "triggered" ELSE "nothing")
              /\ UNCHANGED <<call, sentries, watch, edge>>
           \/ /\ ~Bad(g) /\ ~(r.et_mode_ /\ r.readable_)
              /\ sentries[t][call[t].fd] < MaxSentry
              /\ sentries' = [sentries EXCEPT ![t][call[t].fd] = @ + 1]
              /\ ctx' = [g.ctx EXCEPT ![g.id].pending = TRUE,
                                      ![g.id].i_tasks_ = @ \cup {t}]
              /\ IF r.pending THEN UNCHANGED <<watch, edge>>
                 ELSE Register(r.fd_, r.et_mode_)
              /\ call' = [call EXCEPT ![t].at = g.id]
              /\ Goto(t, "waiting")
        /\ UNCHANGED <<file, data, asked, wrong, lapse>>

\* poll returned 1 for POLLIN: the flag is set on the context of the call.
Triggered(t) ==
    /\ pc[t] = "triggered"
    /\ ctx' = [ctx EXCEPT ![call[t].ctx].readable_ = TRUE]
    /\ Goto(t, "fn")
    /\ UNCHANGED <<kernelVars, slot, call, sentries, asked, wrong, lapse>>

\* poll returned 0, taken for a timeout: EAGAIN.
Nothing(t) ==
    /\ pc[t] = "nothing" /\ Return(t, call[t].timed, ctx)
    /\ lapse' = lapse \cup {"duplicate read"}
    /\ UNCHANGED <<kernelVars, slot, sentries, asked>>

\* Mutant: EAGAIN goes to the caller.
Fn_NoRetry(t) ==
    LET k == file[call[t].fd]
    IN  /\ pc[t] = "fn" /\ k # 0 /\ data[k] = 0
        /\ Return(t, call[t].timed, ctx) /\ UNCHANGED data
        /\ UNCHANGED <<file, nonblock, watch, edge, slot, sentries, asked, lapse>>

\* The kernel's read on the number.  Less than the buffer holds, or EAGAIN:
\* the flag will be reset.
Fn(t) ==
    LET k == file[call[t].fd]
    IN  /\ pc[t] = "fn"
        /\ \/ k = 0 /\ Return(t, Gone(t), ctx) /\ UNCHANGED data
           \/ /\ k # 0 /\ data[k] > 0 /\ Takes(t)
              /\ IF ~call[t].big THEN Return(t, ~Gone(t), ctx)
                 ELSE /\ Goto(t, "drained")
                      /\ wrong' = IF Gone(t) THEN wrong \cup {t} ELSE wrong
                      /\ UNCHANGED <<ctx, call>>
           \/ /\ k # 0 /\ data[k] = 0 /\ nonblock[k]
              /\ Goto(t, "EAGAIN") /\ UNCHANGED <<data, ctx, call, wrong>>
        /\ UNCHANGED <<file, nonblock, watch, edge, slot, sentries, asked, lapse>>

\* set_readable(false), and again or back.
Reset(t) ==
    /\ pc[t] \in {"EAGAIN", "drained"}
    /\ LET cs == [ctx EXCEPT ![call[t].ctx].readable_ = FALSE]
       IN  \/ pc[t] = "EAGAIN" /\ Goto(t, "look") /\ ctx' = cs /\ UNCHANGED <<call, wrong>>
           \/ pc[t] = "drained" /\ Return(t, TRUE, cs)
    /\ UNCHANGED <<kernelVars, slot, sentries, asked, lapse>>
-----------------------------------------------------------------------------
\* Mutant: pending_events_ is not updated.
StaysPending_Always(r) == TRUE

\* del_events leaves a registration in edge-triggered mode.
StaysPending(r) == r.et_mode_

\* WaitLoop takes a report of epoll to the context of its number, and wakes
\* who waits there.
Ready(k) == /\ watch[k] # Unwatched
            /\ IF watch[k].et THEN edge[k] ELSE data[k] > 0
Report(k) ==
    LET g == Get(watch[k].fd)
        c == g.id
    IN  /\ Ready(k)
        /\ edge' = [edge EXCEPT ![k] = FALSE]
        /\ slot' = g.slot /\ nonblock' = g.nonblock
        /\ IF Bad(g) THEN ctx' = g.ctx /\ UNCHANGED <<watch, pc>>
           ELSE /\ ctx' = [g.ctx EXCEPT ![c].readable_ = TRUE, ![c].i_tasks_ = {},
                                        ![c].pending = @ /\ StaysPending(g.ctx[c])]
                /\ watch' = IF g.ctx[c].pending /\ ~g.ctx[c].et_mode_
                            THEN Unregister(g.ctx[c].fd_) ELSE watch
                /\ pc' = Woken(c, g.ctx[c], "triggered")
        /\ UNCHANGED <<file, data, call, sentries, asked, wrong, lapse>>

Step(t) == \/ BadFd(t) \/ Direct(t) \/ Look(t) \/ Expire(t) \/ Poll(t)
           \/ Triggered(t) \/ Nothing(t) \/ Fn(t) \/ Reset(t)

Next == \/ \E f \in Fd : \/ \E b \in BOOLEAN : \/ Open(f, b) \/ SetFlags(f, b)
                                               \/ SetTimeout(f, b)
                         \/ Close(f) \/ SetEtMode(f)
                         \/ \E x \in Fd : Dup(f, x) \/ Dup2(f, x)
                         \/ \E t \in Task, big \in BOOLEAN : Read(t, f, big)
        \/ \E k \in File : Arrive(k) \/ Report(k)
        \/ \E t \in Task : Step(t) \/ \E f \in Fd : Forget(t, f)

Spec == Init /\ [][Next]_vars
-----------------------------------------------------------------------------
\* The hooks cannot be told from a plain socket: a call of a coroutine reads
\* from the socket it was made on, waits exactly where the user wants a blocking
\* call, fails with EAGAIN only then or after its timeout and with EBADF only
\* when the number is gone; F_GETFL shows what the user set.  That is, however
\* the calls of several coroutines interleave, but for the recorded lapses.
Transparent ==
    lapse = {} => /\ wrong = {}
                  /\ \A f \in Fd : file[f] # 0 => GetFlags(f) = asked[file[f]]

\* Whoever waits for data that is there has a report on its way.
Heard(t) == LET k == call[t].on
            IN  pc[t] = "waiting" /\ k # 0 /\ data[k] > 0 => Ready(k)

\* fd_context.h:145 says that readable_ and writable_ need not be exact, since
\* read_write_mode corrects them with poll.  So nobody waits for ever for data
\* that is there because a flag was reset late.
FlagsCorrected == lapse = {} => \A t \in Task : Heard(t)

\* The same for descriptors in level-triggered mode, where it holds: another
\* coroutine's read, the reactor, a timeout, the late destructor of another
\* poll's sentry or a close may come between any two steps of the call.  The
\* exception is recorded: when the destructor of a sentry takes the entry of the
\* same task's next poll, that poll has no report to come.
LevelFlagsCorrected ==
    lapse = {} => \A t \in Task :
       pc[t] = "waiting" /\ ~ctx[call[t].at].et_mode_ => Heard(t)
=============================================================================
