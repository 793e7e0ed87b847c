------------------------------ MODULE HookedReads -----------------------------
(* Coroutines that read through the hooked calls: an FdHook with variables *)
(* of its own, to stand beside the other things a coroutine may call.      *)

CONSTANTS Reader,    \* coroutines that call read()
          Number,    \* the descriptor numbers they use
          MaxFile, MaxData, MaxSentry, EtAllowed

VARIABLES file, nonblock, data, epoll, edge, slot, ctx, hpc, call, sentries,
          asked, wrong, lapse

hookVars == <<file, nonblock, data, epoll, edge, slot, ctx, hpc, call, sentries,
              asked, wrong, lapse>>

H == INSTANCE FdHook WITH Task <- Reader, Fd <- Number, pc <- hpc, watch <- epoll

\* Hooked calls end as calls on a plain socket would: see FdHook.
Transparent == H!Transparent

\* In level-triggered mode nobody waits for data that is there: see FdHook.
LevelFlagsCorrected == H!LevelFlagsCorrected

\* What fd_context.h says of the flags, in either mode: see FdHook.
FlagsCorrected == H!FlagsCorrected
=============================================================================
