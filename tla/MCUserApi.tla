------------------------------ MODULE MCUserApi ------------------------------
(* What TLC checks of the calls a coroutine makes, in scenes chosen at the *)
(* start:                                                                  *)
(*   channel: Channel, three coroutines, or two coroutines and a thread;   *)
(*   readers: FdHook, two coroutines read from one descriptor number;      *)
(*   numbers: FdHook, one coroutine reads from two level-triggered numbers *)
(*            without timeouts, which may be duplicates of each other.     *)
(* In the last two nothing is followed beyond a lapse.  Among the readers  *)
(* of a level-triggered number at most two sentries live at a time; else   *)
(* the destructor of a sentry runs before anything else does.              *)
EXTENDS ChannelCast, HookedReads, TLC

CONSTANTS c1, c2, c3, p1, Scenes

VARIABLE scene

ASSUME HookOptions == H!ConstOk

MCInit == /\ CastInit /\ H!Init /\ scene \in Scenes
          /\ cast \in IF scene = "channel" THEN {{c1, c2, c3}, {c1, c2, p1}} ELSE {{}}

Symmetry == Permutations(Reader)

Living(t) == sentries[t][1] + sentries[t][2]
Late == \E t \in Reader : Living(t) > IF hpc[t] = "waiting" THEN 1 ELSE 0
HasEt == \E f \in Number : slot[f] # 0 /\ ctx[slot[f]].et_mode_
HasTimeout == \E f \in Number : slot[f] # 0 /\ ctx[slot[f]].recv_o_

HookNext == /\ lapse = {}
            /\ IF Late /\ (scene = "numbers" \/ HasEt)
               THEN \E t \in Reader, f \in Number : H!Forget(t, f) ELSE H!Next
            /\ scene = "readers" => /\ slot'[2] = 0 /\ file'[2] = 0
                                    /\ \A t, u \in Reader : t # u => Living(t)' + Living(u)' <= 2
            /\ scene = "numbers" => /\ \E h \in Reader : hpc'[h] = "idle"
                                    /\ ~HasEt' /\ ~HasTimeout'

MCNext == /\ \/ scene = "channel" /\ CastNext /\ UNCHANGED hookVars
             \/ scene # "channel" /\ HookNext /\ UNCHANGED <<vars, cast>>
          /\ UNCHANGED scene

MCSpec == MCInit /\ [][MCNext]_<<vars, hookVars, scene, cast>>
=============================================================================
