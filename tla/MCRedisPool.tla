----------------------------- MODULE MCRedisPool -----------------------------
(* What TLC checks of the two Redis clients, in two scenes chosen at the   *)
(* start:                                                                  *)
(*   pool:     RedisPool, worker threads that share pooled connections;    *)
(*   pipeline: Redispp, a client that pipelines its commands.              *)
EXTENDS RedisPool, Pipeline, Integers

CONSTANT Scenes

VARIABLE scene

\* Multi-bulk answers are nil, empty, or have an element left after the first.
Lengths == {-1, 0, 2}

ASSUME PipelineOptions == R!ConstOk

MCInit == Init /\ R!Init /\ scene \in Scenes

MCNext == /\ \/ scene = "pool" /\ Next /\ UNCHANGED pipeVars
             \/ scene = "pipeline" /\ R!Next /\ UNCHANGED vars
          /\ UNCHANGED scene

MCSpec == /\ MCInit /\ [][MCNext]_<<vars, pipeVars, scene>>
          /\ \A w \in Worker : WF_vars(scene = "pool" /\ Work(w))
          /\ WF_vars(scene = "pool" /\ DisconnectPool)
=============================================================================
