------------------------------- MODULE MCHttp --------------------------------
(* What TLC checks of the requests the server serves, in two scenes chosen *)
(* at the start:                                                           *)
(*   http: Http, a client and the connections of the server;               *)
(*   flow: RedisPool, two worker threads at their flow-number requests.    *)
EXTENDS Http

CONSTANTS w1, w2, Scenes

\* Requests without content, with one line and with two.
OneLine == {<<>>, <<"a", "b">>}
TwoLines == {<<"a", "nl", "b">>}

VARIABLES scene,
          exists, made, queue, waiting, bad, pc, step, stage, con, reply,
          incremented, got, floor, requests, value, best, closing

flowVars == <<exists, made, queue, waiting, bad, pc, step, stage, con, reply,
              incremented, got, floor, requests, value, best, closing>>

F == INSTANCE RedisPool WITH Worker <- {w1, w2}, PoolSize <- 1, MaxRequests <- 2,
        Answers <- {"ok", "err", "ask", "moved", "down", "none"}

MCInit == Init /\ F!Init /\ scene \in Scenes

MCNext == /\ \/ scene = "http" /\ Next /\ UNCHANGED flowVars
             \/ scene = "flow" /\ F!Next /\ UNCHANGED vars
          /\ UNCHANGED scene

\* The fairness of the two modules, asked for in the scene that is played.
MCSpec ==
    /\ MCInit /\ [][MCNext]_<<vars, flowVars, scene>>
    /\ WF_vars(scene = "http" /\ Client)
    /\ \A k \in Conn : /\ WF_vars(scene = "http" /\ Handler(k))
                       /\ WF_vars(scene = "http" /\ TimerExpires(k))
                       /\ WF_vars(scene = "http" /\ TimerHandler(k))
    /\ \A w \in {w1, w2} : WF_flowVars(scene = "flow" /\ F!Work(w))
    /\ WF_flowVars(scene = "flow" /\ F!DisconnectPool)

\* See RedisPool: every flow-number request is answered, as long as the pools
\* are whole.
RequestEnds == F!RequestEnds
=============================================================================
