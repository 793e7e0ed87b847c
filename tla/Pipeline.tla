------------------------------- MODULE Pipeline -------------------------------
(* A client that pipelines its commands on a connection of its own: a      *)
(* Redispp with variables of its own, to stand beside the RedisPool.       *)

CONSTANTS MaxCmd, Elements

VARIABLES n, kind, list, conn, headerDone, count, transaction, state, tcount,
          queued, inMulti, wire, stream, doing, goal, qread, mixed, lapse

pipeVars == <<n, kind, list, conn, headerDone, count, transaction, state, tcount,
              queued, inMulti, wire, stream, doing, goal, qread, mixed, lapse>>

R == INSTANCE Redispp

\* Each object reads the answer to its own command: see Redispp.
AnswersMatch == R!AnswersMatch

\* Nobody waits for an answer that is not to come: see Redispp.
NoVainWait == R!NoVainWait
=============================================================================
