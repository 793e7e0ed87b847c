------------------------------ MODULE ChannelCast -----------------------------
(* A Channel used by some of its clients: cast, fixed when it is made.  A  *)
(* timed operation of a thread loses the signal it took (CoBlockWaitTimed  *)
(* reports false, block_object.cpp), so the exact account of signals is    *)
(* for channels that only coroutines use.                                  *)
EXTENDS Channel

VARIABLE cast

CastInit == Init /\ cast \in SUBSET Client

CastNext == /\ \E c \in cast : NewCall(c) \/ Step(c)
            /\ UNCHANGED cast

CastSpec == CastInit /\ [][CastNext]_<<vars, cast>>

\* A channel that only coroutines use neither loses nor invents a signal: see
\* TokensExact in Channel.
CoTokensExact == cast \cap Thread = {} => TokensExact

\* Nor does it leave one of them blocked in front of an element or a place of its
\* own: see NobodyForgotten in Channel.
CoNobodyForgotten == cast \cap Thread = {} => NobodyForgotten
=============================================================================
