------------------------------ MODULE MCIoWait ------------------------------
(* The instances of IoWait that TLC checks.                                *)
EXTENDS IoWait

CONSTANTS t1, f1, f2

\* What epoll reports.
InErr == {{"IN"}, {"ERR"}}
InOutErr == {{"IN"}, {"OUT"}, {"ERR"}}

\* f1 polled for reading, f2 for reading, for writing or for both.
JustRead == {[f \in {f1} |-> {"IN"}]}
AnyWay == {[f \in {f2} |-> ev] : ev \in {{"IN"}, {"OUT"}, {"IN", "OUT"}}}
BothWays == {[f \in {f2} |-> {"IN", "OUT"}]}
AllArgs == JustRead \cup AnyWay

(* Two scenes in one run, chosen at the start.                             *)
(*   solo: t1 polls the edge-triggered f1 twice and somebody closes it;    *)
(*   pair: t1 polls the level-triggered f2 for both directions and another *)
(*         task polls it in any way, once each.                            *)
VARIABLE scene

Plays(t) == scene = "solo" => t = t1

MCInit == Init /\ scene \in {"solo", "pair"}

MCNext == /\ Next
          /\ \A t \in Task : n'[t] # n[t] =>
                /\ Plays(t)
                /\ scene = "pair" => n'[t] = 1
                /\ watch'[<<t, n'[t]>>] \in IF scene = "solo" THEN JustRead
                                         ELSE IF t = t1 THEN BothWays ELSE AnyWay
          /\ scene = "pair" => UNCHANGED cpc
          /\ UNCHANGED scene

MCSpec == MCInit /\ [][MCNext]_<<vars, scene>>
=============================================================================
