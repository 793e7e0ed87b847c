------------------------------- MODULE Queues --------------------------------
(* Queues of blocked coroutines: what pushing, popping and erasing one     *)
(* element of libgo's TSQueue mean for a sequence.                         *)
EXTENDS Naturals, Sequences

\* The sequence q without its k-th element.
Without(q, k) == [i \in 1..(Len(q) - 1) |-> IF i < k THEN q[i] ELSE q[i + 1]]

Member(q, t) == \E k \in 1..Len(q) : q[k] = t
NoDup(q) == \A i, j \in 1..Len(q) : q[i] = q[j] => i = j
=============================================================================
