---------------------------- MODULE MCBlockObject ----------------------------
(* The instances of BlockObject that TLC checks.                           *)
EXTENDS BlockObject, TLC

\* Tasks are interchangeable, and so are wakers (safety runs only).
Symmetry == Permutations(Task) \cup Permutations(Waker)
=============================================================================
