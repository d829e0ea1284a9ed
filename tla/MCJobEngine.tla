---------------------------- MODULE MCJobEngine ----------------------------
(* Instances of JobEngine: both jobs back up the same device, so that the   *)
(* second one meets what the first left behind.                            *)
EXTENDS JobEngine, TLC

CONSTANTS j1, j2, phone

OneDevice == [j \in Jobs |-> phone]

\* Sound for the safety run: the two ids are interchangeable.
Symmetry == Permutations({j1, j2})
=============================================================================
