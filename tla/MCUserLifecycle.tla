-------------------------- MODULE MCUserLifecycle --------------------------
(* Instances of UserLifecycle small enough for TLC.                        *)
EXTENDS UserLifecycle, TLC

CONSTANTS mario, Mario  \* one address, written in two ways

MCLower == [e \in Emails |-> IF e = Mario THEN mario ELSE e]

Symmetry == Permutations(Ids) \cup Permutations(Erasures) \cup Permutations(Sweeps)
=============================================================================
