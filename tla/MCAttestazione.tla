---------------------------- MODULE MCAttestazione ----------------------------
(* Instances of Attestazione small enough for TLC.                           *)
EXTENDS Attestazione, TLC

\* Requests, contents and numbers are interchangeable: only equality is used.
Symmetry == Permutations(Requests) \cup Permutations(Contents) \cup Permutations(Numeri)
===============================================================================
