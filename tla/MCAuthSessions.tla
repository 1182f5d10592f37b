--------------------------- MODULE MCAuthSessions ---------------------------
(* Instances of AuthSessions small enough for TLC.                         *)
EXTENDS AuthSessions, TLC

Symmetry == Permutations(Requests) \cup Permutations(Tokens)
=============================================================================
