--------------------------- MODULE MCAuthSessions ---------------------------
(* Two API processes that cache for one tick of the clock.                 *)
EXTENDS AuthSessions, TLC

CONSTANTS q1, q2, i1, i2

Symmetry == Permutations(Requests) \cup Permutations(Instances)
=============================================================================
