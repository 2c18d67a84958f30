--------------------------- MODULE MCUserLimiter ---------------------------
(* TLC instances of UserLimiter. *)
EXTENDS UserLimiter, TLC

Symmetry == Permutations(Users)
=============================================================================
