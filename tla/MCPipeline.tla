----------------------------- MODULE MCPipeline -----------------------------
(* TLC instances of Pipeline: one song, every request from one user. *)
EXTENDS Pipeline, TLC

CONSTANTS j1, j2, v1, alice

OneUser == [j \in Jobs |-> alice]

\* The requests are alike.
Symmetry == Permutations(Jobs)
=============================================================================
