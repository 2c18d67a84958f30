---------------------------- MODULE MCJobQueue -----------------------------
(* TLC instances of JobQueue: who sends which request. *)
EXTENDS JobQueue, TLC

CONSTANTS j1, j2, j3, alice, bob

\* alice sends two requests, bob one.
TwoUsers == (j1 :> alice) @@ (j2 :> alice) @@ (j3 :> bob)

\* alice sends everything.
OneUser == [j \in Jobs |-> alice]

\* Workers are alike, and so are the two requests of alice.
Symmetry == Permutations(Workers) \cup Permutations({j1, j2})
=============================================================================
