------------------------------ MODULE MCJobRun ------------------------------
(* TLC instances of JobRun. *)
EXTENDS JobRun, TLC

CONSTANTS v1, v2, live

\* Requests are alike, and so are the two playable videos.
Symmetry == Permutations(Jobs) \cup Permutations({v1, v2})
=============================================================================
