------------------------------- MODULE Tokens -------------------------------
(***************************************************************************)
(* The per-user limiter as Submit sees it (internal/downloader): a token a *)
(* request, and no clock.  UserLimiter.tla is shown to answer by it, and   *)
(* JobQueue.tla takes its budgets from it.                                 *)
(***************************************************************************)
EXTENDS Integers

CONSTANTS
  Users,
  Burst     \* tokens a user starts with and holds at most (USER_BURST)

VARIABLE tokens   \* what each user may spend

Init == tokens = [u \in Users |-> Burst]

Spend(u) == tokens[u] > 0 /\ tokens' = [tokens EXCEPT ![u] = @ - 1]

(* The one reason to turn a user away. *)
Deny(u) == tokens[u] = 0 /\ UNCHANGED tokens

(* Time has earned some users a token each. *)
Earn ==
  \E earners \in (SUBSET {u \in Users : tokens[u] < Burst}) \ {{}} :
    tokens' = [u \in Users |-> IF u \in earners THEN tokens[u] + 1 ELSE tokens[u]]

=============================================================================
