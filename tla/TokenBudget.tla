---------------------------- MODULE TokenBudget ----------------------------
(***************************************************************************)
(* What the per-user limiter promises, with no map of buckets and nothing  *)
(* to evict: every user owns one budget for ever.  Time is counted in      *)
(* ticks; a tick earns one unit of credit and a request costs Interval     *)
(* units, so a budget holds at most Burst requests.  UserLimiter.tla is    *)
(* the code (internal/downloader/limiter.go) and is shown to implement     *)
(* this specification.                                                     *)
(***************************************************************************)
EXTENDS Integers

CONSTANTS
  Users,      \* everybody who may send a request
  Burst,      \* requests available at once (USER_BURST)
  Interval    \* ticks in which one request is earned (1h / USER_RATE_PER_HOUR)

Cap == Burst * Interval

VARIABLES
  now,        \* the clock
  credit,     \* what each user may still spend
  spent,      \* what each user has spent since the start
  verdict     \* the answer to each user's latest request

vars == <<now, credit, spent, verdict>>

Verdicts == {"none", "allowed", "denied"}

Capped(x) == IF x < Cap THEN x ELSE Cap

Init ==
  /\ now = 0
  /\ credit = [u \in Users |-> Cap]
  /\ spent = [u \in Users |-> 0]
  /\ verdict = [u \in Users |-> "none"]

(* Every user earns one unit, up to the cap. *)
Tick ==
  /\ now' = now + 1
  /\ credit' = [u \in Users |-> Capped(credit[u] + 1)]
  /\ UNCHANGED <<spent, verdict>>

Grant(u) ==
  /\ credit[u] >= Interval
  /\ credit' = [credit EXCEPT ![u] = @ - Interval]
  /\ spent' = [spent EXCEPT ![u] = @ + Interval]
  /\ verdict' = [verdict EXCEPT ![u] = "allowed"]
  /\ UNCHANGED now

(* A user is turned away for want of credit and for no other reason. *)
Deny(u) ==
  /\ credit[u] < Interval
  /\ verdict' = [verdict EXCEPT ![u] = "denied"]
  /\ UNCHANGED <<now, credit, spent>>

Next == Tick \/ \E u \in Users : Grant(u) \/ Deny(u)

Spec == Init /\ [][Next]_vars

=============================================================================
