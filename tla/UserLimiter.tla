---------------------------- MODULE UserLimiter ----------------------------
(***************************************************************************)
(* The per-user token buckets of internal/downloader/limiter.go and the    *)
(* sweeper of service.go (evictLoop).  The map of buckets is a function    *)
(* whose domain is the map's key set.  A bucket is the rate.Limiter it     *)
(* holds, which tops itself up lazily from the time of its last grant, and *)
(* the time of its last use.  allow and evictIdle hold the limiter's mutex *)
(* throughout, so each is one step.                                        *)
(*                                                                         *)
(* Credit is counted in ticks of the clock: one tick earns one unit, one   *)
(* request costs Interval units.                                           *)
(***************************************************************************)
EXTENDS Integers

CONSTANTS
  Users,          \* everybody who may send a request
  Burst,          \* UserBurst
  Interval,       \* time.Hour / UserRatePerHour
  IdleTTL,        \* idleTTL
  EvictInterval,  \* evictInterval
  MaxTime         \* bound on the clock

ASSUME LimiterAssumption ==
  /\ Burst \in Nat \ {0}
  /\ Interval \in Nat \ {0}
  /\ IdleTTL \in Nat
  /\ EvictInterval \in Nat \ {0}
  /\ MaxTime \in Nat

Cap == Burst * Interval

VARIABLES
  now,        \* time.Now()
  buckets,    \* userLimiter.buckets
  sweepAt,    \* when evictLoop's ticker fires next
  sweeping,   \* whether evictLoop still runs
  spent,      \* history: what each user has spent since the start
  verdict     \* history: what allow last returned for each user

vars == <<now, buckets, sweepAt, sweeping, spent, verdict>>

Bucket == [credit : Nat, last : Nat, lastUse : Nat]

-----------------------------------------------------------------------------

(* rate.Limiter.advance: the balance now of a limiter last charged at      *)
(* b.last.                                                                 *)
Capped(x) == IF x < Cap THEN x ELSE Cap
Balance(b) == Capped(b.credit + (now - b.last))

(* rate.NewLimiter: a new bucket is full. *)
NewBucket == [credit |-> Cap, last |-> now, lastUse |-> now]

BucketOf(u) == IF u \in DOMAIN buckets THEN buckets[u] ELSE NewBucket

Store(u, b) ==
  buckets' = [x \in DOMAIN buckets \cup {u} |-> IF x = u THEN b ELSE buckets[x]]

(* Mutant: allow that consumes without asking for a token. *)
AllowUnchecked(u) ==
  LET b == BucketOf(u) IN
  /\ Store(u, [credit |-> Balance(b) - Interval, last |-> now, lastUse |-> now])
  /\ spent' = [spent EXCEPT ![u] = @ + Interval]
  /\ verdict' = [verdict EXCEPT ![u] = "allowed"]
  /\ UNCHANGED <<now, sweepAt, sweeping>>

(* allow, with a token to consume.                                         *)
Allow(u) ==
  LET b == BucketOf(u) IN
  /\ Balance(b) >= Interval
  /\ Store(u, [credit |-> Balance(b) - Interval, last |-> now, lastUse |-> now])
  /\ spent' = [spent EXCEPT ![u] = @ + Interval]
  /\ verdict' = [verdict EXCEPT ![u] = "allowed"]
  /\ UNCHANGED <<now, sweepAt, sweeping>>

(* Mutant: a refusal that restarts the bucket's clock. *)
RefuseRestarting(u) ==
  LET b == BucketOf(u) IN
  /\ Balance(b) < Interval
  /\ Store(u, [b EXCEPT !.lastUse = now, !.last = now])
  /\ verdict' = [verdict EXCEPT ![u] = "denied"]
  /\ UNCHANGED <<now, sweepAt, sweeping, spent>>

(* allow, without one: the bucket counts as used, its limiter is untouched. *)
Refuse(u) ==
  LET b == BucketOf(u) IN
  /\ Balance(b) < Interval
  /\ Store(u, [b EXCEPT !.lastUse = now])
  /\ verdict' = [verdict EXCEPT ![u] = "denied"]
  /\ UNCHANGED <<now, sweepAt, sweeping, spent>>

(* evictIdle, on a tick of evictLoop's ticker. *)
IdleStale(b) == b.lastUse < 0 - IdleTTL               \* mutant: cutoff computed once
IdleSinceSweep(b) == b.lastUse < now - EvictInterval  \* mutant: the wrong constant
Idle(b) == b.lastUse < now - IdleTTL

EvictIdle ==
  /\ sweeping
  /\ now = sweepAt
  /\ buckets' = [u \in {x \in DOMAIN buckets : ~Idle(buckets[x])} |-> buckets[u]]
  /\ sweepAt' = now + EvictInterval
  /\ UNCHANGED <<now, sweeping, spent, verdict>>

(* evictLoop returns when its context is cancelled. *)
StopSweeper ==
  /\ sweeping
  /\ sweeping' = FALSE
  /\ UNCHANGED <<now, buckets, sweepAt, spent, verdict>>

(* Time does not run past a tick the sweeper has yet to serve. *)
Tick ==
  /\ now < MaxTime
  /\ sweeping => now < sweepAt
  /\ now' = now + 1
  /\ UNCHANGED <<buckets, sweepAt, sweeping, spent, verdict>>

Init ==
  /\ now = 0
  /\ buckets = [u \in {} |-> NewBucket]
  /\ sweepAt = EvictInterval
  /\ sweeping = TRUE
  /\ spent = [u \in Users |-> 0]
  /\ verdict = [u \in Users |-> "none"]

Next ==
  \/ Tick
  \/ EvictIdle
  \/ StopSweeper
  \/ \E u \in Users : Allow(u) \/ Refuse(u)

Spec == Init /\ [][Next]_vars

-----------------------------------------------------------------------------

TypeOK ==
  /\ now \in Nat
  /\ DOMAIN buckets \subseteq Users
  /\ buckets \in [DOMAIN buckets -> Bucket]
  /\ sweepAt \in Nat
  /\ sweeping \in BOOLEAN
  /\ spent \in [Users -> Nat]
  /\ verdict \in [Users -> {"none", "allowed", "denied"}]

(* No bucket is charged or used in the future, holds more than the cap, or *)
(* was charged after its last use: what makes the lazy top-up right and    *)
(* what evictIdle relies on when it looks at lastUse alone.                *)
BucketsSane ==
  \A u \in DOMAIN buckets :
    /\ buckets[u].credit <= Cap
    /\ buckets[u].last <= buckets[u].lastUse
    /\ buckets[u].lastUse <= now

(* What a user could spend now. *)
Budget(u) == Balance(BucketOf(u))

(* Nothing but the passage of time creates budget: in every step, what a   *)
(* user has spent and could still spend grows by no more than the time     *)
(* that passed.  Summed over any stretch of t ticks this bounds the        *)
(* requests let through to Burst + t / Interval, whatever the sweeper does *)
(* in between (limiter.go: a discarded bucket must not be a refund).       *)
NoFreeTokens ==
  [][\A u \in Users :
       spent'[u] + Budget(u)' <= spent[u] + Budget(u) + (now' - now)]_vars

(* The sweeper bounds memory: while it runs, no bucket outlives its last   *)
(* use by more than the TTL and one sweep (limiter.go, evictIdle).         *)
IdleBucketsGo ==
  sweeping => \A u \in DOMAIN buckets :
                now - buckets[u].lastUse <= IdleTTL + EvictInterval

(* The limiter implements the budget that knows of no eviction: no user    *)
(* can tell that a bucket was dropped and made anew.                       *)
TB == INSTANCE TokenBudget WITH credit <- [u \in Users |-> Budget(u)]
ImplementsBudget == TB!Spec

(* What JobQueue takes the limiter for: a user has the whole tokens the    *)
(* budget is worth, is let through for one of them, turned away when there *)
(* is none, and earns one at a time; the sweeper moves none (limiter.go,   *)
(* allow and evictIdle, as service.go, Submit, uses them).                 *)
Whole == [u \in Users |-> Budget(u) \div Interval]
TK == INSTANCE Tokens WITH tokens <- Whole
AnswersByToken ==
  /\ TK!Init
  /\ [][/\ \A u \in Users : (Allow(u) => TK!Spend(u)) /\ (Refuse(u) => TK!Deny(u))
        /\ Tick => TK!Earn \/ UNCHANGED Whole
        /\ EvictIdle \/ StopSweeper => UNCHANGED Whole]_vars

=============================================================================
