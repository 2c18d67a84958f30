------------------------- MODULE UserLimiterProofs -------------------------
(***************************************************************************)
(* Theorems about UserLimiter, for every number of users and every setting *)
(* of the budget and the sweeper.                                          *)
(***************************************************************************)
EXTENDS UserLimiter, TLAPS

(* The sweeper is never behind its ticker, and at its latest sweep, at     *)
(* sweepAt - EvictInterval, it dropped whatever was idle then.             *)
SweepKept ==
  sweeping =>
    /\ now <= sweepAt
    /\ sweepAt <= now + EvictInterval
    /\ \A u \in DOMAIN buckets :
         buckets[u].lastUse >= sweepAt - EvictInterval - IdleTTL

IInv == TypeOK /\ BucketsSane /\ SweepKept

LEMMA CapPositive == Cap \in Nat /\ Cap >= Interval
  BY LimiterAssumption, Z3 DEF Cap

(* What a user has to spend is a natural number, the cap at most.          *)
LEMMA BudgetBounds ==
  ASSUME TypeOK, BucketsSane, NEW u \in Users
  PROVE  Budget(u) \in Nat /\ Budget(u) <= Cap
  BY CapPositive DEF TypeOK, BucketsSane, Budget, BucketOf, NewBucket, Balance,
     Capped, Bucket

-----------------------------------------------------------------------------

LEMMA InitIInv == Init => IInv
  BY LimiterAssumption DEF Init, IInv, TypeOK, BucketsSane, SweepKept

(* Replacing one user's bucket by a sane one that was used just now keeps  *)
(* the invariant.                                                          *)
LEMMA StoreKeeps ==
  ASSUME IInv, NEW u \in Users, NEW b \in Bucket,
         b.credit <= Cap, b.last <= b.lastUse, b.lastUse = now,
         Store(u, b), UNCHANGED <<now, sweepAt, sweeping>>,
         spent' \in [Users -> Nat],
         verdict' \in [Users -> {"none", "allowed", "denied"}]
  PROVE  IInv'
<1>1. DOMAIN buckets' = DOMAIN buckets \cup {u}
  BY DEF Store
<1>2. \A x \in DOMAIN buckets' : buckets'[x] = IF x = u THEN b ELSE buckets[x]
  BY DEF Store
<1>3. TypeOK'
  <2>1. buckets' \in [DOMAIN buckets' -> Bucket]
    BY <1>1 DEF Store, IInv, TypeOK
  <2>2. DOMAIN buckets' \subseteq Users
    BY <1>1 DEF IInv, TypeOK
  <2> QED
    BY <2>1, <2>2 DEF IInv, TypeOK
<1>4. BucketsSane'
  BY <1>1, <1>2 DEF IInv, TypeOK, BucketsSane, Bucket
<1>5. SweepKept'
  <2> SUFFICES ASSUME sweeping
               PROVE  /\ now <= sweepAt
                      /\ sweepAt <= now + EvictInterval
                      /\ \A x \in DOMAIN buckets' :
                           buckets'[x].lastUse >= sweepAt - EvictInterval - IdleTTL
    BY DEF SweepKept
  <2>1. now <= sweepAt /\ sweepAt <= now + EvictInterval
    BY DEF IInv, SweepKept
  <2>2. now >= sweepAt - EvictInterval - IdleTTL
    BY <2>1, LimiterAssumption DEF IInv, TypeOK
  <2> QED
    BY <1>1, <1>2, <2>1, <2>2 DEF IInv, SweepKept
<1> QED
  BY <1>3, <1>4, <1>5 DEF IInv

(* The bucket allow works on, old or new, is a sane one.                   *)
LEMMA BucketOfSane ==
  ASSUME IInv, NEW u \in Users
  PROVE  /\ BucketOf(u) \in Bucket
         /\ BucketOf(u).credit <= Cap
         /\ BucketOf(u).last <= BucketOf(u).lastUse
         /\ BucketOf(u).lastUse <= now
  BY CapPositive DEF IInv, TypeOK, BucketsSane, BucketOf, NewBucket, Bucket

LEMMA AllowKeeps == ASSUME IInv, NEW u \in Users, Allow(u) PROVE IInv'
<1> DEFINE b == [credit |-> Balance(BucketOf(u)) - Interval,
                 last |-> now, lastUse |-> now]
<1>1. Budget(u) \in Nat /\ Budget(u) <= Cap /\ Budget(u) >= Interval
  BY BudgetBounds DEF IInv, Allow, Budget
<1>2. b \in Bucket /\ b.credit <= Cap /\ b.last <= b.lastUse /\ b.lastUse = now
  BY <1>1, CapPositive, LimiterAssumption DEF IInv, TypeOK, Bucket, Budget
<1>3. spent' \in [Users -> Nat]
  BY LimiterAssumption DEF IInv, TypeOK, Allow
<1>4. verdict' \in [Users -> {"none", "allowed", "denied"}]
  BY DEF IInv, TypeOK, Allow
<1> QED
  BY <1>2, <1>3, <1>4, StoreKeeps DEF Allow

LEMMA RefuseKeeps == ASSUME IInv, NEW u \in Users, Refuse(u) PROVE IInv'
<1> DEFINE b == [BucketOf(u) EXCEPT !.lastUse = now]
<1>1. b \in Bucket /\ b.credit <= Cap /\ b.last <= b.lastUse /\ b.lastUse = now
  BY BucketOfSane DEF IInv, TypeOK, Bucket
<1>2. spent' \in [Users -> Nat]
  BY DEF IInv, TypeOK, Refuse
<1>3. verdict' \in [Users -> {"none", "allowed", "denied"}]
  BY DEF IInv, TypeOK, Refuse
<1> QED
  BY <1>1, <1>2, <1>3, StoreKeeps DEF Refuse

LEMMA EvictKeeps == ASSUME IInv, EvictIdle PROVE IInv'
<1>1. /\ DOMAIN buckets' = {x \in DOMAIN buckets : ~Idle(buckets[x])}
      /\ \A u \in DOMAIN buckets' : buckets'[u] = buckets[u]
  BY DEF EvictIdle
<1>2. TypeOK'
  <2>1. buckets' \in [DOMAIN buckets' -> Bucket]
    BY <1>1 DEF EvictIdle, IInv, TypeOK
  <2> QED
    BY <1>1, <2>1, LimiterAssumption DEF EvictIdle, IInv, TypeOK
<1>3. BucketsSane'
  BY <1>1 DEF EvictIdle, IInv, BucketsSane
<1>4. SweepKept'
  <2>1. \A u \in DOMAIN buckets' : buckets'[u].lastUse >= now - IdleTTL
    BY <1>1, LimiterAssumption DEF Idle, IInv, TypeOK, Bucket
  <2> QED
    BY <2>1, LimiterAssumption DEF EvictIdle, SweepKept, IInv, TypeOK
<1> QED
  BY <1>2, <1>3, <1>4 DEF IInv

LEMMA TickKeeps == ASSUME IInv, Tick PROVE IInv'
<1>1. TypeOK'
  BY DEF Tick, IInv, TypeOK
<1>2. BucketsSane'
  BY DEF Tick, IInv, TypeOK, BucketsSane, Bucket
<1>3. SweepKept'
  BY LimiterAssumption DEF Tick, IInv, TypeOK, SweepKept
<1> QED
  BY <1>1, <1>2, <1>3 DEF IInv

LEMMA StepKeeps == IInv /\ [Next]_vars => IInv'
<1> SUFFICES ASSUME IInv, [Next]_vars PROVE IInv'
  OBVIOUS
<1>1. CASE Tick
  BY <1>1, TickKeeps
<1>2. CASE EvictIdle
  BY <1>2, EvictKeeps
<1>3. CASE StopSweeper
  BY <1>3 DEF StopSweeper, IInv, TypeOK, BucketsSane, SweepKept
<1>4. ASSUME NEW u \in Users, Allow(u) \/ Refuse(u) PROVE IInv'
  BY <1>4, AllowKeeps, RefuseKeeps
<1>5. CASE UNCHANGED vars
  BY <1>5 DEF vars, IInv, TypeOK, BucketsSane, SweepKept
<1> QED
  BY <1>1, <1>2, <1>3, <1>4, <1>5 DEF Next

(* Every reachable state satisfies the inductive invariant.                *)
THEOREM Invariance == Spec => []IInv
<1> QED
  BY InitIInv, StepKeeps, PTL DEF Spec

(* Types are kept, whatever the limits are set to (limiter.go).            *)
THEOREM TypeCorrect == Spec => []TypeOK
<1>1. IInv => TypeOK
  BY DEF IInv
<1> QED
  BY <1>1, Invariance, PTL

(* Buckets are never overfull nor charged in the future (limiter.go).      *)
THEOREM BucketsStaySane == Spec => []BucketsSane
<1>1. IInv => BucketsSane
  BY DEF IInv
<1> QED
  BY <1>1, Invariance, PTL

(* While the sweeper runs the map holds no bucket that was idle for longer *)
(* than the TTL and one sweep (limiter.go, evictIdle; service.go,          *)
(* evictLoop).                                                             *)
THEOREM SweeperBoundsMemory == Spec => []IdleBucketsGo
<1>1. IInv => IdleBucketsGo
  <2> SUFFICES ASSUME IInv, sweeping, NEW u \in DOMAIN buckets
               PROVE  now - buckets[u].lastUse <= IdleTTL + EvictInterval
    BY DEF IdleBucketsGo
  <2>1. buckets[u].lastUse \in Nat /\ now \in Nat /\ sweepAt \in Nat
    BY DEF IInv, TypeOK, Bucket
  <2>2. now <= sweepAt /\ buckets[u].lastUse >= sweepAt - EvictInterval - IdleTTL
    BY DEF IInv, SweepKept
  <2> QED
    BY <2>1, <2>2, LimiterAssumption
<1> QED
  BY <1>1, Invariance, PTL

-----------------------------------------------------------------------------
(* Eviction is no refund, provided a bucket left alone for IdleTTL is full *)
(* again: UserBurst / UserRatePerHour <= 2 h in the code's terms.  The     *)
(* configuration does not enforce it.                                      *)

(* What each kind of step does to the budget of every user.                *)
LEMMA AllowBudget ==
  ASSUME IInv, NEW u \in Users, Allow(u), NEW x \in Users
  PROVE  Budget(x)' = IF x = u THEN Budget(x) - Interval ELSE Budget(x)
<1>1. CASE x = u
  <2>1. BucketOf(x)' = [credit |-> Budget(x) - Interval, last |-> now, lastUse |-> now]
    BY <1>1 DEF Allow, Store, BucketOf, Budget
  <2>2. Budget(x) \in Nat /\ Budget(x) <= Cap /\ Budget(x) >= Interval
    BY <1>1, BudgetBounds DEF IInv, Allow, Budget
  <2>3. now' = now /\ now \in Nat
    BY DEF Allow, IInv, TypeOK
  <2>4. Budget(x)' = Capped(Budget(x) - Interval + (now - now))
    BY <2>1, <2>3 DEF Budget, Balance, Capped
  <2> QED
    BY <1>1, <2>2, <2>3, <2>4, CapPositive, LimiterAssumption DEF Capped
<1>2. CASE x # u
  <2>1. (x \in DOMAIN buckets' <=> x \in DOMAIN buckets)
        /\ (x \in DOMAIN buckets => buckets'[x] = buckets[x])
    BY <1>2 DEF Allow, Store
  <2>2. now' = now
    BY DEF Allow
  <2> QED
    BY <1>2, <2>1, <2>2 DEF Budget, Balance, Capped, BucketOf, NewBucket
<1> QED
  BY <1>1, <1>2

LEMMA RefuseBudget ==
  ASSUME IInv, NEW u \in Users, Refuse(u), NEW x \in Users
  PROVE  Budget(x)' = Budget(x)
<1>1. now' = now
  BY DEF Refuse
<1>2. CASE x = u
  <2>1. /\ BucketOf(x)'.credit = BucketOf(x).credit
        /\ BucketOf(x)'.last = BucketOf(x).last
    BY <1>2, BucketOfSane DEF Refuse, Store, BucketOf, Bucket
  <2> QED
    BY <1>1, <2>1 DEF Budget, Balance, Capped
<1>3. CASE x # u
  <2>1. (x \in DOMAIN buckets' <=> x \in DOMAIN buckets)
        /\ (x \in DOMAIN buckets => buckets'[x] = buckets[x])
    BY <1>3 DEF Refuse, Store
  <2> QED
    BY <1>1, <2>1 DEF Budget, Balance, Capped, BucketOf, NewBucket
<1> QED
  BY <1>2, <1>3

(* A user without a bucket has a full budget.                              *)
LEMMA AbsentIsFull ==
  ASSUME IInv, NEW u \in Users, u \notin DOMAIN buckets
  PROVE  Budget(u) = Cap
  BY CapPositive DEF IInv, TypeOK, Budget, BucketOf, NewBucket, Balance, Capped

LEMMA EvictBudget ==
  ASSUME IdleTTL >= Cap, IInv, EvictIdle, NEW x \in Users
  PROVE  Budget(x)' = Budget(x)
<1>1. now' = now
  BY DEF EvictIdle
<1>2. CASE x \in DOMAIN buckets /\ Idle(buckets[x])
  <2>1. x \notin DOMAIN buckets'
    BY <1>2 DEF EvictIdle
  <2>2. Budget(x)' = Cap
    BY <1>1, <2>1, CapPositive
       DEF IInv, TypeOK, Budget, BucketOf, NewBucket, Balance, Capped
  <2>3. now - buckets[x].last > Cap
    BY <1>2, CapPositive, LimiterAssumption
       DEF Idle, IInv, TypeOK, BucketsSane, Bucket
  <2>4. Budget(x) = Cap
    BY <1>2, <2>3, CapPositive
       DEF IInv, TypeOK, Bucket, Budget, BucketOf, Balance, Capped
  <2> QED
    BY <2>2, <2>4
<1>3. CASE ~(x \in DOMAIN buckets /\ Idle(buckets[x]))
  <2>1. (x \in DOMAIN buckets' <=> x \in DOMAIN buckets)
        /\ (x \in DOMAIN buckets => buckets'[x] = buckets[x])
    BY <1>3 DEF EvictIdle
  <2> QED
    BY <1>1, <2>1 DEF Budget, Balance, Capped, BucketOf, NewBucket
<1> QED
  BY <1>2, <1>3

LEMMA TickBudget ==
  ASSUME IInv, Tick, NEW x \in Users
  PROVE  Budget(x)' = Capped(Budget(x) + 1)
<1>1. now' = now + 1 /\ buckets' = buckets /\ now \in Nat
  BY DEF Tick, IInv, TypeOK
<1>2. CASE x \in DOMAIN buckets
  <2>1. /\ buckets[x].credit \in Nat
        /\ buckets[x].last \in Nat
        /\ buckets[x].last <= now
    BY <1>1, <1>2 DEF IInv, TypeOK, BucketsSane, Bucket
  <2> QED
    BY <1>1, <1>2, <2>1, CapPositive DEF Budget, BucketOf, Balance, Capped
<1>3. CASE x \notin DOMAIN buckets
  BY <1>1, <1>3, CapPositive DEF Budget, BucketOf, NewBucket, Balance, Capped
<1> QED
  BY <1>2, <1>3

(* Budget grows only with time, however the sweeper and the requests       *)
(* interleave (limiter.go).                                                *)
THEOREM EvictionIsNoRefund ==
  ASSUME IdleTTL >= Cap
  PROVE  Spec => NoFreeTokens
<1>1. IInv /\ [Next]_vars =>
        [\A u \in Users :
           spent'[u] + Budget(u)' <= spent[u] + Budget(u) + (now' - now)]_vars
  <2> SUFFICES ASSUME IInv, Next, NEW x \in Users
               PROVE  spent'[x] + Budget(x)' <= spent[x] + Budget(x) + (now' - now)
    OBVIOUS
  <2>0. /\ Budget(x) \in Nat /\ Budget(x) <= Cap /\ Cap \in Nat
        /\ spent[x] \in Nat /\ now \in Nat /\ Interval \in Nat
    BY BudgetBounds, CapPositive, LimiterAssumption DEF IInv, TypeOK
  <2>1. CASE Tick
    <3>1. Budget(x)' <= Budget(x) + 1 /\ Budget(x)' \in Nat
      BY <2>0, <2>1, TickBudget DEF Capped
    <3> QED
      BY <2>0, <2>1, <3>1 DEF Tick
  <2>2. CASE EvictIdle
    BY <2>0, <2>2, EvictBudget DEF EvictIdle
  <2>3. CASE StopSweeper
    <3>1. Budget(x)' = Budget(x)
      BY <2>3 DEF StopSweeper, Budget, Balance, Capped, BucketOf, NewBucket
    <3> QED
      BY <2>0, <2>3, <3>1 DEF StopSweeper
  <2>4. ASSUME NEW u \in Users, Allow(u)
        PROVE  spent'[x] + Budget(x)' <= spent[x] + Budget(x) + (now' - now)
    <3>1. /\ spent'[x] = IF x = u THEN spent[x] + Interval ELSE spent[x]
          /\ now' = now
      BY <2>4 DEF Allow, IInv, TypeOK
    <3> QED
      BY <2>0, <2>4, <3>1, AllowBudget
  <2>5. ASSUME NEW u \in Users, Refuse(u)
        PROVE  spent'[x] + Budget(x)' <= spent[x] + Budget(x) + (now' - now)
    <3>1. Budget(x)' = Budget(x)
      BY <2>5, RefuseBudget
    <3> QED
      BY <2>0, <2>5, <3>1 DEF Refuse
  <2> QED
    BY <2>1, <2>2, <2>3, <2>4, <2>5 DEF Next
<1> QED
  BY <1>1, Invariance, PTL DEF NoFreeTokens, Spec

(* The limiter with its map, lazy buckets and sweeper implements the       *)
(* budget that knows of none of them (TokenBudget.tla).                    *)
THEOREM LimiterImplementsBudget ==
  ASSUME IdleTTL >= Cap
  PROVE  Spec => ImplementsBudget
<1> DEFINE Credit == [u \in Users |-> Budget(u)]
<1>1. Init => TB!Init
  BY CapPositive DEF Init, TB!Init, TB!Cap, Cap, Budget, BucketOf, NewBucket,
     Balance, Capped
<1>2. IInv /\ [Next]_vars => [TB!Next]_(TB!vars)
  <2> SUFFICES ASSUME IInv, [Next]_vars
               PROVE  TB!Next \/ UNCHANGED TB!vars
    OBVIOUS
  <2>1. CASE Tick
    <3>1. Credit' = [u \in Users |-> Capped(Credit[u] + 1)]
      BY <2>1, TickBudget
    <3>2. TB!Tick
      BY <2>1, <3>1 DEF Tick, TB!Tick, TB!Capped, TB!Cap, Capped, Cap
    <3> QED
      BY <3>2 DEF TB!Next
  <2>2. CASE EvictIdle
    <3>1. Credit' = Credit
      BY <2>2, EvictBudget
    <3> QED
      BY <2>2, <3>1 DEF EvictIdle, TB!vars
  <2>3. CASE StopSweeper
    <3>1. Credit' = Credit
      BY <2>3 DEF StopSweeper, Budget, Balance, Capped, BucketOf, NewBucket
    <3> QED
      BY <2>3, <3>1 DEF StopSweeper, TB!vars
  <2>4. ASSUME NEW u \in Users, Allow(u)
        PROVE  TB!Next
    <3>1. Credit' = [Credit EXCEPT ![u] = @ - Interval]
      BY <2>4, AllowBudget
    <3>2. TB!Grant(u)
      BY <2>4, <3>1 DEF Allow, TB!Grant, Budget
    <3> QED
      BY <3>2 DEF TB!Next
  <2>5. ASSUME NEW u \in Users, Refuse(u)
        PROVE  TB!Next
    <3>1. Credit' = Credit
      BY <2>5, RefuseBudget
    <3>2. TB!Deny(u)
      BY <2>5, <3>1 DEF Refuse, TB!Deny, Budget
    <3> QED
      BY <3>2 DEF TB!Next
  <2>6. CASE UNCHANGED vars
    <3>1. Credit' = Credit
      BY <2>6 DEF vars, Budget, Balance, Capped, BucketOf, NewBucket
    <3> QED
      BY <2>6, <3>1 DEF vars, TB!vars
  <2> QED
    BY <2>1, <2>2, <2>3, <2>4, <2>5, <2>6 DEF Next
<1> QED
  BY <1>1, <1>2, Invariance, PTL DEF ImplementsBudget, TB!Spec, Spec

-----------------------------------------------------------------------------
(* What the limit comes to over a stretch of time.  The stretch begins in  *)
(* a state in which the clock shows t and the user has spent s; both are   *)
(* arbitrary, so it may begin in any state of any behaviour.               *)

(* The other steps leave every budget alone.                               *)
LEMMA IdleStepBudget ==
  ASSUME StopSweeper \/ UNCHANGED vars, NEW x \in Users
  PROVE  /\ Budget(x)' = Budget(x)
         /\ spent' = spent
         /\ now' = now
  BY DEF StopSweeper, vars, Budget, Balance, Capped, BucketOf, NewBucket

(* BudgetBounds, for the state a step leads to.                            *)
LEMMA BudgetAfter == ASSUME IInv', NEW u \in Users PROVE Budget(u)' \in Nat
  BY CapPositive DEF IInv, TypeOK, BucketsSane, Budget, BucketOf, NewBucket,
     Balance, Capped, Bucket

(* Eviction never costs anybody anything, whatever the TTL: the bucket     *)
(* made anew is full.                                                      *)
LEMMA EvictRaises ==
  ASSUME IInv, EvictIdle, NEW x \in Users
  PROVE  Budget(x)' \in Nat /\ Budget(x)' >= Budget(x)
<1>1. now' = now
  BY DEF EvictIdle
<1>2. Budget(x) \in Nat /\ Budget(x) <= Cap
  BY BudgetBounds DEF IInv
<1>3. CASE x \in DOMAIN buckets'
  <2>1. x \in DOMAIN buckets /\ buckets'[x] = buckets[x]
    BY <1>3 DEF EvictIdle
  <2>2. Budget(x)' = Budget(x)
    BY <1>1, <1>3, <2>1 DEF Budget, Balance, Capped, BucketOf
  <2> QED
    BY <1>2, <2>2
<1>4. CASE x \notin DOMAIN buckets'
  <2>1. Budget(x)' = Cap
    BY <1>1, <1>4, CapPositive
       DEF IInv, TypeOK, Budget, BucketOf, NewBucket, Balance, Capped
  <2> QED
    BY <1>2, <2>1, CapPositive
<1> QED
  BY <1>3, <1>4

(* In any t ticks nobody is let through for more than a full bucket and    *)
(* what t ticks earn: at most UserBurst requests and UserRatePerHour an    *)
(* hour, however requests, refusals and sweeps interleave, provided        *)
(* eviction is no refund (limiter.go).                                     *)
THEOREM RateIsKept ==
  ASSUME IdleTTL >= Cap, NEW u \in Users, NEW s \in Nat, NEW t \in Nat
  PROVE  Spec => []((spent[u] = s /\ now = t)
                      => [](spent[u] - s <= Cap + (now - t)))
<1> DEFINE Start == spent[u] = s /\ now = t
           Left  == spent[u] + Budget(u) <= s + Cap + (now - t)
           Goal  == spent[u] - s <= Cap + (now - t)
<1>1. IInv /\ Start => Left
  BY BudgetBounds, CapPositive DEF IInv, TypeOK
<1>2. IInv /\ IInv' /\ Left /\ [Next]_vars => Left'
  <2> SUFFICES ASSUME IInv, IInv', Left, [Next]_vars PROVE Left'
    OBVIOUS
  <2>0. /\ Budget(u) \in Nat /\ Budget(u)' \in Nat /\ Cap \in Nat
        /\ spent[u] \in Nat /\ spent'[u] \in Nat /\ now \in Nat /\ now' \in Nat
        /\ Interval \in Nat
    BY BudgetBounds, BudgetAfter, CapPositive, LimiterAssumption DEF IInv, TypeOK
  <2>1. CASE Tick
    <3>1. Budget(u)' <= Budget(u) + 1
      BY <2>0, <2>1, TickBudget DEF Capped
    <3> QED
      BY <2>0, <2>1, <3>1 DEF Tick
  <2>2. CASE EvictIdle
    BY <2>0, <2>2, EvictBudget DEF EvictIdle
  <2>3. CASE StopSweeper \/ UNCHANGED vars
    BY <2>0, <2>3, IdleStepBudget
  <2>4. ASSUME NEW v \in Users, Allow(v) PROVE Left'
    <3>1. /\ spent'[u] = IF u = v THEN spent[u] + Interval ELSE spent[u]
          /\ now' = now
      BY <2>4 DEF Allow, IInv, TypeOK
    <3> QED
      BY <2>0, <2>4, <3>1, AllowBudget
  <2>5. ASSUME NEW v \in Users, Refuse(v) PROVE Left'
    <3>1. Budget(u)' = Budget(u)
      BY <2>5, RefuseBudget
    <3> QED
      BY <2>0, <2>5, <3>1 DEF Refuse
  <2> QED
    BY <2>1, <2>2, <2>3, <2>4, <2>5 DEF Next
<1>3. IInv /\ Left => Goal
  BY BudgetBounds, CapPositive DEF IInv, TypeOK
<1> HIDE DEF Start, Left, Goal
<1>4. Spec => [](Start => []Goal)
  BY <1>1, <1>2, <1>3, Invariance, PTL DEF Spec
<1> QED
  BY <1>4 DEF Start, Goal

(* Nobody within the rate is refused: who has been let through for nothing *)
(* in the last Interval ticks could be let through now, whatever was       *)
(* refused or swept meanwhile and whatever the TTL.  A refusal costs       *)
(* nothing, so asking again and again does not keep a user out             *)
(* (limiter.go, allow).                                                    *)
THEOREM SilenceEarns ==
  ASSUME NEW u \in Users, NEW s \in Nat, NEW t \in Nat
  PROVE  Spec => []((spent[u] = s /\ now = t)
                      => [](spent[u] = s /\ now >= t + Interval
                              => Budget(u) >= Interval))
<1> DEFINE Start  == spent[u] = s /\ now = t
           Earned == /\ now >= t /\ spent[u] >= s
                     /\ Budget(u) + (spent[u] - s) >= Capped(now - t)
           Goal   == spent[u] = s /\ now >= t + Interval => Budget(u) >= Interval
<1>1. IInv /\ Start => Earned
  BY BudgetBounds, CapPositive DEF IInv, TypeOK, Capped
<1>2. IInv /\ IInv' /\ Earned /\ [Next]_vars => Earned'
  <2> SUFFICES ASSUME IInv, IInv', Earned, [Next]_vars PROVE Earned'
    OBVIOUS
  <2>0. /\ Budget(u) \in Nat /\ Budget(u)' \in Nat /\ Cap \in Nat
        /\ spent[u] \in Nat /\ spent'[u] \in Nat /\ now \in Nat /\ now' \in Nat
        /\ Interval \in Nat
    BY BudgetBounds, BudgetAfter, CapPositive, LimiterAssumption DEF IInv, TypeOK
  <2>1. CASE Tick
    <3>1. Budget(u)' = Capped(Budget(u) + 1) /\ now' = now + 1 /\ spent' = spent
      BY <2>1, TickBudget DEF Tick
    <3> QED
      BY <2>0, <3>1 DEF Capped
  <2>2. CASE EvictIdle
    <3>1. Budget(u)' >= Budget(u) /\ now' = now /\ spent' = spent
      BY <2>2, EvictRaises DEF EvictIdle
    <3> QED
      BY <2>0, <3>1 DEF Capped
  <2>3. CASE StopSweeper \/ UNCHANGED vars
    <3>1. Budget(u)' = Budget(u) /\ now' = now /\ spent' = spent
      BY <2>3, IdleStepBudget
    <3> QED
      BY <3>1 DEF Capped
  <2>4. ASSUME NEW v \in Users, Allow(v) PROVE Earned'
    <3>1. /\ spent'[u] = IF u = v THEN spent[u] + Interval ELSE spent[u]
          /\ now' = now
      BY <2>4 DEF Allow, IInv, TypeOK
    <3>2. Budget(u)' = IF u = v THEN Budget(u) - Interval ELSE Budget(u)
      BY <2>4, AllowBudget
    <3> QED
      BY <2>0, <3>1, <3>2 DEF Capped
  <2>5. ASSUME NEW v \in Users, Refuse(v) PROVE Earned'
    <3>1. Budget(u)' = Budget(u) /\ now' = now /\ spent' = spent
      BY <2>5, RefuseBudget DEF Refuse
    <3> QED
      BY <3>1 DEF Capped
  <2> QED
    BY <2>1, <2>2, <2>3, <2>4, <2>5 DEF Next
<1>3. IInv /\ Earned => Goal
  BY BudgetBounds, CapPositive, LimiterAssumption DEF IInv, TypeOK, Capped
<1> HIDE DEF Start, Earned, Goal
<1>4. Spec => [](Start => []Goal)
  BY <1>1, <1>2, <1>3, Invariance, PTL DEF Spec
<1> QED
  BY <1>4 DEF Start, Goal

-----------------------------------------------------------------------------
(* Whole tokens: what Submit sees of a budget.                             *)

LEMMA Multiples ==
  ASSUME NEW p \in Nat, NEW q \in Nat, NEW n \in Nat, p <= q
  PROVE  p * n <= q * n
<1>1. (q - p) * n >= 0 /\ (q - p) * n = q * n - p * n
  BY Z3
<1>2. p * n \in Nat /\ q * n \in Nat
  BY Z3
<1> QED
  BY <1>1, <1>2

(* A budget is worth q tokens when it pays for q requests and for no more. *)
LEMMA WorthIs ==
  ASSUME NEW c \in Nat, NEW q \in Nat, q * Interval <= c, c < (q + 1) * Interval
  PROVE  c \div Interval = q
<1> DEFINE p == c \div Interval
<1>1. p \in Nat /\ p * Interval <= c /\ c < (p + 1) * Interval
  BY LimiterAssumption, Z3
<1> HIDE DEF p
<1>2. ASSUME p < q PROVE FALSE
  <2>1. (p + 1) * Interval <= q * Interval
    BY <1>1, <1>2, Multiples, LimiterAssumption
  <2>2. (p + 1) * Interval \in Int /\ q * Interval \in Int
    BY <1>1, LimiterAssumption, Z3
  <2> QED
    BY <1>1, <2>1, <2>2
<1>3. ASSUME q < p PROVE FALSE
  <2>1. (q + 1) * Interval <= p * Interval
    BY <1>1, <1>3, Multiples, LimiterAssumption
  <2>2. (q + 1) * Interval \in Int /\ p * Interval \in Int
    BY <1>1, LimiterAssumption, Z3
  <2> QED
    BY <1>1, <2>1, <2>2
<1>4. p = q
  BY <1>1, <1>2, <1>3
<1> QED
  BY <1>4 DEF p

LEMMA Worth ==
  ASSUME NEW c \in Nat
  PROVE  \E q \in Nat : /\ c \div Interval = q
                        /\ q * Interval <= c /\ c < (q + 1) * Interval
<1>1. c \div Interval \in Nat /\ (c \div Interval) * Interval <= c
      /\ c < (c \div Interval + 1) * Interval
  BY LimiterAssumption, Z3
<1> QED
  BY <1>1

(* A request costs a token, and can be paid for exactly if there is one.   *)
LEMMA RequestIsAToken ==
  ASSUME NEW c \in Nat
  PROVE  /\ c >= Interval => /\ c \div Interval > 0
                             /\ (c - Interval) \div Interval = c \div Interval - 1
         /\ c < Interval => c \div Interval = 0
<1>1. PICK q \in Nat : /\ c \div Interval = q
                       /\ q * Interval <= c /\ c < (q + 1) * Interval
  BY Worth
<1>2. CASE c < Interval
  BY <1>2, WorthIs, LimiterAssumption
<1>3. CASE c >= Interval
  <2>1. q # 0
    BY <1>1, <1>3, LimiterAssumption
  <2>2. (q - 1) * Interval = q * Interval - Interval
        /\ (q + 1) * Interval = q * Interval + Interval /\ q * Interval \in Nat
    BY LimiterAssumption, Z3
  <2>3. c - Interval \in Nat /\ q - 1 \in Nat /\ (q - 1) + 1 = q
    BY <1>3, <2>1, LimiterAssumption
  <2>4. (q - 1) * Interval <= c - Interval /\ c - Interval < q * Interval
    BY <1>1, <2>2, LimiterAssumption
  <2>5. (c - Interval) \div Interval = q - 1
    BY <2>3, <2>4, WorthIs
  <2> QED
    BY <1>1, <1>3, <2>1, <2>5, LimiterAssumption
<1> QED
  BY <1>2, <1>3, LimiterAssumption

(* A tick earns a token at most, and none beyond the burst.                *)
LEMMA TickEarns ==
  ASSUME NEW c \in Nat, c <= Cap
  PROVE  /\ c \div Interval \in 0..Burst
         /\ \/ Capped(c + 1) \div Interval = c \div Interval
            \/ /\ c \div Interval < Burst
               /\ Capped(c + 1) \div Interval = c \div Interval + 1
<1>1. PICK q \in Nat : /\ c \div Interval = q
                       /\ q * Interval <= c /\ c < (q + 1) * Interval
  BY Worth
<1>2. /\ q * Interval \in Nat /\ (q + 1) * Interval = q * Interval + Interval
      /\ (q + 1 + 1) * Interval = q * Interval + Interval + Interval
  BY LimiterAssumption, Z3
<1>3. q <= Burst
  <2> SUFFICES ASSUME Burst + 1 <= q PROVE FALSE
    BY LimiterAssumption
  <2>1. (Burst + 1) * Interval <= q * Interval
    BY Multiples, LimiterAssumption
  <2>2. (Burst + 1) * Interval = Cap + Interval /\ Cap \in Nat
    BY LimiterAssumption, Z3 DEF Cap
  <2> QED
    BY <1>1, <1>2, <2>1, <2>2, LimiterAssumption
<1>4. CASE c = Cap
  BY <1>1, <1>3, <1>4, LimiterAssumption DEF Capped
<1>5. CASE c < Cap /\ c + 1 < (q + 1) * Interval
  <2>1. Capped(c + 1) = c + 1
    BY <1>5, CapPositive DEF Capped
  <2>2. (c + 1) \div Interval = q
    BY <1>1, <1>2, <1>5, WorthIs
  <2> QED
    BY <1>1, <1>3, <2>1, <2>2, LimiterAssumption
<1>6. CASE c < Cap /\ c + 1 = (q + 1) * Interval
  <2>1. Capped(c + 1) = c + 1
    BY <1>6, CapPositive DEF Capped
  <2>2. (c + 1) \div Interval = q + 1
    BY <1>2, <1>6, WorthIs, LimiterAssumption
  <2>3. q # Burst
    <3> SUFFICES ASSUME q = Burst PROVE FALSE
      OBVIOUS
    <3>1. q * Interval = Cap
      BY DEF Cap
    <3> QED
      BY <1>1, <1>6, <3>1, CapPositive
  <2> QED
    BY <1>1, <1>3, <2>1, <2>2, <2>3, LimiterAssumption
<1>7. c < (q + 1) * Interval => c + 1 < (q + 1) * Interval \/ c + 1 = (q + 1) * Interval
  BY <1>2, LimiterAssumption
<1> QED
  BY <1>1, <1>4, <1>5, <1>6, <1>7, CapPositive

(* Allow, Refuse, the clock and the sweeper do to the whole tokens what    *)
(* Tokens says: Submit's budgets in JobQueue are the limiter's, for every  *)
(* burst, rate and number of users, provided eviction is no refund.        *)
THEOREM LimiterAnswersByToken ==
  ASSUME IdleTTL >= Cap
  PROVE  Spec => AnswersByToken
<1>1. Init => TK!Init
  <2> SUFFICES ASSUME Init, NEW u \in Users PROVE Budget(u) \div Interval = Burst
    BY DEF TK!Init, Whole
  <2>1. Budget(u) = Cap
    BY CapPositive DEF Init, Budget, BucketOf, NewBucket, Balance, Capped
  <2>2. Burst * Interval <= Cap /\ Cap < (Burst + 1) * Interval
    <3>1. (Burst + 1) * Interval = Burst * Interval + Interval
      BY LimiterAssumption, Z3
    <3> QED
      BY <3>1, CapPositive, LimiterAssumption DEF Cap
  <2> QED
    BY <2>1, <2>2, CapPositive, WorthIs, LimiterAssumption
<1>2. ASSUME IInv, Next
      PROVE  /\ \A u \in Users : (Allow(u) => TK!Spend(u)) /\ (Refuse(u) => TK!Deny(u))
             /\ Tick => TK!Earn \/ UNCHANGED Whole
             /\ EvictIdle \/ StopSweeper => UNCHANGED Whole
  <2>0. \A u \in Users : Budget(u) \in Nat /\ Budget(u) <= Cap
    BY <1>2, BudgetBounds DEF IInv
  <2>1. ASSUME NEW u \in Users, Allow(u) PROVE TK!Spend(u)
    <3>1. Budget(u) >= Interval
      BY <2>1 DEF Allow, Budget
    <3>2. Whole[u] > 0 /\ (Budget(u) - Interval) \div Interval = Whole[u] - 1
      BY <2>0, <3>1, RequestIsAToken DEF Whole
    <3>3. \A x \in Users : Whole'[x] = IF x = u THEN Whole[x] - 1 ELSE Whole[x]
      BY <1>2, <2>1, <3>2, AllowBudget DEF Whole
    <3>4. Whole' = [Whole EXCEPT ![u] = @ - 1]
      BY <3>3 DEF Whole
    <3> QED
      BY <3>2, <3>4 DEF TK!Spend
  <2>2. ASSUME NEW u \in Users, Refuse(u) PROVE TK!Deny(u)
    <3>1. Whole[u] = 0
      BY <2>0, <2>2, RequestIsAToken DEF Refuse, Budget, Whole
    <3>2. Whole' = Whole
      BY <1>2, <2>2, RefuseBudget DEF Whole
    <3> QED
      BY <3>1, <3>2 DEF TK!Deny
  <2>3. ASSUME Tick PROVE TK!Earn \/ UNCHANGED Whole
    <3> DEFINE earners == {u \in Users : Whole'[u] # Whole[u]}
    <3>1. ASSUME NEW u \in Users
          PROVE  \/ Whole'[u] = Whole[u]
                 \/ Whole[u] < Burst /\ Whole'[u] = Whole[u] + 1
      BY <1>2, <2>0, <2>3, TickBudget, TickEarns DEF Whole
    <3>2. Whole' = [u \in Users |-> IF u \in earners THEN Whole[u] + 1 ELSE Whole[u]]
      BY <3>1 DEF Whole
    <3>3. earners \subseteq {u \in Users : Whole[u] < Burst}
      BY <3>1
    <3>4. CASE earners = {}
      BY <3>2, <3>4 DEF Whole
    <3>5. CASE earners # {}
      <4>1. earners \in (SUBSET {u \in Users : Whole[u] < Burst}) \ {{}}
        BY <3>3, <3>5
      <4> HIDE DEF earners
      <4> QED
        BY <3>2, <4>1 DEF TK!Earn
    <3> QED
      BY <3>4, <3>5
  <2>4. ASSUME EvictIdle \/ StopSweeper PROVE UNCHANGED Whole
    BY <1>2, <2>4, EvictBudget, IdleStepBudget DEF Whole
  <2> QED
    BY <2>1, <2>2, <2>3, <2>4
<1>3. IInv /\ [Next]_vars =>
        [/\ \A u \in Users : (Allow(u) => TK!Spend(u)) /\ (Refuse(u) => TK!Deny(u))
         /\ Tick => TK!Earn \/ UNCHANGED Whole
         /\ EvictIdle \/ StopSweeper => UNCHANGED Whole]_vars
  BY <1>2
<1> QED
  BY <1>1, <1>3, Invariance, PTL DEF AnswersByToken, Spec

=============================================================================
