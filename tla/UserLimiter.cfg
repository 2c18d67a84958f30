\* One tick is half an hour: USER_RATE_PER_HOUR = 1, USER_BURST = 2, the 2 h TTL
\* and the 30 min sweep of the code.  A spent bucket takes Cap = 4 ticks to fill
\* up, exactly the TTL: the boundary at which eviction is still harmless.
SPECIFICATION Spec
CONSTANTS
  Users = {alice, bob}
  Burst = 2
  Interval = 2
  IdleTTL = 4
  EvictInterval = 1
  MaxTime = 9
SYMMETRY Symmetry
INVARIANTS
  IdleBucketsGo
PROPERTIES
  NoFreeTokens
  ImplementsBudget
  AnswersByToken
