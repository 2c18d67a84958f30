\* Three requests for a queue of two and a pool of two: the queue fills up and
\* keeps its order, workers compete, and a burst of one runs a user out of budget.
SPECIFICATION Spec
CONSTANTS
  j1 = j1
  j2 = j2
  j3 = j3
  alice = alice
  bob = bob
  Jobs = {j1, j2, j3}
  Users = {alice, bob}
  UserOf <- TwoUsers
  Workers = {w1, w2}
  QueueSize = 2
  Burst = 1
  NoJob = NoJob
SYMMETRY Symmetry
INVARIANTS
  TypeOK
  SubmitNeverBlocks
PROPERTIES
  ImplementsWorkQueue
