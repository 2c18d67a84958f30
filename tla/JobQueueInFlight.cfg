\* One user with USER_BURST = 1, refilled by time while the first request is
\* still being worked on.
SPECIFICATION Spec
CONSTANTS
  j1 = j1
  j2 = j2
  j3 = j3
  alice = alice
  bob = bob
  Jobs = {j1, j2}
  Users = {alice}
  UserOf <- OneUser
  Workers = {w1}
  QueueSize = 1
  Burst = 1
  NoJob = NoJob
INVARIANTS
  InFlightCapped
