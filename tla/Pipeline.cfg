\* Two requests of one user, one worker, a queue of one, a burst of one: the
\* second request waits, or finds no token or no room; one death.
SPECIFICATION PSpec
CONSTANTS
  v1 = v1
  j1 = j1
  j2 = j2
  alice = alice
  Jobs = {j1, j2}
  Users = {alice}
  UserOf <- OneUser
  Workers = {w1}
  QueueSize = 1
  Burst = 1
  NoJob = NoJob
  Videos = {v1}
  Unplayable = {}
  Faults = {}
  MaxDeaths = 1
  NoVideo = NoVideo
  NoFile = NoFile
  NoRow = NoRow
SYMMETRY Symmetry
PROPERTIES
  ImplementsSongbot
