\* Two requests for two songs and a live stream, two workers, every fault, and
\* one death of the process.
SPECIFICATION Spec
CONSTANTS
  v1 = v1
  v2 = v2
  live = live
  Jobs = {j1, j2}
  Videos = {v1, v2, live}
  Unplayable = {live}
  PoolSize = 2
  Faults = {"telegram", "not_audio", "db", "disk"}
  MaxDeaths = 1
  NoVideo = NoVideo
  NoFile = NoFile
  NoRow = NoRow
SYMMETRY Symmetry
INVARIANTS
  TypeOK
  RightSong
  DeliveredIsDone
  NobodyLeftWaiting
  ScratchIsRemoved
  RefusedUntransferred
PROPERTIES
  AbandonedOnlyWhenStopping
  ImplementsSongDelivery
