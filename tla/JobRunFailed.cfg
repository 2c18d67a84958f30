\* One request and no fault: its time runs out between delivery and Save.
SPECIFICATION Spec
CONSTANTS
  v1 = v1
  v2 = v2
  live = live
  Jobs = {j1}
  Videos = {v1, live}
  Unplayable = {live}
  PoolSize = 1
  Faults = {}
  MaxDeaths = 0
  NoVideo = NoVideo
  NoFile = NoFile
  NoRow = NoRow
INVARIANTS
  FailureMeansNothingSent
