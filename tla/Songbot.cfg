\* Two requests for one worker and a line of one; Telegram and the
\* database may fail; one death.
SPECIFICATION FairSSpec
CONSTANTS
  v1 = v1
  live = live
  Jobs = {j1, j2}
  Videos = {v1, live}
  Unplayable = {live}
  PoolSize = 1
  QueueSize = 1
  Faults = {"telegram", "db"}
  MaxDeaths = 1
  NoVideo = NoVideo
  NoFile = NoFile
  NoRow = NoRow
INVARIANTS
  LineMatches
PROPERTIES
  StopMeansStop
  JobsSettle
  AcceptedIsAnswered
  PoolEnds
