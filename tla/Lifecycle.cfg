\* Two workers; everything that can fail may fail at any time.
SPECIFICATION FairSpec
CONSTANTS
  Workers = {w1, w2}
  Components = 3
INVARIANTS
  ErrsIsSafe
  DbOutlivesWorkers
  ExitTellsTheTruth
PROPERTIES
  CancelEnds
