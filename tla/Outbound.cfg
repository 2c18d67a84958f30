\* Two workers; the debt, at most six, stays below the gap and the timeout.
SPECIFICATION FairSpec
CONSTANTS
  Workers = {w1, w2}
  Burst = 2
  NotifyTicks = 6
  MinGap = 6
  Step = 2
  Top = 5
  Callbacks = 2
INVARIANTS
  TypeOK
  Paced
  ApologyHeard
  FewReports
  ReportsInOrder
PROPERTIES
  CallsGoOut
