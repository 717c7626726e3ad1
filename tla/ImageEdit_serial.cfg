SPECIFICATION FairSpec
CONSTANTS
  Edits = {e1, e2}
  NoEdit = none
  Workers = {w1}
  Celery = TRUE
  MaxRetries = 1
  MaxCrashes = 1
  MaxLosses = 1
  MaxFaults = 1
INVARIANT LatestIsLinked
PROPERTY EveryEditEnds
CHECK_DEADLOCK FALSE
