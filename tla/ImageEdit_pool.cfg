SPECIFICATION Spec
CONSTANTS
  Edits = {e1, e2}
  NoEdit = none
  Workers = {w1, w2}
  Celery = TRUE
  MaxRetries = 1
  MaxCrashes = 1
  MaxLosses = 1
  MaxFaults = 1
INVARIANT VersionAboveSource
INVARIANT ResultMatchesFile
INVARIANT FailedEditHasNoResult
INVARIANT ResultsPerEdit
INVARIANT NoEditForgotten
CHECK_DEADLOCK FALSE
