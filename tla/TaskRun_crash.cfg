SPECIFICATION FairSpec
CONSTANTS
  Tasks = {t1, p1}
  NoTask = none
  Workers = {w1}
  PlanTasks = {p1}
  LastNode = 3
  PromptNode = 1
  RenderNode = 2
  Shots = 1
  Outcomes = {"completed", "review_required"}
  MaxRetries = 1
  MaxCrashes = 2
  MaxLosses = 0
  MaxFaults = 0
INVARIANT MirrorAgreesAtRest
INVARIANT RetriesBeforeFailure
PROPERTY EveryTaskSettles
CHECK_DEADLOCK FALSE
