SPECIFICATION FairSpec
CONSTANTS
  Tasks = {t1, p1}
  NoTask = none
  Workers = {w1, w2}
  PlanTasks = {p1}
  LastNode = 2
  PromptNode = 1
  RenderNode = 2
  Shots = 1
  Outcomes = {"completed", "review_required"}
  MaxRetries = 1
  MaxCrashes = 0
  MaxLosses = 0
  MaxFaults = 0
PROPERTY SuccessIsFinal
PROPERTY LedgerImplemented
CHECK_DEADLOCK FALSE
