SPECIFICATION Spec
CONSTANTS
  Tasks = {t1}
  NoTask = none
  Workers = {w1}
  PlanTasks = {}
  LastNode = 2
  PromptNode = 1
  RenderNode = 2
  Shots = 1
  Outcomes = {"completed", "review_required"}
  MaxRetries = 1
  MaxCrashes = 0
  MaxLosses = 0
  MaxFaults = 1
INVARIANT QueuedMeansScheduled
CHECK_DEADLOCK FALSE
