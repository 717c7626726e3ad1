SPECIFICATION Spec
CONSTANTS
  Tasks = {t1}
  NoTask = none
  Workers = {w1, w2}
  PlanTasks = {}
  LastNode = 2
  PromptNode = 1
  RenderNode = 2
  Shots = 1
  Outcomes = {"completed", "review_required", "failed"}
  MaxRetries = 1
  MaxCrashes = 1
  MaxLosses = 1
  MaxFaults = 2
INVARIANT NoTaskForgotten
INVARIANT SuccessIsExported
INVARIANT AttemptBudget
CHECK_DEADLOCK FALSE
