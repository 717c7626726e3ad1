SPECIFICATION LocalSpec
CONSTANTS
  Tasks = {p1}
  NoTask = none
  MaxRaises = 0
  PlanTasks = {p1}
  LastNode = 2
  Outcomes = {"completed", "review_required", "failed"}
  MaxFaults = 0
INVARIANT PlanEndsCompleted
CHECK_DEADLOCK FALSE
