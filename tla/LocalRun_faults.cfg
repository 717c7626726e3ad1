SPECIFICATION LocalFairSpec
CONSTANTS
  Tasks = {t1, t2, t3, p1}
  NoTask = none
  MaxRaises = 2
  PlanTasks = {p1}
  LastNode = 2
  Outcomes = {"completed", "review_required"}
  MaxFaults = 2
INVARIANT PositionCountsTasksAhead
INVARIANT FinishedTaskIsSettled
INVARIANT RowAgreesWhenFinished
PROPERTY PositionNeverGrows
PROPERTY ServesInOrder
PROPERTY ServedUnlessPublicationFails
CHECK_DEADLOCK FALSE
