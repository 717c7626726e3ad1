CONSTANTS
  Tasks = {t1, t2}
  Scenarios <- ScenariosMC
SPECIFICATION Spec
INVARIANT IndexKeepsEveryTask
INVARIANT RowsNameThePictures
INVARIANT AnswersAreCoherent
INVARIANT PageShowsItsTask
CHECK_DEADLOCK FALSE
