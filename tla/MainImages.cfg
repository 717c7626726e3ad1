CONSTANTS
  Requests <- RequestsMC
  DirectorAnswers <- DirectorAnswersMC
  RefineAnswers <- RefineAnswersMC
  MaxDeliveries = 2
SPECIFICATION Spec
INVARIANT TypeOK
INVARIANT RequestsFollowPolicy
INVARIANT PlanIsCurrent
INVARIANT OutcomeIsHonest
INVARIANT UsageMatchesCalls
