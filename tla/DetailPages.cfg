CONSTANTS
  Scenarios <- ScenariosMC
  MaxDeliveries = 2
SPECIFICATION Spec
INVARIANT TypeOK
INVARIANT PlanFillsTarget
INVARIANT EvidenceIsBacked
INVARIANT PackagingRotates
INVARIANT EveryCallIsAnchored
INVARIANT CompletedShowsAllPages
INVARIANT BundleIsCurrent
