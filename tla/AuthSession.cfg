CONSTANTS
  Tabs = {t1, t2}
  Users = {"ann"}
  Setups <- SetupsMC
SPECIFICATION Spec
SYMMETRY TabSymmetry
INVARIANT ChainForksOnlyInRaces
INVARIANT CookieIsLive
INVARIANT LimiterIsExact
CHECK_DEADLOCK FALSE
