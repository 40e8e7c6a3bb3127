\* Two sources list one purchase with contradictory dates; no crash is needed.
SPECIFICATION Spec
CONSTANTS
  Runs = {r1}
  Providers = {p1, p2}
  NoRun = NoRun
  LastPage = 1
  PageBudget = 1
  LeaseTTL = 1
  Unmergeable <- ListingsConflict
INVARIANT CompletedItemsSaved
CHECK_DEADLOCK FALSE
