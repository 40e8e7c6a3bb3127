\* A stopped collection against the message it shows.
SPECIFICATION Spec
CONSTANTS
  Runs = {r1}
  Providers = {p1}
  NoRun = NoRun
  LastPage = 2
  PageBudget = 2
  LeaseTTL = 1
  Unmergeable <- NoConflict
INVARIANT CancelledDataSaved
CHECK_DEADLOCK FALSE
