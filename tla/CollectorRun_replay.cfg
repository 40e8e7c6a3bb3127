\* A crash between a page commit and save_batch, then a second run.
SPECIFICATION TimelySpec
CONSTANTS
  Runs = {r1, r2}
  Providers = {p1}
  NoRun = NoRun
  LastPage = 2
  PageBudget = 2
  LeaseTTL = 1
  Unmergeable <- NoConflict
INVARIANT ReplaySkipsNothing
CHECK_DEADLOCK FALSE
