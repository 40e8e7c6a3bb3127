\* Two providers, one of which may fail, hang or be refused while the other
\* works, in two runs one after the other; no run outlives its lease.
SPECIFICATION TimelySpec
CONSTANTS
  Runs = {r1, r2}
  Providers = {p1, p2}
  NoRun = NoRun
  LastPage = 2
  PageBudget = 2
  LeaseTTL = 1
  Unmergeable <- NoConflict
SYMMETRY RunSymmetry
INVARIANTS RecordedOutcomeSaved CompletedRunSaved CountExact
CHECK_DEADLOCK FALSE
