\* Two processes overlap after an expired lease; three pages, two per run.
\* Providers may hang for ever, runs may crash, and the clock goes on.
SPECIFICATION FairSpec
CONSTANTS
  Runs = {r1, r2}
  Providers = {p1}
  NoRun = NoRun
  LastPage = 3
  PageBudget = 2
  LeaseTTL = 1
  Unmergeable <- PagesConflict
INVARIANTS LeaseExclusive LeaseHeldByRunning AcceptedPrefix RecordedOutcomeSaved CompletedRunSaved
PROPERTIES RunEnds AdmissionRecovers CountExactInTime ImplementsLedger
CHECK_DEADLOCK FALSE
