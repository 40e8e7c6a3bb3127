\* Three requests over two permits: two starts a day, one retry each.
SPECIFICATION FairSpec
CONSTANTS
  Requests = {r1, r2, r3}
  MaxConcurrent = 2
  Interval = 1
  DailyLimit = 2
  MaxAttempts = 2
  MaxDelay = 1
  r1 = r1
  r2 = r2
  r3 = r3
INVARIANTS PermitsConserved DailyBudget
PROPERTIES StartsSpaced RequestEnds
