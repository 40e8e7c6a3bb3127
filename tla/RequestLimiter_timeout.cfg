\* An exchange that outlives the permit of its cancelled request.
SPECIFICATION Spec
CONSTANTS
  Requests = {r1, r2, r3}
  MaxConcurrent = 2
  Interval = 1
  DailyLimit = 2
  MaxAttempts = 2
  MaxDelay = 1
  r1 = r1
  r2 = r2
  r3 = r3
INVARIANTS ConcurrencyLimited
