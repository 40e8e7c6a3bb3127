\* A provider that waits for a permit until the deadline, run after run.
SPECIFICATION Spec
CONSTANTS
  Providers = {p1, p2}
  TokenProviders = {}
  Threshold = 2
  Unavailable = 3
  Cooldown = 1
  Permits = 1
  Window = 4
INVARIANT RefusedAfterErrors
CHECK_DEADLOCK FALSE
