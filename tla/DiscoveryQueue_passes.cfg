\* Two passes over a queue of two rows, three identities, four discoveries.
SPECIFICATION Spec
CONSTANTS
  Items = {i1, i2, i3}
  i1 = i1
  i2 = i2
  i3 = i3
  Candidates = {"c1", "c2"}
  Officials = {"c1", "c2"}
  Decide <- Identity
  Verifiers = {v1, v2}
  v1 = v1
  v2 = v2
  MaxRecords = 2
  MaxAttempts = 2
  Limit = 2
  MaxEnqueues = 4
  None = None
INVARIANTS QueueBounded MatchSound AttemptsOwned
PROPERTIES ProtectedKept
CHECK_DEADLOCK FALSE
