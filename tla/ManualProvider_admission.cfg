\* Five edits of one registration around two tests, with one crash; the history
\* keeps one specification, so that clearing an adapter cuts it.
SPECIFICATION ManualSpec
CONSTANTS
  Contents = {a, b}
  a = a
  b = b
  HistoryLen = 1
  TTL = 1
  MaxEdits = 5
  MaxChecks = 2
  MaxClock = 1
  MaxCrashes = 1
  None = None
SYMMETRY ContentSymmetry
INVARIANTS ReadySinceEdit NoResurrection RunUsesTested
CHECK_DEADLOCK FALSE
