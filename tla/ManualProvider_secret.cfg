\* A credential replaced while a test is on its way, or just before a crash.
SPECIFICATION ManualSpec
CONSTANTS
  Contents = {a, b}
  a = a
  b = b
  HistoryLen = 1
  TTL = 1
  MaxEdits = 5
  MaxChecks = 2
  MaxClock = 1
  MaxCrashes = 1
  None = None
SYMMETRY ContentSymmetry
INVARIANTS ManualTypeOK SecretSinceCheck
CHECK_DEADLOCK FALSE
