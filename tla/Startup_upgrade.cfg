\* One record and one without a tender, two backups, two faults, two requests of the user; safe mode after two crashes.
SPECIFICATION Spec
CONSTANTS
  Rows = {r1, r2}
  Orphans = {r2}
  KeepLast = 2
  MaxFaults = 2
  MaxUses = 2
  Threshold = 2
  MaxRecords = 3
INVARIANTS VersionTruthful
PROPERTIES RowsKept StartCompletes CrashLoopSeen
