\* The backup that the user chose, and the rotation of the safety copy.
SPECIFICATION Spec
CONSTANTS
  Rows = {r1}
  Orphans = {}
  KeepLast = 2
  MaxFaults = 2
  MaxUses = 2
  Threshold = 2
  MaxRecords = 3
INVARIANTS RestoreKeepsItsSource
