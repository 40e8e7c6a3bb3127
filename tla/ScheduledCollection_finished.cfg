\* A due row whose tender has closed in the meantime.
SPECIFICATION Spec
CONSTANTS
  Tenders = {t1}
  Period = 2
  Recheck = 1
  Lifetime = 2
  MaxActs = 4
  t1 = t1
PROPERTY FinishedNeverDrives
