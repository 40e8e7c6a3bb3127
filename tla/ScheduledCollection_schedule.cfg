\* One tender, a slot every two ticks, up to four clicks, closes and crashes.
SPECIFICATION FairSpec
CONSTANTS
  Tenders = {t1}
  Period = 2
  Recheck = 1
  Lifetime = 2
  MaxActs = 4
  t1 = t1
INVARIANTS OneRun ScheduleOwnsItsRun
PROPERTIES StopSticks DueIsServed CollectorFreed
