\* Three ticks, two of them under one id, overlap, fail and outlive the lease; the
\* schedule is disabled and enabled by instances that start.
SPECIFICATION FairSpec
CONSTANTS
  daily = daily  sparse = sparse  a1 = a1  a2 = a2  b1 = b1
  NULL = NULL
  TickRun = {a1, a2, b1}
  IdOf <- Ids
  Cron = {daily}
  Occurs <- OnlyDaily
  CatchUpLimit = 2
  MaxOccurrenceScan = 9
  ScheduleLease = 1
  Horizon = 6
INVARIANTS
  SchedulerTypeOK
  LatestOccurrencesEmitted
PROPERTIES
  ScheduleSettles
