\* One tick at a time, and a definition that changes while the tick is in progress.
SPECIFICATION Spec
CONSTANTS
  daily = daily  sparse = sparse  a1 = a1  a2 = a2  b1 = b1
  NULL = NULL
  TickRun = {a1}
  IdOf <- OneId
  Cron = {daily, sparse}
  Occurs <- Times
  CatchUpLimit = 2
  MaxOccurrenceScan = 9
  ScheduleLease = 1
  Horizon = 6
INVARIANTS
  LatestOccurrencesEmitted
