\* Two processes under one identity (the same pid in two containers), with two
\* slots each, so each may lose a job and win it back; the second is of a build
\* that does not know the job's contract.  Every job still ends.
SPECIFICATION FairWorkerSpec
CONSTANTS
  k1 = k1  k2 = k2  w1 = w1  w2 = w2  p1 = p1  p2 = p2
  notification = notification
  NULL = NULL
  JobId = {j1}
  Key = {k1}
  RetryKey = {r1}
  Worker = {w1}
  Service = {notification}
  TargetOf <- OneTarget
  PriorityOf <- SamePriority
  MaxAttemptsOf <- TwoEach
  ServiceOf <- OneService
  MaxAttempts = 2
  ClaimLimit = 2
  Lease = 1
  RunDelay = {0}
  RetryDelay = {1}
  MaxSkew = 0
  Retention = 1
  CleanupBatch = 1
  Process = {p1, p2}
  IdOf <- SharedId
  TypeLimit = 1
  Known <- OnlyFirstKnows
  Notifies = {k1}
  Classify <- AlwaysRetryable
  MaxIncidents = 1
INVARIANTS
  CompletedByItsHolder
  NotifiedOnlyIfEnded
  TypeLimitRespected
PROPERTIES
  EveryJobEnds
