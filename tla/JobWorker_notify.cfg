\* One process that is never stopped, and a job whose failure is to be reported.
SPECIFICATION FairWorkerSpec
CONSTANTS
  k1 = k1  k2 = k2  w1 = w1  w2 = w2  p1 = p1  p2 = p2
  notification = notification
  NULL = NULL
  JobId = {j1}
  Key = {k1}
  RetryKey = {r1}
  Worker = {w1}
  Service = {notification}
  TargetOf <- OneTarget
  PriorityOf <- SamePriority
  MaxAttemptsOf <- TwoEach
  ServiceOf <- OneService
  MaxAttempts = 2
  ClaimLimit = 1
  Lease = 1
  RunDelay = {0}
  RetryDelay = {1}
  MaxSkew = 0
  Retention = 1
  CleanupBatch = 1
  Process = {p1}
  IdOf <- OneProcess
  TypeLimit = 1
  Known <- BothKnow
  Notifies = {k1}
  Classify <- AlwaysRetryable
  MaxIncidents = 0
PROPERTIES
  FailureIsNotified
