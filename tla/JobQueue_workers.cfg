\* Two workers of one service compete for three rows, a worker of another service
\* has none; failures, releases, lost leases, late results and manual retries (also
\* of retries), with the jobs service's clock up to one unit off the database's.
SPECIFICATION Spec
CONSTANTS
  k1 = k1  k2 = k2  w1 = w1  w2 = w2  w3 = w3
  auth = auth  notification = notification
  NULL = NULL
  JobId = {j1, j2, j3}
  Key = {k1, k2}
  RetryKey = {r1}
  Worker = {w1, w2, w3}
  Service = {auth, notification}
  TargetOf <- ToNotification
  PriorityOf <- LowAndHigh
  MaxAttemptsOf <- TwoThenOne
  ServiceOf <- TwoAndOther
  MaxAttempts = 2
  ClaimLimit = 2
  Lease = 1
  RunDelay = {0, 1}
  RetryDelay = {1}
  MaxSkew = 1
  Retention = 1
  CleanupBatch = 2
INVARIANTS
  TypeOK
  RetryRequestsLinked
  LeaseMatchesStatus
  AttemptBudget
  AttemptLedger
PROPERTIES
  TerminalImmutable
  AttemptsAppendOnly
  ImplementsLifecycle
SYMMETRY JobAndWorkerSymmetry
