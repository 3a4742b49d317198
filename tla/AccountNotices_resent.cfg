\* Two attempts send the same email: one is told that it was taken and completes the
\* job, the other is told of an error and marks the delivery as failed.
SPECIFICATION Spec
CONSTANTS
  u1 = u1  admin = admin  p1 = p1  r1 = r1  w1 = w1  w2 = w2  i1 = i1  i2 = i2
  NULL = NULL
  User = {u1}
  Actor = {u1, admin}
  Worker = {w1, w2}
  DurableJobs = TRUE
  Permission = {p1}
  AccessNamespace = {}
  JobsPermission = {p1}
  Request = {r1}
  Setting <- InAppSetting
  OccurredAtOf <- InstantOf
  Row <- StartRows
  MaxChanges = 1
INVARIANTS
  FailedWasNotSent
