\* A permission is granted to a user who is deleted before the job runs: the job is
\* completed without a notification and without a delivery that was skipped.
SPECIFICATION Spec
CONSTANTS
  u1 = u1  admin = admin  p1 = p1  r1 = r1  w1 = w1  w2 = w2  i1 = i1  i2 = i2
  NULL = NULL
  User = {u1}
  Actor = {u1, admin}
  Worker = {w1}
  DurableJobs = TRUE
  Permission = {p1}
  AccessNamespace = {}
  JobsPermission = {p1}
  Request = {r1}
  Setting <- InAppSetting
  OccurredAtOf <- InstantOf
  Row <- StartRows
  MaxChanges = 2
INVARIANTS
  InactiveIsSkipped
