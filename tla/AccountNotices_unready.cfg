\* A change is made of a user the notification service does not know yet: its job
\* is completed without a notification.
SPECIFICATION Spec
CONSTANTS
  u1 = u1  admin = admin  p1 = p1  r1 = r1  w1 = w1  w2 = w2  i1 = i1  i2 = i2
  NULL = NULL
  User = {u1}
  Actor = {u1, admin}
  Worker = {w1}
  DurableJobs = TRUE
  Permission = {}
  AccessNamespace = {}
  JobsPermission = {}
  Request = {r1}
  Setting <- InAppSetting
  OccurredAtOf <- InstantOf
  Row <- StartRows
  MaxChanges = 2
INVARIANTS
  UnknownIsRetried
