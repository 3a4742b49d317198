\* Two requests of one gateway, two instances of the access service and one user:
\* changes, events, losses and restarts fall between every two steps of a request.
SPECIFICATION Spec
CONSTANTS
  s1 = s1  s2 = s2  g1 = g1  a1 = a1  a2 = a2
  u1 = u1  p1 = p1  r1 = r1
  NULL = NULL
  User = {u1}
  Permission = {p1}
  AccessNamespace = {}
  JobsPermission = {}
  Request = {r1}
  DurableJobs = FALSE
  Instance = {a1, a2}
  Gateway = {g1}
  Slot = {s1, s2}
  GatewayOf <- OneGateway
  AccessTtl = 1
  GatewayTtl = 1
  MaxEntries = 1
  MaxLatency = 1
SYMMETRY InstanceSlotSymmetry
INVARIANTS
  CachesTypeOK
  StalenessBounded
  StalenessExplained
