\* Two enrolments, and a confirmation between its check and its transaction.
SPECIFICATION Spec
CONSTANTS
  u1 = u1  m1 = m1  a1 = a1  r1 = r1  r2 = r2
  NULL = NULL
  User = {u1}
  MagicLink = {m1}
  Assertion = {}
  Request = {r1}
  MaxSecrets = 2
  MaxBatches = 1
  MaxStep = 1
  MaxAttempts = 2
  MaxResets = 0
INVARIANT FactorIsItsOwners
