\* The same user and tokens with two secrets: two enrolments may be on their way
\* at once, and a factor is confirmed, replaced by an enrolment that began
\* earlier, given up, and confirmed again while a first factor is between its
\* reading and its commit.
SPECIFICATION Spec
SYMMETRY Symmetry
CONSTANTS
  u1 = u1  m1 = m1  a1 = a1  r1 = r1  r2 = r2
  NULL = NULL
  User = {u1}
  MagicLink = {m1}
  Assertion = {a1}
  Request = {r1}
  MaxSecrets = 2
  MaxBatches = 2
  MaxStep = 1
  MaxAttempts = 1
  MaxResets = 1
INVARIANTS
  NothingSpentTwice
  SecondFactorEnforced
