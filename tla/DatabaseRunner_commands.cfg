\* Five commands of any kind, one of them from an older release and one in
\* production, that fail or die anywhere.
SPECIFICATION Spec
CONSTANTS
  r1 = r1  r2 = r2  r3 = r3  r4 = r4  r5 = r5
  m1 = m1  m2 = m2  m3 = m3  s1 = s1  s2 = s2
  auth = auth  user = user  c1 = c1  c2 = c2
  NULL = NULL
  Runner = {r1, r2, r3, r4, r5}
  Migration = {m1, m2, m3}
  Seed = {s1, s2}
  Scope = {auth, user}
  Checksum = {c1, c2}
  Number <- NumberOf
  ScopeOf <- Scopes
  Fixture = {s2}
  Release <- OldAndNew
  Production = {r4}
  MaxSteps = 2
INVARIANTS
  RunnerTypeOK
  BatchIsOneCommand
PROPERTIES
  AppliedInOrder
  SeededOnItsSchema
SYMMETRY RunnerSymmetry
CHECK_DEADLOCK FALSE
