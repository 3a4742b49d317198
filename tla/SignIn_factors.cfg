\* One user with a login token and a passkey challenge: two first factors, two
\* challenges and sessions may be there at once, and a session beside a
\* challenge, with two confirmations beside them; two time steps with their
\* neighbours are four codes of the one secret, and of two wrong codes only the
\* second closes a challenge.
SPECIFICATION Spec
SYMMETRY Symmetry
CONSTANTS
  u1 = u1  m1 = m1  a1 = a1  r1 = r1  r2 = r2
  NULL = NULL
  User = {u1}
  MagicLink = {m1}
  Assertion = {a1}
  Request = {r1, r2}
  MaxSecrets = 1
  MaxBatches = 2
  MaxStep = 2
  MaxAttempts = 2
  MaxResets = 1
INVARIANTS
  SignInTypeOK
  NothingSpentTwice
  GuessesBounded
  ResetCutsOff
