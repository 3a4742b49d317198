----------------------------- MODULE TotpFactor -----------------------------
(***************************************************************************)
(* The second factor of the auth service: the TOTP credential of a user,   *)
(* its recovery codes, and what it means to present a factor.  A secret    *)
(* and a batch of recovery codes are numbers in the order they were made;  *)
(* a batch has one code here, since codes of a batch are used one by one.  *)
(* A TOTP code is the number of the time step it is for.                   *)
(***************************************************************************)
EXTENDS Naturals

CONSTANTS
  User,
  NULL,
  MaxSecrets,  \* bound: enrolments
  MaxBatches,  \* bound: batches of recovery codes
  MaxStep      \* bound: time steps

\* A row of totp_credentials.
CredentialType ==
  [secret : Nat, confirmed : BOOLEAN, last_used_step : Nat \cup {NULL}]

ASSUME FactorAssumption ==
  /\ MaxSecrets \in Nat /\ MaxBatches \in Nat /\ MaxStep \in Nat \ {0}
  /\ NULL \notin Nat /\ NULL \notin CredentialType

VARIABLES
  credential,  \* totp_credentials: by user, or NULL
  recovery,    \* totp_recovery_codes: by user, the codes not used yet
  secrets,     \* secrets made so far
  batches,     \* batches of recovery codes made so far
  step,        \* the time step it is now: totp.counter()
  spent,       \* history: factors and tokens that were accepted
  respent      \* history: those accepted again

factorVars == <<credential, recovery, secrets, batches, step>>

-----------------------------------------------------------------------------
\* What a person types in: a code of some secret for a step of the window
\* validate allows, a recovery code, or anything else.
TotpCode(secret, at) == [kind |-> "totp", of |-> secret, at |-> at]
RecoveryCode(batch) == [kind |-> "recovery", of |-> batch, at |-> 0]
WrongCode == [kind |-> "wrong", of |-> 0, at |-> 0]

TotpCodes == {TotpCode(secret, at) : secret \in 1 .. secrets, at \in step - 1 .. step + 1}
Factors == TotpCodes \cup {RecoveryCode(batch) : batch \in 1 .. batches} \cup {WrongCode}

Confirmed(u) == credential[u] # NULL /\ credential[u].confirmed

\* totpCheck: the code is one of the secret's, whenever it was used last.
Matches(u, factor) == factor.kind = "totp" /\ factor.of = credential[u].secret

\* Mutation of Newer: a code of the last step is still good.
NotOlder(u, at) == credential[u].last_used_step = NULL \/ at >= credential[u].last_used_step

Newer(u, at) == credential[u].last_used_step = NULL \/ at > credential[u].last_used_step

\* The factor is accepted: a code of a newer step, or an unused recovery code.
Accepts(u, factor) ==
  \/ Matches(u, factor) /\ Newer(u, factor.at)
  \/ factor.kind = "recovery" /\ factor.of \in recovery[u]

Spend(P) ==
  /\ spent' = spent \cup P
  /\ respent' = respent \cup (P \cap spent)

\* The accepted factor is used up: last_used_step, or used_at of the code.
UseFactor(u, factor) ==
  IF factor.kind = "totp"
  THEN /\ credential' = [credential EXCEPT ![u].last_used_step = factor.at]
       /\ UNCHANGED recovery
  ELSE /\ recovery' = [recovery EXCEPT ![u] = @ \ {factor.of}]
       /\ UNCHANGED credential

Unconfirmed(secret) == [secret |-> secret, confirmed |-> FALSE, last_used_step |-> NULL]

\* DELETE and INSERT of the recovery codes.
NewRecoveryCodes(u) ==
  /\ batches < MaxBatches
  /\ batches' = batches + 1
  /\ recovery' = [recovery EXCEPT ![u] = {batches + 1}]

FactorInit ==
  /\ credential = [u \in User |-> NULL]
  /\ recovery = [u \in User |-> {}]
  /\ secrets = 0 /\ batches = 0 /\ step = 1
  /\ spent = {} /\ respent = {}

FactorTypeOK ==
  /\ credential \in [User -> CredentialType \cup {NULL}]
  /\ \A u \in User : credential[u] # NULL =>
       /\ credential[u].secret \in 1 .. secrets
       /\ credential[u].last_used_step \in (0 .. MaxStep + 1) \cup {NULL}
  /\ recovery \in [User -> SUBSET (1 .. batches)]
  /\ secrets \in 0 .. MaxSecrets /\ batches \in 0 .. MaxBatches /\ step \in 1 .. MaxStep
=============================================================================
