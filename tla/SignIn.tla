------------------------------- MODULE SignIn -------------------------------
(***************************************************************************)
(* Signing in at the auth service: a first factor (a magic link or a       *)
(* passkey assertion, each good for one use) leads to a session, or to an  *)
(* MFA challenge when the user has or needs a second factor; the challenge *)
(* leads to a session by a second factor, or by enrolling one.  Meanwhile  *)
(* users enrol, disable and renew their factors, operators reset them, and *)
(* the user service deactivates users or requires a second factor.         *)
(*                                                                         *)
(* A transaction that holds the rows it has read is one step, its commit.  *)
(* Three things are not: a first factor reads the second one's state       *)
(* without a lock (FirstFactor, Complete); enrolling finds no row to lock  *)
(* and inserts it later (Enroll, InsertEnrollment); and the code that      *)
(* confirms an enrolment is checked before the transaction (CheckCode,     *)
(* Confirm).  Of each there may be several on their way, of one user too.  *)
(* A token or challenge may expire at any time, which is the same as being *)
(* used; a challenge is named after its token.                             *)
(***************************************************************************)
EXTENDS TotpFactor, FiniteSets

CONSTANTS
  MagicLink,    \* login tokens
  Request,      \* confirmations: as many as may be on their way at once
  Assertion,    \* WebAuthn challenges of type 'authentication'
  MaxAttempts,  \* 5, the wrong codes a challenge takes
  MaxResets     \* bound: resets of a user

\* What a first factor on its way has read, and since which reset; overtaken is
\* history.
FlowType == [user : User, enabled : BOOLEAN, required : BOOLEAN, after : Nat, overtaken : BOOLEAN]

ASSUME SignInAssumption ==
  /\ NULL \notin FlowType
  /\ MaxAttempts \in Nat \ {0} /\ MaxResets \in Nat
  /\ MagicLink \cap Assertion = {} /\ NULL \notin User \cup MagicLink \cup Assertion

VARIABLES
  active,         \* by user: not suspended, blocked or deleted
  totp_required,  \* by user: totp_required_at is set
  token,          \* by token: free, issued, taken or used
  owner,          \* by token: the user of a login token
  flow,           \* by token: what its transaction has read, or NULL
  challenge,      \* mfa_challenges: by token, or NULL
  sessions,       \* sessions that are not revoked
  enrolling,      \* by user: the secrets of insertions to come
  confirming,     \* confirmations between the check and the transaction
  resets,         \* history, by user: resets so far
  protected       \* history: users who confirmed a factor, did not disable it
                  \* and were not reset

signInVars == <<active, totp_required, token, owner, flow, challenge, sessions,
                enrolling, confirming, resets, protected>>
vars == <<credential, recovery, secrets, batches, step, spent, respent,
          active, totp_required, token, owner, flow, challenge, sessions,
          enrolling, confirming, resets, protected>>

-----------------------------------------------------------------------------
Token == MagicLink \cup Assertion
Used(kind, t) == [kind |-> kind, of |-> t, at |-> 0]

Usable(t, purpose) ==
  /\ challenge[t] # NULL
  /\ challenge[t].purpose = purpose
  /\ ~challenge[t].used
  /\ challenge[t].attempts < MaxAttempts

\* A second factor is due: there is one, or one is required.
Due(u) == Confirmed(u) \/ totp_required[u]

SignedIn(u) == active[u] /\ \E s \in sessions : s.user = u

\* resolveTotpActor: a session, or a challenge to enrol.
MayEnroll(u) ==
  /\ active[u]
  /\ \/ \E s \in sessions : s.user = u
     \/ \E t \in Token : Usable(t, "enroll") /\ challenge[t].user = u

\* A session, and what the history has to say about it: the reset its first
\* factor came after, and whether a second factor was due and not asked for.
Session(u, t, after, bare) == [user |-> u, token |-> t, after |-> after, bare |-> bare]

FlowsOf(u) == {t \in Token : flow[t] # NULL /\ flow[t].user = u}

\* Who has a second factor, or needs one, from now on: noted at the first factors
\* on their way.
Overtake(u) ==
  flow' = [t \in Token |-> IF t \in FlowsOf(u) THEN [flow[t] EXCEPT !.overtaken = TRUE]
                           ELSE flow[t]]

Init ==
  /\ FactorInit
  /\ active = [u \in User |-> TRUE]
  /\ totp_required = [u \in User |-> FALSE]
  /\ token = [t \in Token |-> "free"] /\ owner = [t \in Token |-> NULL]
  /\ flow = [t \in Token |-> NULL] /\ challenge = [t \in Token |-> NULL]
  /\ sessions = {}
  /\ enrolling = [u \in User |-> {}] /\ confirming = {}
  /\ resets = [u \in User |-> 0] /\ protected = {}

-----------------------------------------------------------------------------
\* The first factor.

\* issueMagicLink and issueInvitationLink, to an active user.
IssueMagicLink(t, u) ==
  /\ t \in MagicLink /\ token[t] = "free" /\ active[u]
  /\ token' = [token EXCEPT ![t] = "issued"]
  /\ owner' = [owner EXCEPT ![t] = u]
  /\ UNCHANGED <<factorVars, spent, respent, active, totp_required, flow, challenge, sessions,
                 enrolling, confirming, resets, protected>>

IssueAssertion(t) ==
  /\ t \in Assertion /\ token[t] = "free"
  /\ token' = [token EXCEPT ![t] = "issued"]
  /\ UNCHANGED <<factorVars, spent, respent, active, totp_required, owner, flow, challenge,
                 sessions, enrolling, confirming, resets, protected>>

\* The token expires or is replaced by a newer invitation, or the assertion it
\* is used for is rejected.
LapseToken(t) ==
  /\ token[t] = "issued"
  /\ token' = [token EXCEPT ![t] = "used"]
  /\ UNCHANGED <<factorVars, spent, respent, active, totp_required, owner, flow, challenge,
                 sessions, enrolling, confirming, resets, protected>>

\* Mutation of Takeable: used_at is not looked at.
TakeableUsed(t, u) == token[t] \notin {"free", "taken"} /\ owner[t] \in {u, NULL} /\ active[u]

Takeable(t, u) == token[t] = "issued" /\ owner[t] \in {u, NULL} /\ active[u]

\* consumeMagicToken and authenticate up to the reading of the user's row.
FirstFactor(t, u) ==
  /\ Takeable(t, u)
  /\ token' = [token EXCEPT ![t] = "taken"]
  /\ flow' = [flow EXCEPT ![t] = [user |-> u, enabled |-> Confirmed(u),
                                  required |-> totp_required[u],
                                  after |-> resets[u], overtaken |-> FALSE]]
  /\ UNCHANGED <<factorVars, spent, respent, active, totp_required, owner, challenge, sessions,
                 enrolling, confirming, resets, protected>>

\* Mutation of SecondFactorDue: the requirement is enough, the credential is not.
SecondFactorRequired(read) == read.required

SecondFactorDue(read) == read.enabled \/ read.required

\* completeFirstFactor: a challenge or a session, and the commit.
Complete(t) ==
  /\ flow[t] # NULL
  /\ LET read == flow[t] IN
     IF SecondFactorDue(read)
     THEN /\ challenge' = [challenge EXCEPT ![t] =
               [user |-> read.user, purpose |-> IF read.enabled THEN "login" ELSE "enroll",
                attempts |-> 0, failed |-> 0, used |-> FALSE, after |-> read.after]]
          /\ UNCHANGED sessions
     ELSE /\ sessions' = sessions \cup
               {Session(read.user, t, read.after,
                        Due(read.user) /\ ~read.overtaken)}
          /\ UNCHANGED challenge
  /\ token' = [token EXCEPT ![t] = "used"]
  /\ flow' = [flow EXCEPT ![t] = NULL]
  /\ Spend({Used("token", t)})
  /\ UNCHANGED <<factorVars, active, totp_required, owner,
                 enrolling, confirming, resets, protected>>

\* The transaction is rolled back: the token was not used.
RollBack(t) ==
  /\ flow[t] # NULL
  /\ token' = [token EXCEPT ![t] = "issued"]
  /\ flow' = [flow EXCEPT ![t] = NULL]
  /\ UNCHANGED <<factorVars, spent, respent, active, totp_required, owner, challenge, sessions,
                 enrolling, confirming, resets, protected>>

-----------------------------------------------------------------------------
\* The second factor.

\* Mutation of WrongGuess: the attempts are written back as they were read.
WrongGuessUncounted(c) == [c EXCEPT !.failed = @ + 1]

\* attempts + 1, and at the last one the challenge counts as used.
WrongGuess(c) ==
  [c EXCEPT !.attempts = @ + 1, !.used = c.attempts + 1 >= MaxAttempts, !.failed = @ + 1]

\* verifyChallenge; without a confirmed credential or with an inactive user it
\* changes nothing.
Verify(t, factor) ==
  /\ Usable(t, "login")
  /\ LET c == challenge[t]  u == c.user IN
     /\ Confirmed(u) /\ active[u]
     /\ IF Accepts(u, factor)
        THEN /\ challenge' = [challenge EXCEPT ![t].used = TRUE]
             /\ UseFactor(u, factor)
             /\ sessions' = sessions \cup {Session(u, t, c.after, FALSE)}
             /\ Spend({factor, Used("challenge", t)})
        ELSE /\ challenge' = [challenge EXCEPT ![t] = WrongGuess(c)]
             /\ UNCHANGED <<credential, recovery, sessions, spent, respent>>
  /\ UNCHANGED <<secrets, batches, step, active, totp_required, token, owner, flow,
                 enrolling, confirming, resets, protected>>

\* disable: the credential and the codes go.
Disable(u, factor) ==
  /\ SignedIn(u) /\ Confirmed(u) /\ Accepts(u, factor)
  /\ credential' = [credential EXCEPT ![u] = NULL]
  /\ recovery' = [recovery EXCEPT ![u] = {}]
  /\ Spend({factor})
  /\ protected' = protected \ {u}
  /\ UNCHANGED <<secrets, batches, step, active, totp_required, token, owner, flow, challenge,
                 sessions, enrolling, confirming, resets>>

\* regenerateRecoveryCodes takes a TOTP code only.
RegenerateRecoveryCodes(u, factor) ==
  /\ SignedIn(u) /\ Confirmed(u) /\ factor.kind = "totp" /\ Accepts(u, factor)
  /\ credential' = [credential EXCEPT ![u].last_used_step = factor.at]
  /\ NewRecoveryCodes(u)
  /\ Spend({factor})
  /\ UNCHANGED <<secrets, step, signInVars>>

-----------------------------------------------------------------------------
\* Enrolling.

\* enroll and saveEnrollment: an unconfirmed row is locked and replaced; without
\* a row there is nothing to lock, and the insertion comes later.
Enroll(u) ==
  /\ MayEnroll(u) /\ ~Confirmed(u)
  /\ secrets < MaxSecrets
  /\ secrets' = secrets + 1
  /\ IF credential[u] = NULL
     THEN /\ enrolling' = [enrolling EXCEPT ![u] = @ \cup {secrets + 1}]
          /\ UNCHANGED credential
     ELSE /\ credential' = [credential EXCEPT ![u] = Unconfirmed(secrets + 1)]
          /\ UNCHANGED enrolling
  /\ UNCHANGED <<recovery, batches, step, spent, respent, active, totp_required, token, owner,
                 flow, challenge, sessions, confirming, resets, protected>>

\* INSERT ... ON CONFLICT (user_id) DO UPDATE: a credential that was enrolled and
\* even confirmed meanwhile is replaced by one that is not confirmed.
InsertEnrollment(u, secret) ==
  /\ secret \in enrolling[u]
  /\ credential' = [credential EXCEPT ![u] = Unconfirmed(secret)]
  /\ enrolling' = [enrolling EXCEPT ![u] = @ \ {secret}]
  /\ UNCHANGED <<recovery, secrets, batches, step, spent, respent, active, totp_required, token,
                 owner, flow, challenge, sessions, confirming, resets, protected>>

\* The MFA cookie a request carries, if it has one.  With a cookie of a challenge
\* that is of the other purpose or used up by now the confirmation is refused
\* whatever happens, which is GiveUpConfirming of a request without one.
Cookies == {NULL} \cup {t \in Token : Usable(t, "enroll")}

\* confirmEnrollment of the service: the code is checked against the credential
\* as it is now; r tells this confirmation from the others on their way.
CheckCode(r, u, factor, t) ==
  /\ MayEnroll(u) /\ \A c \in confirming : c.request # r
  /\ credential[u] # NULL /\ ~Confirmed(u)
  /\ Matches(u, factor)
  /\ confirming' = confirming \cup {[request |-> r, user |-> u, factor |-> factor, token |-> t]}
  /\ UNCHANGED <<factorVars, spent, respent, active, totp_required, token, owner, flow, challenge,
                 sessions, enrolling, resets, protected>>

\* The code of a confirmation is wrong: the service throws and writes nothing,
\* not even to the challenge that admitted the request; only the history counts,
\* up to the limit.
MistypeConfirmation(t) ==
  /\ Usable(t, "enroll") /\ challenge[t].failed < MaxAttempts
  /\ LET u == challenge[t].user IN active[u] /\ credential[u] # NULL /\ ~Confirmed(u)
  /\ challenge' = [challenge EXCEPT ![t].failed = @ + 1]
  /\ UNCHANGED <<factorVars, spent, respent, active, totp_required, token, owner, flow, sessions,
                 enrolling, confirming, resets, protected>>

\* Mutation of Activated: the step of the code is not kept.
ActivatedAtNoStep(o, at) == [o EXCEPT !.confirmed = TRUE]

\* confirmed_at and last_used_step are set.
Activated(o, at) == [o EXCEPT !.confirmed = TRUE, !.last_used_step = at]

\* confirmEnrollment of the repository: whatever secret is there is confirmed.
Confirm(c) ==
  LET u == c.user  t == c.token IN
  /\ confirming' = confirming \ {c}
  /\ credential[u] # NULL /\ ~Confirmed(u)
  /\ t # NULL => Usable(t, "enroll") /\ challenge[t].user = u
  /\ credential' = [credential EXCEPT ![u] = Activated(@, c.factor.at)]
  /\ NewRecoveryCodes(u)
  /\ IF t = NULL THEN UNCHANGED <<challenge, sessions>>
     ELSE /\ challenge' = [challenge EXCEPT ![t].used = TRUE]
          /\ sessions' = sessions \cup
               {Session(u, t, challenge[t].after, FALSE)}
  /\ Spend((IF c.factor.of = credential[u].secret THEN {c.factor} ELSE {})
             \cup (IF t = NULL THEN {} ELSE {Used("challenge", t)}))
  /\ protected' = protected \cup {u}
  /\ Overtake(u)
  /\ UNCHANGED <<secrets, step, active, totp_required, token, owner, enrolling, resets>>

\* The confirmation is refused, or never comes to its transaction.
GiveUpConfirming(c) ==
  /\ confirming' = confirming \ {c}
  /\ UNCHANGED <<factorVars, spent, respent, active, totp_required, token, owner, flow, challenge,
                 sessions, enrolling, resets, protected>>

-----------------------------------------------------------------------------
\* Mutation of ChallengesAfterReset: the challenges stay.
ChallengesKept(u) == challenge

\* DELETE FROM mfa_challenges WHERE user_id
ChallengesAfterReset(u) ==
  [t \in Token |-> IF challenge[t] # NULL /\ challenge[t].user = u THEN NULL ELSE challenge[t]]

\* reset: the credential, its codes and the challenges go, the sessions end.  A
\* first factor on its way is not stopped, and counts as one after the reset.
Reset(u) ==
  /\ resets[u] < MaxResets
  /\ resets' = [resets EXCEPT ![u] = @ + 1]
  /\ credential' = [credential EXCEPT ![u] = NULL]
  /\ recovery' = [recovery EXCEPT ![u] = {}]
  /\ challenge' = ChallengesAfterReset(u)
  /\ sessions' = {s \in sessions : s.user # u}
  /\ protected' = protected \ {u}
  /\ flow' = [t \in Token |-> IF t \in FlowsOf(u) THEN [flow[t] EXCEPT !.after = @ + 1]
                             ELSE flow[t]]
  /\ UNCHANGED <<secrets, batches, step, spent, respent, active, totp_required, token, owner,
                 enrolling, confirming>>

\* The session is revoked or expires.
EndSession(s) ==
  /\ sessions' = sessions \ {s}
  /\ UNCHANGED <<factorVars, spent, respent, active, totp_required, token, owner, flow, challenge,
                 enrolling, confirming, resets, protected>>

LapseChallenge(t) ==
  /\ challenge[t] # NULL /\ ~challenge[t].used
  /\ challenge' = [challenge EXCEPT ![t].used = TRUE]
  /\ UNCHANGED <<factorVars, spent, respent, active, totp_required, token, owner, flow, sessions,
                 enrolling, confirming, resets, protected>>

\* cleanup: an enrolment that was not confirmed for 24 hours is deleted.  The
\* other rows it deletes are used or expired, which nobody tells from absent.
Cleanup(u) ==
  /\ credential[u] # NULL /\ ~Confirmed(u)
  /\ credential' = [credential EXCEPT ![u] = NULL]
  /\ UNCHANGED <<recovery, secrets, batches, step, spent, respent, signInVars>>

\* The user service changes the user's row.
SetActive(u) ==
  /\ active' = [active EXCEPT ![u] = ~@]
  /\ UNCHANGED <<factorVars, spent, respent, totp_required, token, owner, flow, challenge, sessions,
                 enrolling, confirming, resets, protected>>

SetRequired(u) ==
  /\ totp_required' = [totp_required EXCEPT ![u] = ~@]
  /\ IF totp_required[u] THEN UNCHANGED flow ELSE Overtake(u)
  /\ UNCHANGED <<factorVars, spent, respent, active, token, owner, challenge, sessions,
                 enrolling, confirming, resets, protected>>

Tick ==
  /\ step < MaxStep
  /\ step' = step + 1
  /\ UNCHANGED <<credential, recovery, secrets, batches, spent, respent, signInVars>>

Next ==
  \/ \E t \in Token :
       \/ \E u \in User : IssueMagicLink(t, u) \/ FirstFactor(t, u)
       \/ IssueAssertion(t) \/ LapseToken(t) \/ Complete(t) \/ RollBack(t)
       \/ \E factor \in Factors : Verify(t, factor)
       \/ LapseChallenge(t) \/ MistypeConfirmation(t)
  \/ \E u \in User :
       \/ \E factor \in Factors : Disable(u, factor) \/ RegenerateRecoveryCodes(u, factor)
       \/ Enroll(u) \/ Reset(u) \/ Cleanup(u)
       \/ \E secret \in enrolling[u] : InsertEnrollment(u, secret)
       \/ \E r \in Request, factor \in TotpCodes, t \in Cookies : CheckCode(r, u, factor, t)
       \/ SetActive(u) \/ SetRequired(u)
  \/ \E c \in confirming : Confirm(c) \/ GiveUpConfirming(c)
  \/ \E s \in sessions : EndSession(s)
  \/ Tick

Spec == Init /\ [][Next]_vars

-----------------------------------------------------------------------------
\* Types of the tables and of the requests on their way: a token that is taken
\* is taken by one transaction, a challenge is of a token that was used, and its
\* attempts stay in their limit (auth.repository.ts, totp.repository.ts).
SignInTypeOK ==
  /\ FactorTypeOK
  /\ token \in [Token -> {"free", "issued", "taken", "used"}]
  /\ \A t \in Token :
       /\ flow[t] \in FlowType \cup {NULL}
       /\ flow[t] # NULL <=> token[t] = "taken"
       /\ challenge[t] # NULL => token[t] = "used" /\ challenge[t].attempts \in 0 .. MaxAttempts
  /\ \A s \in sessions : s.user \in User /\ token[s.token] = "used"
  /\ \A c \in confirming : /\ c.user \in User /\ c.token \in Token \cup {NULL}
                           /\ \A d \in confirming : c.request = d.request => c = d
  /\ \A u \in User : enrolling[u] \subseteq 1 .. secrets
  /\ resets \in [User -> 0 .. MaxResets]

\* Nothing is good for two: no login token or assertion challenge completes two
\* first factors, no MFA challenge opens two sessions, no recovery code and no
\* TOTP code is accepted twice for the secret it belongs to, be it to sign in, to
\* confirm, to disable or to renew (consumeMagicToken, authenticate,
\* verifyChallenge, confirmEnrollment, mutateCredential,
\* regenerateRecoveryCodes).  A code that confirms another secret than its own is
\* what ConfirmedWasProved is about.
NothingSpentTwice == respent = {}

\* No session is opened by a first factor alone to a user who has a confirmed
\* credential, or of whom one is required, all the time from the first factor's
\* reading to its commit, whatever credentials come, go and come back in between
\* (consumeMagicToken, authenticate, completeFirstFactor).
SecondFactorEnforced == \A s \in sessions : ~s.bare

\* A challenge to sign in takes no more wrong codes than its limit, of whichever
\* kind, and opens no session after the last one (verifyChallenge).
GuessesBounded ==
  \A t \in Token : challenge[t] # NULL /\ challenge[t].purpose = "login" =>
    /\ challenge[t].failed <= MaxAttempts
    /\ challenge[t].failed = MaxAttempts => challenge[t].used

\* The same of a challenge of either purpose: "A challenge allows at most 5 code
\* attempts and is then invalidated" (AC-5 of spec 0009).  The wrong codes of a
\* confirmation are not counted (TotpService.confirmEnrollment).
AttemptsEndChallenge ==
  \A t \in Token : challenge[t] # NULL /\ challenge[t].failed = MaxAttempts => challenge[t].used

\* After a reset nothing from before it leads anywhere: every session and every
\* challenge comes from a first factor presented after the last reset, or from
\* one that was on its way during it
\* (TotpRepository.reset).
ResetCutsOff ==
  /\ \A s \in sessions : s.after = resets[s.user]
  /\ \A t \in Token : challenge[t] # NULL =>
       challenge[t].after = resets[challenge[t].user]

\* A second factor is turned on and off by its owner only, who shows a code of it:
\* "Confirming with a valid code activates 2FA" and "A plain click without proof
\* never disables 2FA" (AC-2 and AC-6 of spec 0009).  A confirmed factor stays
\* until its user disables it or is reset, although an enrolment that began
\* earlier may yet be inserted over it (saveEnrollment); and its secret is one a
\* code was shown of, although the code is checked before the transaction, which
\* confirms whatever secret is stored by then (confirmEnrollment of both classes).
ConfirmedUntilGivenUp == \A u \in protected : Confirmed(u)

ConfirmedWasProved ==
  \A u \in User : Confirmed(u) =>
    \E factor \in spent : factor.kind = "totp" /\ factor.of = credential[u].secret

FactorIsItsOwners == ConfirmedUntilGivenUp /\ ConfirmedWasProved
=============================================================================
