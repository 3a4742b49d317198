---------------------------- MODULE SignInProofs ----------------------------
(***************************************************************************)
(* Proofs about SignIn for every value of its constants.                   *)
(*                                                                         *)
(* Nothing is good for two because everything that was accepted is used up *)
(* in the tables: SpentSound says how, kind by kind, and what may be       *)
(* accepted now is not used up.  For a TOTP code that takes SecretsInv: no *)
(* two credentials share a secret, and an insertion on its way brings one  *)
(* that no code was accepted of.                                           *)
(***************************************************************************)
EXTENDS SignIn, TLAPS

ChallengeType ==
  [user : User, purpose : {"login", "enroll"}, attempts : 0 .. MaxAttempts,
   failed : Nat, used : BOOLEAN, after : Nat]
SessionType == [user : User, token : Token, after : Nat, bare : BOOLEAN]
CodeType == [kind : {"totp"}, of : Nat, at : 0 .. MaxStep + 1]
ConfirmingType ==
  [request : Request, user : User, factor : CodeType, token : Token \cup {NULL}]

TokensInv ==
  /\ token \in [Token -> {"free", "issued", "taken", "used"}]
  /\ flow \in [Token -> FlowType \cup {NULL}]
  /\ challenge \in [Token -> ChallengeType \cup {NULL}]
  /\ \A t \in Token : /\ flow[t] # NULL <=> token[t] = "taken"
                      /\ challenge[t] # NULL => token[t] = "used"

ChallengeSound(c) ==
  /\ c.purpose = "login" => c.failed <= c.attempts
  /\ c.attempts = MaxAttempts => c.used

ChallengesInv == \A t \in Token : challenge[t] # NULL => ChallengeSound(challenge[t])

\* Everything on its way is of a first factor after the last reset.
ResetsInv ==
  /\ resets \in [User -> 0 .. MaxResets]
  /\ \A t \in Token : challenge[t] # NULL => challenge[t].after = resets[challenge[t].user]
  /\ \A t \in Token : flow[t] # NULL => flow[t].after = resets[flow[t].user]
  /\ \A s \in sessions : s.after = resets[s.user]

SessionsInv ==
  /\ sessions \subseteq SessionType
  /\ \A s \in sessions : token[s.token] = "used" /\ ~s.bare

\* What a first factor has read of the second one is still so, or it is marked.
FlowsInv ==
  /\ active \in [User -> BOOLEAN] /\ totp_required \in [User -> BOOLEAN]
  /\ \A t \in Token : flow[t] # NULL /\ ~flow[t].overtaken /\ Due(flow[t].user)
                        => SecondFactorDue(flow[t])

\* No two credentials, enrolled or to be inserted, share a secret.
SecretsInv ==
  /\ credential \in [User -> CredentialType \cup {NULL}]
  /\ secrets \in 0 .. MaxSecrets /\ step \in 1 .. MaxStep
  /\ \A u \in User : credential[u] # NULL =>
       /\ credential[u].secret \in 1 .. secrets
       /\ credential[u].last_used_step \in (0 .. MaxStep + 1) \cup {NULL}
  /\ enrolling \in [User -> SUBSET (1 .. secrets)]
  /\ \A u \in User : credential[u] # NULL /\ ~credential[u].confirmed
                       => credential[u].last_used_step = NULL
  /\ \A u, v \in User :
       /\ u # v /\ credential[u] # NULL /\ credential[v] # NULL
            => credential[u].secret # credential[v].secret
       /\ u # v => enrolling[u] \cap enrolling[v] = {}
       /\ credential[u] # NULL => credential[u].secret \notin enrolling[v]

RecoveryInv ==
  /\ batches \in 0 .. MaxBatches /\ recovery \in [User -> SUBSET (1 .. batches)]
  /\ \A u, v \in User : u # v => recovery[u] \cap recovery[v] = {}

\* An accepted factor or token is used up.
TokenSpent(f) == f.kind = "token" => f.of \in Token /\ token[f.of] = "used"
ChallengeSpent(f) ==
  f.kind = "challenge" => /\ f.of \in Token /\ token[f.of] = "used"
                          /\ challenge[f.of] # NULL => challenge[f.of].used
RecoverySpent(f) ==
  f.kind = "recovery" => f.of \in 1 .. batches /\ \A u \in User : f.of \notin recovery[u]
CodeSpentOf(u, f) ==
  /\ f.of \notin enrolling[u]
  /\ credential[u] # NULL /\ credential[u].secret = f.of
       => credential[u].last_used_step # NULL /\ f.at <= credential[u].last_used_step
CodeSpent(f) ==
  f.kind = "totp" =>
    f.of \in 1 .. secrets /\ f.at \in Nat /\ \A u \in User : CodeSpentOf(u, f)

SpentSound(f) ==
  /\ f.kind \in {"token", "challenge", "recovery", "totp"}
  /\ TokenSpent(f) /\ ChallengeSpent(f) /\ RecoverySpent(f) /\ CodeSpent(f)

SpentInv == respent = {} /\ \A f \in spent : SpentSound(f)

ConfirmingInv ==
  /\ confirming \subseteq ConfirmingType
  /\ \A c, d \in confirming : c.request = d.request => c = d

\* The inductive invariant.
SignInInv ==
  /\ TokensInv /\ ChallengesInv /\ ResetsInv /\ SessionsInv /\ FlowsInv
  /\ SecretsInv /\ RecoveryInv /\ SpentInv /\ ConfirmingInv

-----------------------------------------------------------------------------
LEMMA InitInv == Init => SignInInv
<1> SUFFICES ASSUME Init PROVE SignInInv
  OBVIOUS
<1> USE FactorAssumption, SignInAssumption DEF Init, FactorInit
<1>1. TokensInv /\ ChallengesInv /\ ResetsInv /\ SessionsInv
  BY DEF TokensInv, ChallengesInv, ResetsInv, SessionsInv
<1>2. FlowsInv /\ RecoveryInv
  BY DEF FlowsInv, RecoveryInv
<1>3. SecretsInv
  BY DEF SecretsInv
<1>4. SpentInv /\ ConfirmingInv
  BY DEF SpentInv, ConfirmingInv
<1> QED BY <1>1, <1>2, <1>3, <1>4 DEF SignInInv

\* Which variables each part is about.
LEMMA Kept ==
  ASSUME SignInInv
  PROVE  /\ UNCHANGED <<token, flow, challenge>> => TokensInv'
         /\ UNCHANGED challenge => ChallengesInv'
         /\ UNCHANGED <<resets, challenge, flow, sessions>> => ResetsInv'
         /\ UNCHANGED <<sessions, token>> => SessionsInv'
         /\ UNCHANGED <<active, totp_required, flow, credential>> => FlowsInv'
         /\ UNCHANGED <<credential, secrets, step, enrolling>> => SecretsInv'
         /\ UNCHANGED <<recovery, batches>> => RecoveryInv'
         /\ UNCHANGED <<spent, respent, token, challenge, factorVars, enrolling>> => SpentInv'
         /\ UNCHANGED confirming => ConfirmingInv'
<1> USE DEF SignInInv, factorVars
<1>1. UNCHANGED <<token, flow, challenge>> => TokensInv'
  BY DEF TokensInv
<1>2. UNCHANGED challenge => ChallengesInv'
  BY DEF ChallengesInv
<1>3. UNCHANGED <<resets, challenge, flow, sessions>> => ResetsInv'
  BY DEF ResetsInv
<1>4. UNCHANGED <<sessions, token>> => SessionsInv'
  BY DEF SessionsInv
<1>5. UNCHANGED <<active, totp_required, flow, credential>> => FlowsInv'
  BY DEF FlowsInv, Due, Confirmed
<1>7. UNCHANGED <<credential, secrets, step, enrolling>> => SecretsInv'
  BY DEF SecretsInv
<1>8. UNCHANGED <<recovery, batches>> => RecoveryInv'
  BY DEF RecoveryInv
<1>9. UNCHANGED <<spent, respent, token, challenge, factorVars, enrolling>> => SpentInv'
  BY DEF SpentInv, SpentSound, TokenSpent, ChallengeSpent, RecoverySpent, CodeSpent, CodeSpentOf
<1>10. UNCHANGED confirming => ConfirmingInv'
  BY DEF ConfirmingInv
<1> QED BY <1>1, <1>2, <1>3, <1>4, <1>5, <1>7, <1>8, <1>9, <1>10

-----------------------------------------------------------------------------
\* The first factor.

LEMMA TokenStepInv ==
  ASSUME SignInInv, NEW t \in Token,
         (\E u \in User : IssueMagicLink(t, u)) \/ IssueAssertion(t) \/ LapseToken(t)
  PROVE  SignInInv'
<1>1. /\ token[t] \in {"free", "issued"}
      /\ token' = [token EXCEPT ![t] = "issued"] \/ token' = [token EXCEPT ![t] = "used"]
      /\ UNCHANGED <<factorVars, spent, respent, active, totp_required, flow, challenge,
                     sessions, enrolling, confirming, resets, protected>>
  BY DEF IssueMagicLink, IssueAssertion, LapseToken
<1>2. TokensInv'
  BY <1>1 DEF SignInInv, TokensInv
<1>3. \A r \in Token : token[r] = "used" => token'[r] = "used"
  BY <1>1 DEF SignInInv, TokensInv
<1>4. SessionsInv'
  BY <1>1, <1>3 DEF SignInInv, SessionsInv, SessionType
<1>5. SpentInv'
  <2>1. ASSUME NEW f \in spent PROVE SpentSound(f)'
    <3>1. SpentSound(f)
      BY DEF SignInInv, SpentInv
    <3>2. TokenSpent(f)' /\ ChallengeSpent(f)'
      BY <1>1, <1>3, <3>1 DEF SpentSound, TokenSpent, ChallengeSpent
    <3>3. RecoverySpent(f)' /\ CodeSpent(f)'
      BY <1>1, <3>1 DEF SpentSound, RecoverySpent, CodeSpent, CodeSpentOf, factorVars
    <3> QED BY <3>1, <3>2, <3>3 DEF SpentSound
  <2> QED BY <1>1, <2>1 DEF SignInInv, SpentInv
<1> QED BY <1>1, <1>2, <1>4, <1>5, Kept DEF SignInInv, factorVars

LEMMA FirstFactorInv ==
  ASSUME SignInInv, NEW t \in Token, NEW u \in User, FirstFactor(t, u)
  PROVE  SignInInv'
<1> DEFINE r == [user |-> u, enabled |-> Confirmed(u), required |-> totp_required[u],
                 after |-> resets[u], overtaken |-> FALSE]
<1>1. /\ token[t] = "issued"
      /\ token' = [token EXCEPT ![t] = "taken"] /\ flow' = [flow EXCEPT ![t] = r]
      /\ UNCHANGED <<factorVars, spent, respent, active, totp_required, challenge,
                     sessions, enrolling, confirming, resets, protected>>
  BY DEF FirstFactor, Takeable
<1>2. r \in FlowType /\ r # NULL
  <2>1. Confirmed(u) \in BOOLEAN /\ totp_required[u] \in BOOLEAN /\ resets[u] \in Nat
    BY SignInAssumption DEF SignInInv, FlowsInv, ResetsInv, Confirmed, SecretsInv,
       CredentialType
  <2>2. r \in FlowType
    <3> HIDE DEF Confirmed
    <3> QED BY <2>1 DEF FlowType
  <2> QED BY <2>2, SignInAssumption
<1>3. TokensInv'
  <2> HIDE DEF r
  <2> QED BY <1>1, <1>2 DEF SignInInv, TokensInv
<1>4. ResetsInv'
  BY <1>1 DEF SignInInv, ResetsInv, TokensInv
<1>5. SessionsInv'
  BY <1>1 DEF SignInInv, SessionsInv, SessionType, TokensInv
<1>6. FlowsInv'
  <2>1. Due(u) => SecondFactorDue(r)
    <3> HIDE DEF Confirmed
    <3> QED BY DEF Due, SecondFactorDue
  <2>2. ASSUME NEW x \in Token
        PROVE  (flow[x] # NULL /\ ~flow[x].overtaken /\ Due(flow[x].user)
                  => SecondFactorDue(flow[x]))'
    <3>1. CASE x = t
      <4>1. flow'[x] = r /\ r.user = u
        BY <1>1, <3>1 DEF SignInInv, TokensInv
      <4>2. Due(flow[x].user)' <=> Due(u)
        BY <1>1, <4>1 DEF Due, Confirmed, factorVars
      <4> QED BY <2>1, <4>1, <4>2 DEF SecondFactorDue
    <3>2. CASE x # t
      <4>1. flow'[x] = flow[x]
        BY <1>1, <3>2 DEF SignInInv, TokensInv
      <4>2. Due(flow[x].user)' <=> Due(flow[x].user)
        BY <1>1, <4>1 DEF Due, Confirmed, factorVars
      <4> QED BY <4>1, <4>2 DEF SignInInv, FlowsInv, SecondFactorDue
    <3> QED BY <3>1, <3>2
  <2> QED BY <1>1, <2>2 DEF SignInInv, FlowsInv
<1>7. SpentInv'
  <2>1. ASSUME NEW f \in spent PROVE SpentSound(f)'
    <3>1. SpentSound(f)
      BY DEF SignInInv, SpentInv
    <3>2. TokenSpent(f)' /\ ChallengeSpent(f)'
      BY <1>1, <3>1 DEF SignInInv, TokensInv, SpentSound, TokenSpent, ChallengeSpent
    <3>3. RecoverySpent(f)' /\ CodeSpent(f)'
      BY <1>1, <3>1 DEF SpentSound, RecoverySpent, CodeSpent, CodeSpentOf, factorVars
    <3> QED BY <3>1, <3>2, <3>3 DEF SpentSound
  <2> QED BY <1>1, <2>1 DEF SignInInv, SpentInv
<1> QED BY <1>1, <1>3, <1>4, <1>5, <1>6, <1>7, Kept DEF SignInInv, factorVars

\* What is not used up is accepted for the first time.
LEMMA SpendInv ==
  ASSUME SpentInv, NEW P, Spend(P),
         \A f \in P : ~SpentSound(f),
         \A f \in spent : SpentSound(f)', \A f \in P : SpentSound(f)'
  PROVE  SpentInv'
<1>1. P \cap spent = {}
  BY DEF SpentInv
<1>2. respent' = {}
  BY <1>1 DEF Spend, SpentInv
<1>3. \A f \in spent' : SpentSound(f)'
  BY DEF Spend
<1> QED BY <1>2, <1>3 DEF SpentInv

LEMMA CompleteInv ==
  ASSUME SignInInv, NEW t \in Token, Complete(t)
  PROVE  SignInInv'
<1> DEFINE read == flow[t]
           c == [user |-> read.user, purpose |-> IF read.enabled THEN "login" ELSE "enroll",
                 attempts |-> 0, failed |-> 0, used |-> FALSE, after |-> read.after]
           s == Session(read.user, t, read.after, Due(read.user) /\ ~read.overtaken)
<1>1. /\ flow[t] # NULL
      /\ token' = [token EXCEPT ![t] = "used"] /\ flow' = [flow EXCEPT ![t] = NULL]
      /\ Spend({Used("token", t)})
      /\ UNCHANGED <<factorVars, active, totp_required, enrolling, confirming, resets,
                     protected>>
  BY DEF Complete
<1>2. \/ challenge' = [challenge EXCEPT ![t] = c] /\ sessions' = sessions
      \/ challenge' = challenge /\ sessions' = sessions \cup {s} /\ ~SecondFactorDue(read)
  BY DEF Complete
<1>3. /\ read \in FlowType /\ token[t] = "taken" /\ challenge[t] = NULL
      /\ read.after = resets[read.user]
  BY <1>1 DEF SignInInv, TokensInv, ResetsInv
<1>4. /\ c \in ChallengeType /\ c.user = read.user /\ c.attempts = 0 /\ c.failed = 0
      /\ c.after = read.after /\ ~c.used
  <2> HIDE DEF read
  <2> QED BY <1>3, SignInAssumption DEF FlowType, ChallengeType
<1> DEFINE bare == Due(read.user) /\ ~read.overtaken
<1>5. s \in SessionType /\ s.user = read.user /\ s.token = t /\ s.after = read.after
  <2>1. bare \in BOOLEAN
    OBVIOUS
  <2>2. s = [user |-> read.user, token |-> t, after |-> read.after, bare |-> bare]
    BY DEF Session
  <2> HIDE DEF read, bare, s
  <2> QED BY <1>3, <2>1, <2>2 DEF FlowType, SessionType
<1>6. ~SecondFactorDue(read) => ~s.bare
  BY <1>1 DEF SignInInv, FlowsInv, Session
<1>7. TokensInv'
  <2> HIDE DEF c
  <2> QED BY <1>1, <1>2, <1>4, SignInAssumption DEF SignInInv, TokensInv
<1>8. ChallengesInv'
  <2> HIDE DEF c
  <2> QED BY <1>2, <1>4, SignInAssumption
          DEF SignInInv, TokensInv, ChallengesInv, ChallengeSound
<1>9. ResetsInv'
  <2> HIDE DEF c, s, read
  <2> QED BY <1>1, <1>2, <1>3, <1>4, <1>5 DEF SignInInv, TokensInv, ResetsInv
<1>10. SessionsInv'
  <2> HIDE DEF c, s, read
  <2> QED BY <1>1, <1>2, <1>5, <1>6 DEF SignInInv, TokensInv, SessionsInv, SessionType
<1>11. FlowsInv'
  BY <1>1 DEF SignInInv, TokensInv, FlowsInv, Due, Confirmed, factorVars, SecondFactorDue
<1>12. SpentInv'
  <2>1. ~TokenSpent(Used("token", t))
    BY <1>3 DEF TokenSpent, Used
  <2>2. ASSUME NEW f \in spent PROVE SpentSound(f)'
    <3>1. SpentSound(f)
      BY DEF SignInInv, SpentInv
    <3>2. TokenSpent(f)'
      BY <1>1, <3>1 DEF SignInInv, TokensInv, SpentSound, TokenSpent
    <3>3. ChallengeSpent(f)'
      BY <1>1, <1>2, <1>3, <3>1 DEF SignInInv, TokensInv, SpentSound, ChallengeSpent
    <3>4. RecoverySpent(f)' /\ CodeSpent(f)'
      BY <1>1, <3>1 DEF SpentSound, RecoverySpent, CodeSpent, CodeSpentOf, factorVars
    <3> QED BY <3>1, <3>2, <3>3, <3>4 DEF SpentSound
  <2>3. SpentSound(Used("token", t))'
    BY <1>1 DEF SignInInv, TokensInv, SpentSound, TokenSpent, ChallengeSpent, RecoverySpent,
                CodeSpent, Used
  <2> QED BY <1>1, <2>1, <2>2, <2>3, SpendInv DEF SignInInv, SpentSound
<1> QED BY <1>1, <1>7, <1>8, <1>9, <1>10, <1>11, <1>12, Kept DEF SignInInv, factorVars

LEMMA RollBackInv ==
  ASSUME SignInInv, NEW t \in Token, RollBack(t)
  PROVE  SignInInv'
<1>1. /\ flow[t] # NULL
      /\ token' = [token EXCEPT ![t] = "issued"] /\ flow' = [flow EXCEPT ![t] = NULL]
      /\ UNCHANGED <<factorVars, spent, respent, active, totp_required, challenge,
                     sessions, enrolling, confirming, resets, protected>>
  BY DEF RollBack
<1>2. token[t] = "taken"
  BY <1>1 DEF SignInInv, TokensInv
<1>3. TokensInv' /\ ResetsInv'
  BY <1>1, <1>2 DEF SignInInv, TokensInv, ResetsInv
<1>4. SessionsInv'
  BY <1>1, <1>2 DEF SignInInv, TokensInv, SessionsInv, SessionType
<1>5. FlowsInv'
  BY <1>1 DEF SignInInv, TokensInv, FlowsInv, Due, Confirmed, factorVars, SecondFactorDue
<1>6. SpentInv'
  <2>1. ASSUME NEW f \in spent PROVE SpentSound(f)'
    <3>1. SpentSound(f)
      BY DEF SignInInv, SpentInv
    <3>2. TokenSpent(f)' /\ ChallengeSpent(f)'
      BY <1>1, <1>2, <3>1 DEF SignInInv, TokensInv, SpentSound, TokenSpent, ChallengeSpent
    <3>3. RecoverySpent(f)' /\ CodeSpent(f)'
      BY <1>1, <3>1 DEF SpentSound, RecoverySpent, CodeSpent, CodeSpentOf, factorVars
    <3> QED BY <3>1, <3>2, <3>3 DEF SpentSound
  <2> QED BY <1>1, <2>1 DEF SignInInv, SpentInv
<1> QED BY <1>1, <1>3, <1>4, <1>5, <1>6, Kept DEF SignInInv, factorVars

-----------------------------------------------------------------------------
\* Using a factor up.

\* The typed-in factors.
LEMMA FactorsTyped ==
  ASSUME SignInInv, NEW factor \in Factors
  PROVE  \/ factor.kind = "totp" /\ factor \in TotpCodes
         \/ factor.kind = "recovery" /\ factor.of \in 1 .. batches
         \/ factor.kind = "wrong"
BY DEF Factors, TotpCodes, TotpCode, RecoveryCode, WrongCode

LEMMA CodesTyped ==
  ASSUME SignInInv, NEW factor \in TotpCodes
  PROVE  /\ factor.kind = "totp" /\ factor.of \in 1 .. secrets
         /\ factor.at \in 0 .. MaxStep + 1 /\ factor \in CodeType
<1>1. PICK secret \in 1 .. secrets, at \in step - 1 .. step + 1 : factor = TotpCode(secret, at)
  BY DEF TotpCodes
<1>2. secret \in Nat /\ at \in 0 .. MaxStep + 1
  BY <1>1, FactorAssumption DEF SignInInv, SecretsInv
<1> QED BY <1>1, <1>2 DEF TotpCode, CodeType

\* A code that is accepted was not accepted before, and the step it is for is
\* the last one used from then on.
LEMMA CodeUsedUp ==
  ASSUME SignInInv, NEW u \in User, Confirmed(u), NEW factor \in TotpCodes,
         Matches(u, factor), Newer(u, factor.at),
         credential' = [credential EXCEPT ![u].last_used_step = factor.at],
         UNCHANGED <<secrets, step, enrolling>>
  PROVE  /\ ~SpentSound(factor)
         /\ SecretsInv'
         /\ \A f \in spent : CodeSpent(f)'
         /\ CodeSpent(factor)'
         /\ \A v \in User : /\ Confirmed(v)' <=> Confirmed(v)
                            /\ credential'[v] # NULL => credential[v] # NULL
                                 /\ credential'[v].secret = credential[v].secret
                                 /\ credential'[v].confirmed = credential[v].confirmed
<1> DEFINE o == credential[u]
           n == [o EXCEPT !.last_used_step = factor.at]
<1>1. /\ factor.kind = "totp" /\ factor.of \in 1 .. secrets /\ factor.at \in 0 .. MaxStep + 1
      /\ factor.at \in Nat
  BY CodesTyped, FactorAssumption
<1>2. /\ o \in CredentialType /\ o # NULL /\ o.confirmed /\ o.secret = factor.of
      /\ o.secret \in 1 .. secrets /\ o.last_used_step \in Nat \cup {NULL}
  BY DEF SignInInv, SecretsInv, Confirmed, Matches, CredentialType
<1>3. /\ n \in CredentialType /\ n.secret = o.secret /\ n.last_used_step = factor.at
      /\ n.confirmed = o.confirmed
  <2> HIDE DEF o
  <2> QED BY <1>1, <1>2 DEF CredentialType
<1>4. n # NULL
  BY <1>3, FactorAssumption
<1>5. credential' = [credential EXCEPT ![u] = n]
  BY DEF SignInInv, SecretsInv
<1>6. \A v \in User : credential'[v] = IF v = u THEN n ELSE credential[v]
  BY <1>5 DEF SignInInv, SecretsInv
<1> HIDE DEF n
<1>7. ~SpentSound(factor)
  <2>1. ~(factor.at <= o.last_used_step) \/ o.last_used_step = NULL
    BY <1>1, <1>2 DEF Newer
  <2> QED BY <1>1, <1>2, <2>1 DEF SpentSound, CodeSpent, CodeSpentOf
<1>8. \A v \in User : /\ credential'[v] # NULL <=> credential[v] # NULL
                      /\ credential'[v] # NULL =>
                           /\ credential'[v].secret = credential[v].secret
                           /\ credential'[v].confirmed = credential[v].confirmed
  BY <1>2, <1>3, <1>4, <1>6
<1>9. SecretsInv'
  <2>1. credential' \in [User -> CredentialType \cup {NULL}]
    BY <1>3, <1>5 DEF SignInInv, SecretsInv
  <2>2. \A v \in User : credential'[v] # NULL =>
          /\ credential'[v].secret \in 1 .. secrets
          /\ credential'[v].last_used_step \in (0 .. MaxStep + 1) \cup {NULL}
    BY <1>1, <1>3, <1>6, <1>8 DEF SignInInv, SecretsInv
  <2>3. \A v \in User : credential'[v] # NULL /\ ~credential'[v].confirmed
                          => credential'[v].last_used_step = NULL
    BY <1>2, <1>3, <1>6 DEF SignInInv, SecretsInv
  <2> QED BY <1>8, <2>1, <2>2, <2>3 DEF SignInInv, SecretsInv
<1>10. ASSUME NEW f, CodeSpent(f) \/ f = factor PROVE CodeSpent(f)'
  <2> SUFFICES ASSUME f.kind = "totp"
               PROVE  f.of \in 1 .. secrets /\ f.at \in Nat /\ \A v \in User : CodeSpentOf(v, f)'
    BY DEF CodeSpent
  <2>1. CASE f = factor
    <3>1. ASSUME NEW v \in User PROVE CodeSpentOf(v, f)'
      <4>1. f.of \notin enrolling'[v]
        BY <1>2, <2>1 DEF SignInInv, SecretsInv
      <4>2. v # u /\ credential[v] # NULL => credential[v].secret # f.of
        BY <1>2, <2>1 DEF SignInInv, SecretsInv
      <4>3. factor.at # NULL /\ factor.at <= factor.at
        BY <1>1, FactorAssumption
      <4> QED BY <1>3, <1>6, <2>1, <4>1, <4>2, <4>3 DEF CodeSpentOf
    <3> QED BY <1>1, <2>1, <3>1
  <2>2. CASE CodeSpent(f)
    <3>1. f.of \in 1 .. secrets /\ f.at \in Nat /\ \A v \in User : CodeSpentOf(v, f)
      BY <2>2 DEF CodeSpent
    <3>2. ASSUME NEW v \in User PROVE CodeSpentOf(v, f)'
      <4>1. CodeSpentOf(v, f)
        BY <3>1
      <4>2. CASE v # u
        BY <1>6, <4>1, <4>2 DEF CodeSpentOf
      <4>3. CASE v = u /\ n.secret = f.of
        <5>1. o.last_used_step # NULL /\ f.at <= o.last_used_step
          BY <1>2, <1>3, <4>1, <4>3 DEF CodeSpentOf
        <5>2. factor.at # NULL /\ f.at <= factor.at
          BY <1>1, <1>2, <3>1, <5>1, FactorAssumption DEF Newer
        <5> QED BY <1>3, <1>6, <4>1, <4>3, <5>2 DEF CodeSpentOf
      <4>4. CASE v = u /\ n.secret # f.of
        BY <1>6, <4>1, <4>4 DEF CodeSpentOf
      <4> QED BY <4>2, <4>3, <4>4
    <3> QED BY <3>1, <3>2
  <2> QED BY <1>10, <2>1, <2>2
<1>11. \A f \in spent : CodeSpent(f)
  BY DEF SignInInv, SpentInv, SpentSound
<1> QED BY <1>7, <1>8, <1>9, <1>10, <1>11 DEF Confirmed

\* Recovery codes that are fewer, or new, were not accepted yet.
LEMMA RecoveryUsedUp ==
  ASSUME SignInInv, NEW u \in User, NEW factor,
         factor.kind = "recovery", factor.of \in recovery[u],
         recovery' = [recovery EXCEPT ![u] = @ \ {factor.of}], UNCHANGED batches
  PROVE  /\ ~SpentSound(factor)
         /\ RecoveryInv'
         /\ \A f \in spent : RecoverySpent(f)'
         /\ RecoverySpent(factor)'
<1>1. ~SpentSound(factor)
  BY DEF SpentSound, RecoverySpent
<1>2. RecoveryInv'
  BY DEF SignInInv, RecoveryInv
<1>3. \A f \in spent : RecoverySpent(f)
  BY DEF SignInInv, SpentInv, SpentSound
<1>4. \A f \in spent : RecoverySpent(f)'
  BY <1>3 DEF RecoverySpent, SignInInv, RecoveryInv
<1>5. RecoverySpent(factor)'
  <2>1. factor.of \in 1 .. batches
    BY DEF SignInInv, RecoveryInv
  <2>2. \A v \in User : factor.of \notin recovery'[v]
    BY DEF SignInInv, RecoveryInv
  <2> QED BY <2>1, <2>2 DEF RecoverySpent
<1> QED BY <1>1, <1>2, <1>4, <1>5

LEMMA RecoveryGone ==
  ASSUME SignInInv, NEW u \in User,
         recovery' = [recovery EXCEPT ![u] = {}], UNCHANGED batches
  PROVE  RecoveryInv' /\ \A f : RecoverySpent(f) => RecoverySpent(f)'
BY DEF SignInInv, RecoveryInv, RecoverySpent

LEMMA RecoveryNew ==
  ASSUME SignInInv, NEW u \in User, NewRecoveryCodes(u)
  PROVE  RecoveryInv' /\ \A f : RecoverySpent(f) => RecoverySpent(f)'
<1>1. /\ batches \in Nat /\ batches' = batches + 1 /\ batches < MaxBatches
      /\ recovery' = [recovery EXCEPT ![u] = {batches + 1}]
  BY FactorAssumption DEF NewRecoveryCodes, SignInInv, RecoveryInv
<1>2. RecoveryInv'
  <2>1. 1 .. batches \subseteq 1 .. batches' /\ batches + 1 \in 1 .. batches'
        /\ batches + 1 \notin 1 .. batches /\ batches' \in 0 .. MaxBatches
    BY <1>1, FactorAssumption
  <2> QED BY <1>1, <2>1 DEF SignInInv, RecoveryInv
<1>3. ASSUME NEW f, RecoverySpent(f) PROVE RecoverySpent(f)'
  BY <1>1, <1>3 DEF RecoverySpent, SignInInv, RecoveryInv
<1> QED BY <1>2, <1>3

\* An accepted factor of either kind.
LEMMA AcceptedFresh ==
  ASSUME SignInInv, NEW u \in User, Confirmed(u), NEW factor \in Factors, Accepts(u, factor)
  PROVE  /\ ~SpentSound(factor)
         /\ \/ factor \in TotpCodes /\ Matches(u, factor) /\ Newer(u, factor.at)
            \/ factor.kind = "recovery" /\ factor.of \in recovery[u]
<1>1. CASE factor.kind = "totp"
  <2>1. Matches(u, factor) /\ Newer(u, factor.at)
    BY <1>1 DEF Accepts
  <2>2. factor \in TotpCodes
    BY <1>1, FactorsTyped
  <2>3. factor.at \in Nat
    BY <2>2, CodesTyped, FactorAssumption
  <2>4. credential[u] # NULL /\ credential[u].last_used_step \in Nat \cup {NULL}
    BY DEF SignInInv, SecretsInv, Confirmed, CredentialType
  <2>5. ~SpentSound(factor)
    BY <2>1, <2>3, <2>4 DEF SpentSound, CodeSpent, CodeSpentOf, Matches, Newer
  <2> QED BY <2>1, <2>2, <2>5
<1>2. CASE factor.kind # "totp"
  BY <1>2 DEF Accepts, Matches, SpentSound, RecoverySpent
<1> QED BY <1>1, <1>2

\* A credential that goes takes its secret with it: no code of it is accepted.
LEMMA CredentialGone ==
  ASSUME SignInInv, NEW u \in User,
         credential' = [credential EXCEPT ![u] = NULL], UNCHANGED <<secrets, step, enrolling>>
  PROVE  /\ SecretsInv'
         /\ \A f : CodeSpent(f) => CodeSpent(f)'
         /\ \A f \in TotpCodes : credential[u] # NULL /\ Matches(u, f) => CodeSpent(f)'
         /\ \A v \in User : credential'[v] = IF v = u THEN NULL ELSE credential[v]
<1>1. \A v \in User : credential'[v] = IF v = u THEN NULL ELSE credential[v]
  BY DEF SignInInv, SecretsInv
<1>2. SecretsInv'
  BY DEF SignInInv, SecretsInv
<1>3. ASSUME NEW f, CodeSpent(f) PROVE CodeSpent(f)'
  <2>1. ASSUME NEW v \in User, CodeSpentOf(v, f) PROVE CodeSpentOf(v, f)'
    BY <1>1, <2>1 DEF CodeSpentOf
  <2> QED BY <1>3, <2>1 DEF CodeSpent
<1>4. ASSUME NEW f \in TotpCodes, credential[u] # NULL, Matches(u, f) PROVE CodeSpent(f)'
  <2>1. f.of \in 1 .. secrets /\ f.at \in Nat /\ f.of = credential[u].secret
    BY <1>4, CodesTyped, FactorAssumption DEF Matches
  <2>2. ASSUME NEW v \in User PROVE CodeSpentOf(v, f)'
    <3>1. f.of \notin enrolling'[v]
      BY <1>4, <2>1 DEF SignInInv, SecretsInv
    <3>2. v # u /\ credential[v] # NULL => credential[v].secret # f.of
      BY <1>4, <2>1 DEF SignInInv, SecretsInv
    <3> QED BY <1>1, <3>1, <3>2 DEF CodeSpentOf
  <2> QED BY <2>1, <2>2 DEF CodeSpent
<1> QED BY <1>1, <1>2, <1>3, <1>4

\* No second factor becomes due: what the first factors have read still holds.
LEMMA FlowsLess ==
  ASSUME SignInInv, UNCHANGED <<active, totp_required, flow>>,
         \A v \in User : Confirmed(v)' => Confirmed(v)
  PROVE  FlowsInv'
<1> SUFFICES ASSUME NEW t \in Token, flow[t] # NULL, ~flow[t].overtaken, Due(flow[t].user)'
             PROVE  SecondFactorDue(flow[t])
  BY DEF SignInInv, FlowsInv, SecondFactorDue
<1>1. flow[t].user \in User
  BY DEF SignInInv, TokensInv, FlowType
<1>2. Due(flow[t].user)
  BY <1>1 DEF Due
<1> QED BY <1>2 DEF SignInInv, FlowsInv

\* First factors on their way stay those of their users, and of the same reset.
FlowKept(t) ==
  /\ flow'[t] # NULL <=> flow[t] # NULL
  /\ flow[t] # NULL => flow'[t].user = flow[t].user /\ flow'[t].after = flow[t].after
FlowsKept == flow' \in [Token -> FlowType \cup {NULL}] /\ \A t \in Token : FlowKept(t)

LEMMA FlowsUnchanged == ASSUME SignInInv, UNCHANGED flow PROVE FlowsKept
BY DEF SignInInv, TokensInv, FlowsKept, FlowKept

\* Only the first factors of a user who is not marked now can lack a second one.
LEMMA Overtaken ==
  ASSUME SignInInv, NEW u \in User, Overtake(u), UNCHANGED active,
         totp_required' \in [User -> BOOLEAN],
         \A v \in User \ {u} : Due(v)' => Due(v)
  PROVE  FlowsKept /\ FlowsInv'
<1>1. ASSUME NEW t \in Token
      PROVE  \/ flow'[t] = flow[t] /\ (flow[t] # NULL => flow[t].user # u)
             \/ /\ flow[t] # NULL /\ flow'[t] \in FlowType /\ flow'[t].overtaken
                /\ flow'[t].user = flow[t].user /\ flow'[t].after = flow[t].after
  <2>1. CASE t \notin FlowsOf(u)
    BY <2>1 DEF Overtake, FlowsOf
  <2>2. CASE t \in FlowsOf(u)
    <3> DEFINE o == flow[t]
               n == [o EXCEPT !.overtaken = TRUE]
    <3>1. o \in FlowType /\ o # NULL /\ flow'[t] = n
      BY <2>2 DEF Overtake, FlowsOf, SignInInv, TokensInv
    <3>2. n \in FlowType /\ n.user = o.user /\ n.after = o.after
      <4> HIDE DEF o
      <4> QED BY <3>1 DEF FlowType
    <3>3. n.overtaken
      <4> HIDE DEF o
      <4> QED BY <3>1 DEF FlowType
    <3> HIDE DEF n
    <3> QED BY <3>1, <3>2, <3>3
  <2> QED BY <2>1, <2>2
<1>2. FlowsKept
  <2>1. flow' = [t \in Token |-> flow'[t]]
    BY DEF Overtake
  <2>2. \A t \in Token : flow'[t] \in FlowType \cup {NULL}
    BY <1>1 DEF SignInInv, TokensInv
  <2>3. flow' \in [Token -> FlowType \cup {NULL}]
    BY <2>1, <2>2
  <2>4. ASSUME NEW t \in Token PROVE FlowKept(t)
    BY <1>1, SignInAssumption DEF FlowKept
  <2> QED BY <2>3, <2>4 DEF FlowsKept
<1>3. ASSUME NEW t \in Token
      PROVE  (flow[t] # NULL /\ ~flow[t].overtaken /\ Due(flow[t].user)
                => SecondFactorDue(flow[t]))'
  <2> SUFFICES ASSUME flow'[t] # NULL, ~flow'[t].overtaken, Due(flow[t].user)'
               PROVE  SecondFactorDue(flow'[t])
    OBVIOUS
  <2>1. flow'[t] = flow[t] /\ flow[t].user # u
    BY <1>1
  <2>2. PICK v \in User \ {u} : v = flow[t].user
    BY <2>1 DEF SignInInv, TokensInv, FlowType
  <2>3. Due(v)'
    BY <2>1, <2>2 DEF Due, Confirmed
  <2>4. Due(flow[t].user)
    BY <2>2, <2>3
  <2> QED BY <2>1, <2>4 DEF SignInInv, FlowsInv
<1> QED BY <1>2, <1>3 DEF FlowsInv, SignInInv

LEMMA ChallengeUpdated ==
  ASSUME SignInInv, NEW t \in Token, challenge[t] # NULL, NEW n \in ChallengeType,
         n.user = challenge[t].user, n.after = challenge[t].after, ChallengeSound(n),
         challenge[t].used => n.used,
         challenge' = [challenge EXCEPT ![t] = n], UNCHANGED token, FlowsKept
  PROVE  /\ TokensInv' /\ ChallengesInv'
         /\ \A x \in Token : challenge'[x] # NULL =>
              /\ challenge[x] # NULL
              /\ challenge'[x].user = challenge[x].user
              /\ challenge'[x].after = challenge[x].after
         /\ \A f : ChallengeSpent(f) => ChallengeSpent(f)'
         /\ n.used => ChallengeSpent(Used("challenge", t))'
<1>1. \A x \in Token : challenge'[x] = IF x = t THEN n ELSE challenge[x]
  BY DEF SignInInv, TokensInv
<1>2. token[t] = "used"
  BY DEF SignInInv, TokensInv
<1>3. TokensInv'
  BY <1>2 DEF SignInInv, TokensInv, FlowsKept, FlowKept
<1>4. ChallengesInv'
  BY <1>1 DEF SignInInv, ChallengesInv
<1>5. \A f : ChallengeSpent(f) => ChallengeSpent(f)'
  BY <1>1 DEF ChallengeSpent
<1>6. n.used => ChallengeSpent(Used("challenge", t))'
  BY <1>1, <1>2 DEF ChallengeSpent, Used
<1> QED BY <1>1, <1>3, <1>4, <1>5, <1>6

\* A challenge that is used up.
LEMMA ChallengeUsed ==
  ASSUME SignInInv, NEW t \in Token, challenge[t] # NULL
  PROVE  LET n == [challenge[t] EXCEPT !.used = TRUE] IN
         /\ n \in ChallengeType /\ n.user = challenge[t].user /\ n.after = challenge[t].after
         /\ n.used /\ ChallengeSound(n)
         /\ [challenge EXCEPT ![t].used = TRUE] = [challenge EXCEPT ![t] = n]
<1> DEFINE o == challenge[t]
           n == [o EXCEPT !.used = TRUE]
<1>1. o \in ChallengeType /\ ChallengeSound(o)
  BY DEF SignInInv, TokensInv, ChallengesInv
<1>2. /\ n \in ChallengeType /\ n.user = o.user /\ n.after = o.after
      /\ n.failed = o.failed /\ n.attempts = o.attempts /\ n.purpose = o.purpose
  <2> HIDE DEF o
  <2> QED BY <1>1 DEF ChallengeType
<1>3. n.used
  <2> HIDE DEF o
  <2> QED BY <1>1 DEF ChallengeType
<1>4. ChallengeSound(n)
  <2> HIDE DEF n, o
  <2> QED BY <1>1, <1>2, <1>3 DEF ChallengeSound
<1>5. [challenge EXCEPT ![t].used = TRUE] = [challenge EXCEPT ![t] = n]
  BY DEF SignInInv, TokensInv
<1> QED BY <1>2, <1>3, <1>4, <1>5

\* The session a challenge leads to.
LEMMA SessionOpened ==
  ASSUME SignInInv, NEW t \in Token, challenge[t] # NULL,
         sessions' = sessions \cup {Session(challenge[t].user, t, challenge[t].after, FALSE)},
         UNCHANGED <<token, resets>>, FlowsKept,
         \A x \in Token : challenge'[x] # NULL =>
           /\ challenge[x] # NULL
           /\ challenge'[x].user = challenge[x].user
           /\ challenge'[x].after = challenge[x].after
  PROVE  SessionsInv' /\ ResetsInv'
<1> DEFINE c == challenge[t]
           s == Session(c.user, t, c.after, FALSE)
<1> USE DEF FlowsKept, FlowKept
<1>1. c \in ChallengeType /\ token[t] = "used" /\ c.after = resets[c.user]
  BY DEF SignInInv, TokensInv, ResetsInv
<1>2. s \in SessionType /\ s.token = t /\ s.user = c.user /\ s.after = c.after /\ ~s.bare
  <2> HIDE DEF c
  <2> QED BY <1>1 DEF Session, SessionType, ChallengeType
<1>3. SessionsInv'
  <2> HIDE DEF s, c
  <2> QED BY <1>1, <1>2 DEF SignInInv, SessionsInv, c, s
<1>4. ResetsInv'
  BY <1>1, <1>2 DEF SignInInv, ResetsInv
<1> QED BY <1>3, <1>4

LEMMA VerifyInv ==
  ASSUME SignInInv, NEW t \in Token, NEW factor \in Factors, Verify(t, factor)
  PROVE  SignInInv'
<1> DEFINE c == challenge[t]
           u == c.user
<1>1. /\ challenge[t] # NULL /\ ~c.used /\ c.attempts < MaxAttempts /\ Confirmed(u)
      /\ UNCHANGED <<secrets, batches, step, active, totp_required, token, owner, flow,
                     enrolling, confirming, resets, protected>>
  BY DEF Verify, Usable
<1>2. c \in ChallengeType /\ u \in User /\ c.attempts \in Nat /\ c.failed \in Nat
      /\ ChallengeSound(c) /\ token[t] = "used"
  BY <1>1, SignInAssumption DEF SignInInv, TokensInv, ChallengesInv, ChallengeType
<1>3. CASE Accepts(u, factor)
  <2> DEFINE n == [c EXCEPT !.used = TRUE]
             P == {factor, Used("challenge", t)}
  <2>1. /\ challenge' = [challenge EXCEPT ![t].used = TRUE] /\ UseFactor(u, factor)
        /\ sessions' = sessions \cup {Session(u, t, c.after, FALSE)} /\ Spend(P)
    BY <1>3 DEF Verify
  <2>2. /\ n \in ChallengeType /\ n.user = u /\ n.after = c.after /\ n.used
        /\ ChallengeSound(n) /\ challenge' = [challenge EXCEPT ![t] = n]
    BY <1>1, <2>1, ChallengeUsed
  <2> HIDE DEF n
  <2>3. /\ TokensInv' /\ ChallengesInv'
        /\ \A x \in Token : challenge'[x] # NULL =>
             /\ challenge[x] # NULL
             /\ challenge'[x].user = challenge[x].user
             /\ challenge'[x].after = challenge[x].after
        /\ \A f : ChallengeSpent(f) => ChallengeSpent(f)'
        /\ ChallengeSpent(Used("challenge", t))'
    BY <1>1, <2>2, ChallengeUpdated, FlowsUnchanged
  <2>4. SessionsInv' /\ ResetsInv'
    BY <1>1, <2>1, <2>3, SessionOpened, FlowsUnchanged
  <2>5. /\ ~SpentSound(factor)
        /\ \/ factor \in TotpCodes /\ Matches(u, factor) /\ Newer(u, factor.at)
           \/ factor.kind = "recovery" /\ factor.of \in recovery[u]
    BY <1>1, <1>2, <1>3, AcceptedFresh
  <2>6. /\ SecretsInv' /\ RecoveryInv'
        /\ \A f \in spent : CodeSpent(f)' /\ RecoverySpent(f)'
        /\ factor.kind \in {"totp", "recovery"} /\ CodeSpent(factor)' /\ RecoverySpent(factor)'
        /\ \A v \in User : /\ Confirmed(v)' <=> Confirmed(v)
                           /\ credential'[v] # NULL => credential[v] # NULL
                                /\ credential'[v].secret = credential[v].secret
                                /\ credential'[v].confirmed = credential[v].confirmed
    <3>0. \A f \in spent : CodeSpent(f) /\ RecoverySpent(f)
      BY DEF SignInInv, SpentInv, SpentSound
    <3>1. CASE factor \in TotpCodes /\ Matches(u, factor) /\ Newer(u, factor.at)
      <4>1. factor.kind = "totp"
        BY <3>1, CodesTyped
      <4>2. credential' = [credential EXCEPT ![u].last_used_step = factor.at]
            /\ UNCHANGED recovery
        BY <2>1, <4>1 DEF UseFactor
      <4>3. RecoveryInv' /\ \A f \in spent : RecoverySpent(f)'
        BY <1>1, <3>0, <4>2 DEF SignInInv, RecoveryInv, RecoverySpent
      <4>4. RecoverySpent(factor)'
        BY <4>1 DEF RecoverySpent
      <4> QED BY <1>1, <1>2, <3>1, <4>1, <4>2, <4>3, <4>4, CodeUsedUp
    <3>2. CASE factor.kind = "recovery" /\ factor.of \in recovery[u]
      <4>1. recovery' = [recovery EXCEPT ![u] = @ \ {factor.of}] /\ UNCHANGED credential
        BY <2>1, <3>2 DEF UseFactor
      <4>2. SecretsInv' /\ \A f \in spent : CodeSpent(f)'
        BY <1>1, <3>0, <4>1, Kept DEF CodeSpent, CodeSpentOf
      <4>3. CodeSpent(factor)'
        BY <3>2 DEF CodeSpent
      <4> QED BY <1>1, <1>2, <3>2, <4>1, <4>2, <4>3, RecoveryUsedUp DEF Confirmed
    <3> QED BY <2>5, <3>1, <3>2
  <2>7. SpentInv'
    <3>1. ~SpentSound(Used("challenge", t))
      BY <1>1 DEF SpentSound, ChallengeSpent, Used
    <3>2. ASSUME NEW f \in spent PROVE SpentSound(f)'
      <4>1. SpentSound(f) /\ TokenSpent(f)'
        BY <1>1 DEF SignInInv, SpentInv, SpentSound, TokenSpent
      <4> QED BY <2>3, <2>6, <4>1 DEF SpentSound
    <3>3. SpentSound(Used("challenge", t))'
      BY <2>3 DEF SpentSound, TokenSpent, RecoverySpent, CodeSpent, Used
    <3>4. SpentSound(factor)'
      BY <2>6 DEF SpentSound, TokenSpent, ChallengeSpent
    <3> QED BY <2>1, <2>5, <3>1, <3>2, <3>3, <3>4, SpendInv DEF SignInInv
  <2>8. FlowsInv'
    BY <1>1, <2>6, FlowsLess
  <2>9. ConfirmingInv'
    BY <1>1, Kept
  <2> QED BY <2>3, <2>4, <2>6, <2>7, <2>8, <2>9 DEF SignInInv
<1>4. CASE ~Accepts(u, factor)
  <2> DEFINE n == WrongGuess(c)
  <2>1. challenge' = [challenge EXCEPT ![t] = n]
        /\ UNCHANGED <<credential, recovery, sessions, spent, respent>>
    BY <1>4 DEF Verify
  <2>2. /\ n \in ChallengeType /\ n.user = u /\ n.after = c.after
        /\ n.attempts = c.attempts + 1 /\ n.failed = c.failed + 1 /\ n.purpose = c.purpose
    <3>1. c.attempts + 1 \in 0 .. MaxAttempts /\ c.failed + 1 \in Nat
      BY <1>1, <1>2, SignInAssumption
    <3> DEFINE b == c.attempts + 1 >= MaxAttempts
    <3>2. b \in BOOLEAN
      OBVIOUS
    <3>3. n = [c EXCEPT !.attempts = @ + 1, !.used = b, !.failed = @ + 1]
      BY DEF WrongGuess
    <3> HIDE DEF c, b, n
    <3> QED BY <1>2, <3>1, <3>2, <3>3 DEF ChallengeType
  <2>3. n.attempts = MaxAttempts => n.used
    <3>1. n.used <=> c.attempts + 1 >= MaxAttempts
      <4> HIDE DEF c
      <4> QED BY <1>2 DEF WrongGuess, ChallengeType
    <3>2. n.attempts = MaxAttempts => c.attempts + 1 >= MaxAttempts
      BY <1>2, <2>2, SignInAssumption
    <3> QED BY <3>1, <3>2
  <2> HIDE DEF n
  <2>4. ChallengeSound(n)
    <3>1. n.purpose = "login" => n.failed <= n.attempts
      BY <1>2, <2>2 DEF ChallengeSound
    <3> QED BY <2>3, <3>1 DEF ChallengeSound
  <2>5. /\ TokensInv' /\ ChallengesInv'
        /\ \A x \in Token : challenge'[x] # NULL =>
             /\ challenge[x] # NULL
             /\ challenge'[x].user = challenge[x].user
             /\ challenge'[x].after = challenge[x].after
        /\ \A f : ChallengeSpent(f) => ChallengeSpent(f)'
    BY <1>1, <2>1, <2>2, <2>4, ChallengeUpdated, FlowsUnchanged
  <2>6. ResetsInv'
    BY <1>1, <2>1, <2>5 DEF SignInInv, ResetsInv
  <2>7. SpentInv'
    <3>1. ASSUME NEW f \in spent PROVE SpentSound(f)'
      <4>1. SpentSound(f)
        BY DEF SignInInv, SpentInv
      <4>2. TokenSpent(f)' /\ RecoverySpent(f)' /\ CodeSpent(f)'
        BY <1>1, <2>1, <4>1 DEF SpentSound, TokenSpent, RecoverySpent, CodeSpent, CodeSpentOf
      <4> QED BY <2>5, <4>1, <4>2 DEF SpentSound
    <3> QED BY <2>1, <3>1 DEF SignInInv, SpentInv
  <2> QED BY <1>1, <2>1, <2>5, <2>6, <2>7, Kept DEF SignInInv
<1> QED BY <1>3, <1>4

LEMMA DisableInv ==
  ASSUME SignInInv, NEW u \in User, NEW factor \in Factors, Disable(u, factor)
  PROVE  SignInInv'
<1>1. /\ Confirmed(u) /\ Accepts(u, factor)
      /\ credential' = [credential EXCEPT ![u] = NULL]
      /\ recovery' = [recovery EXCEPT ![u] = {}]
      /\ Spend({factor}) /\ protected' = protected \ {u}
      /\ UNCHANGED <<secrets, batches, step, active, totp_required, token, flow, challenge,
                     sessions, enrolling, confirming, resets>>
  BY DEF Disable
<1>2. credential[u] # NULL
  BY <1>1 DEF Confirmed
<1>3. /\ ~SpentSound(factor)
      /\ \/ factor \in TotpCodes /\ Matches(u, factor)
         \/ factor.kind = "recovery" /\ factor.of \in recovery[u]
  BY <1>1, AcceptedFresh
<1>4. /\ SecretsInv' /\ \A f : CodeSpent(f) => CodeSpent(f)'
      /\ factor \in TotpCodes /\ Matches(u, factor) => CodeSpent(factor)'
      /\ \A v \in User : credential'[v] = IF v = u THEN NULL ELSE credential[v]
  BY <1>1, <1>2, CredentialGone
<1>5. RecoveryInv' /\ \A f : RecoverySpent(f) => RecoverySpent(f)'
  BY <1>1, RecoveryGone
<1>6. SpentInv'
  <2>1. ASSUME NEW f \in spent PROVE SpentSound(f)'
    <3>1. SpentSound(f) /\ TokenSpent(f)' /\ ChallengeSpent(f)'
      BY <1>1 DEF SignInInv, SpentInv, SpentSound, TokenSpent, ChallengeSpent
    <3> QED BY <1>4, <1>5, <3>1 DEF SpentSound
  <2>2. SpentSound(factor)'
    <3>1. CASE factor \in TotpCodes /\ Matches(u, factor)
      <4>1. factor.kind = "totp"
        BY <3>1, CodesTyped
      <4> QED BY <1>4, <3>1, <4>1
              DEF SpentSound, TokenSpent, ChallengeSpent, RecoverySpent
    <3>2. CASE factor.kind = "recovery" /\ factor.of \in recovery[u]
      <4>1. factor.of \in 1 .. batches
        BY <3>2 DEF SignInInv, RecoveryInv
      <4>2. \A v \in User : factor.of \notin recovery'[v]
        BY <1>1, <3>2 DEF SignInInv, RecoveryInv
      <4>3. RecoverySpent(factor)'
        BY <1>1, <4>1, <4>2 DEF RecoverySpent
      <4> QED BY <3>2, <4>3 DEF SpentSound, TokenSpent, ChallengeSpent, CodeSpent
    <3> QED BY <1>3, <3>1, <3>2
  <2> QED BY <1>1, <1>3, <2>1, <2>2, SpendInv DEF SignInInv
<1>7. FlowsInv'
  BY <1>1, <1>4, FlowsLess DEF Confirmed
<1> QED BY <1>1, <1>4, <1>5, <1>6, <1>7, Kept DEF SignInInv

LEMMA RegenerateInv ==
  ASSUME SignInInv, NEW u \in User, NEW factor \in Factors,
         RegenerateRecoveryCodes(u, factor)
  PROVE  SignInInv'
<1>1. /\ Confirmed(u) /\ Accepts(u, factor) /\ factor.kind = "totp"
      /\ credential' = [credential EXCEPT ![u].last_used_step = factor.at]
      /\ NewRecoveryCodes(u) /\ Spend({factor})
      /\ UNCHANGED <<secrets, step, signInVars>>
  BY DEF RegenerateRecoveryCodes
<1>2. factor \in TotpCodes /\ Matches(u, factor) /\ Newer(u, factor.at)
  BY <1>1, AcceptedFresh
<1>3. UNCHANGED <<secrets, step, active, totp_required, token, flow, challenge, sessions,
                  enrolling, confirming, resets, protected>>
  BY <1>1 DEF signInVars
<1>4. /\ ~SpentSound(factor) /\ SecretsInv'
      /\ \A f \in spent : CodeSpent(f)'
      /\ CodeSpent(factor)'
      /\ \A v \in User : /\ Confirmed(v)' <=> Confirmed(v)
                         /\ credential'[v] # NULL => credential[v] # NULL
                              /\ credential'[v].secret = credential[v].secret
                              /\ credential'[v].confirmed = credential[v].confirmed
  BY <1>1, <1>2, <1>3, CodeUsedUp
<1>5. RecoveryInv' /\ \A f : RecoverySpent(f) => RecoverySpent(f)'
  BY <1>1, RecoveryNew
<1>6. SpentInv'
  <2>1. ASSUME NEW f \in spent PROVE SpentSound(f)'
    <3>1. SpentSound(f) /\ TokenSpent(f)' /\ ChallengeSpent(f)'
      BY <1>3 DEF SignInInv, SpentInv, SpentSound, TokenSpent, ChallengeSpent
    <3> QED BY <1>4, <1>5, <3>1 DEF SpentSound
  <2>2. SpentSound(factor)'
    BY <1>1, <1>4 DEF SpentSound, TokenSpent, ChallengeSpent, RecoverySpent
  <2> QED BY <1>1, <1>4, <2>1, <2>2, SpendInv DEF SignInInv
<1>7. FlowsInv'
  BY <1>3, <1>4, FlowsLess
<1> QED BY <1>3, <1>4, <1>5, <1>6, <1>7, Kept DEF SignInInv

-----------------------------------------------------------------------------
\* Enrolling.

\* A credential that is not confirmed brings a secret of its own.
Introduces(u, secret) ==
  /\ secret \in 1 .. secrets' /\ secrets' \in 0 .. MaxSecrets /\ secrets <= secrets'
  /\ step' = step
  /\ credential' = [credential EXCEPT ![u] = Unconfirmed(secret)]
  /\ enrolling' \in [User -> SUBSET (1 .. secrets')]
  /\ \A v \in User : enrolling'[v] \subseteq enrolling[v] /\ secret \notin enrolling'[v]
  /\ \A v \in User \ {u} : credential[v] # NULL => credential[v].secret # secret
  /\ \A f \in spent : f.kind = "totp" => f.of # secret

LEMMA NewCredential ==
  ASSUME SignInInv, NEW u \in User, NEW secret, Introduces(u, secret)
  PROVE  /\ SecretsInv'
         /\ \A f \in spent : CodeSpent(f)'
         /\ credential'[u] # NULL /\ ~credential'[u].confirmed
         /\ \A v \in User \ {u} : credential'[v] = credential[v]
<1> USE DEF Introduces
<1> DEFINE n == Unconfirmed(secret)
<1>1. n \in CredentialType /\ n.secret = secret /\ ~n.confirmed /\ n.last_used_step = NULL
  BY DEF Unconfirmed, CredentialType
<1>2. n # NULL
  BY <1>1, FactorAssumption
<1>3. \A v \in User : credential'[v] = IF v = u THEN n ELSE credential[v]
  BY DEF SignInInv, SecretsInv
<1>4. 1 .. secrets \subseteq 1 .. secrets'
  BY FactorAssumption DEF SignInInv, SecretsInv
<1> HIDE DEF n
<1>5. SecretsInv'
  <2>1. credential' \in [User -> CredentialType \cup {NULL}]
    BY <1>1 DEF SignInInv, SecretsInv, n
  <2>2. \A v \in User : credential'[v] # NULL =>
          /\ credential'[v].secret \in 1 .. secrets'
          /\ credential'[v].last_used_step \in (0 .. MaxStep + 1) \cup {NULL}
    BY <1>1, <1>3, <1>4 DEF SignInInv, SecretsInv
  <2>3. \A v \in User : credential'[v] # NULL /\ ~credential'[v].confirmed
                          => credential'[v].last_used_step = NULL
    BY <1>1, <1>3 DEF SignInInv, SecretsInv
  <2>4. ASSUME NEW v \in User, NEW w \in User
        PROVE  /\ v # w /\ credential'[v] # NULL /\ credential'[w] # NULL
                    => credential'[v].secret # credential'[w].secret
               /\ v # w => enrolling'[v] \cap enrolling'[w] = {}
               /\ credential'[v] # NULL => credential'[v].secret \notin enrolling'[w]
    <3>1. v # w /\ credential'[v] # NULL /\ credential'[w] # NULL
            => credential'[v].secret # credential'[w].secret
      BY <1>1, <1>3 DEF SignInInv, SecretsInv
    <3>2. v # w => enrolling'[v] \cap enrolling'[w] = {}
      BY DEF SignInInv, SecretsInv
    <3>3. credential'[v] # NULL => credential'[v].secret \notin enrolling'[w]
      BY <1>1, <1>3 DEF SignInInv, SecretsInv
    <3> QED BY <3>1, <3>2, <3>3
  <2> QED BY <2>1, <2>2, <2>3, <2>4 DEF SignInInv, SecretsInv
<1>6. ASSUME NEW f \in spent PROVE CodeSpent(f)'
  <2> SUFFICES ASSUME f.kind = "totp"
               PROVE  f.of \in 1 .. secrets' /\ f.at \in Nat /\ \A v \in User : CodeSpentOf(v, f)'
    BY DEF CodeSpent
  <2>1. f.of \in 1 .. secrets /\ f.at \in Nat /\ \A v \in User : CodeSpentOf(v, f)
    BY DEF SignInInv, SpentInv, SpentSound, CodeSpent
  <2>2. f.of # secret
    OBVIOUS
  <2>3. ASSUME NEW v \in User PROVE CodeSpentOf(v, f)'
    <3>1. f.of \notin enrolling'[v]
      BY <2>1, <2>2 DEF CodeSpentOf
    <3> QED BY <1>1, <1>3, <2>1, <2>2, <3>1 DEF CodeSpentOf
  <2> QED BY <1>4, <2>1, <2>3
<1> QED BY <1>1, <1>2, <1>3, <1>5, <1>6

LEMMA EnrollInv ==
  ASSUME SignInInv, NEW u \in User, Enroll(u)
  PROVE  SignInInv'
<1> DEFINE secret == secrets + 1
<1>1. /\ ~Confirmed(u) /\ secrets < MaxSecrets
      /\ secrets' = secret
      /\ UNCHANGED <<recovery, batches, step, spent, respent, active, totp_required, token,
                     flow, challenge, sessions, confirming, resets, protected>>
  BY DEF Enroll
<1>2. /\ secrets \in Nat /\ secret \in 0 .. MaxSecrets /\ secret \in 1 .. secrets'
      /\ 1 .. secrets \subseteq 1 .. secrets' /\ secret \notin 1 .. secrets
      /\ secrets <= secrets'
  BY <1>1, FactorAssumption DEF SignInInv, SecretsInv
<1>3. \A f \in spent : f.kind = "totp" => f.of \in 1 .. secrets
  BY DEF SignInInv, SpentInv, SpentSound, CodeSpent
<1> HIDE DEF secret
<1>4. /\ SecretsInv' /\ FlowsInv'
      /\ \A f \in spent : CodeSpent(f)'
  <2>1. CASE credential[u] = NULL
    <3>1. /\ enrolling' = [enrolling EXCEPT ![u] = @ \cup {secret}] /\ UNCHANGED credential
      BY <1>1, <2>1 DEF Enroll, secret
    <3>2. \A v \in User : enrolling'[v] = IF v = u THEN enrolling[u] \cup {secret}
                                          ELSE enrolling[v]
      BY <3>1 DEF SignInInv, SecretsInv
    <3>3. SecretsInv'
      BY <1>1, <1>2, <3>1, <3>2 DEF SignInInv, SecretsInv
    <3>4. ASSUME NEW f \in spent PROVE CodeSpent(f)'
      <4> SUFFICES ASSUME f.kind = "totp"
                   PROVE  /\ f.of \in 1 .. secrets' /\ f.at \in Nat
                          /\ \A v \in User : CodeSpentOf(v, f)'
        BY DEF CodeSpent
      <4>1. f.of \in 1 .. secrets /\ f.at \in Nat /\ \A v \in User : CodeSpentOf(v, f)
        BY DEF SignInInv, SpentInv, SpentSound, CodeSpent
      <4>2. \A v \in User : CodeSpentOf(v, f)'
        BY <1>2, <3>1, <3>2, <4>1 DEF CodeSpentOf
      <4> QED BY <1>2, <4>1, <4>2
    <3> QED BY <1>1, <3>1, <3>3, <3>4, Kept
  <2>2. CASE credential[u] # NULL
    <3>1. /\ credential' = [credential EXCEPT ![u] = Unconfirmed(secret)]
          /\ UNCHANGED enrolling
      BY <1>1, <2>2 DEF Enroll, secret
    <3>2. enrolling' \in [User -> SUBSET (1 .. secrets')]
      BY <1>2, <3>1 DEF SignInInv, SecretsInv
    <3>3. \A v \in User : secret \notin enrolling'[v]
      BY <1>2, <3>1 DEF SignInInv, SecretsInv
    <3>4. \A v \in User \ {u} : credential[v] # NULL => credential[v].secret # secret
      BY <1>2 DEF SignInInv, SecretsInv
    <3>5. /\ SecretsInv' /\ \A f \in spent : CodeSpent(f)'
          /\ \A v \in User \ {u} : credential'[v] = credential[v]
          /\ ~credential'[u].confirmed
      <4>1. \A v \in User : enrolling'[v] \subseteq enrolling[v]
        BY <3>1
      <4>2. \A f \in spent : f.kind = "totp" => f.of # secret
        BY <1>2, <1>3
      <4>3. secrets' \in 0 .. MaxSecrets
        BY <1>1, <1>2
      <4>4. Introduces(u, secret)
        BY <1>1, <1>2, <3>1, <3>2, <3>3, <3>4, <4>1, <4>2, <4>3 DEF Introduces
      <4> QED BY <4>4, NewCredential
    <3>6. FlowsInv'
      BY <1>1, <3>5, FlowsLess DEF Confirmed
    <3> QED BY <3>5, <3>6
  <2> QED BY <2>1, <2>2
<1>5. SpentInv'
  <2>1. ASSUME NEW f \in spent PROVE SpentSound(f)'
    <3>1. SpentSound(f) /\ TokenSpent(f)' /\ ChallengeSpent(f)' /\ RecoverySpent(f)'
      BY <1>1 DEF SignInInv, SpentInv, SpentSound, TokenSpent, ChallengeSpent, RecoverySpent
    <3> QED BY <1>4, <3>1 DEF SpentSound
  <2> QED BY <1>1, <2>1 DEF SignInInv, SpentInv
<1> QED BY <1>1, <1>4, <1>5, Kept DEF SignInInv

LEMMA InsertInv ==
  ASSUME SignInInv, NEW u \in User, NEW secret, InsertEnrollment(u, secret)
  PROVE  SignInInv'
<1>1. /\ secret \in enrolling[u]
      /\ credential' = [credential EXCEPT ![u] = Unconfirmed(secret)]
      /\ enrolling' = [enrolling EXCEPT ![u] = @ \ {secret}]
      /\ UNCHANGED <<recovery, secrets, batches, step, spent, respent, active, totp_required,
                     token, flow, challenge, sessions, confirming, resets>>
  BY DEF InsertEnrollment
<1>2. /\ secret \in 1 .. secrets' /\ secrets' \in 0 .. MaxSecrets /\ secrets <= secrets'
      /\ enrolling' \in [User -> SUBSET (1 .. secrets')]
      /\ \A v \in User : enrolling'[v] \subseteq enrolling[v] /\ secret \notin enrolling'[v]
      /\ \A v \in User \ {u} : credential[v] # NULL => credential[v].secret # secret
  BY <1>1, FactorAssumption DEF SignInInv, SecretsInv
<1>3. \A f \in spent : f.kind = "totp" => f.of # secret
  BY <1>1 DEF SignInInv, SpentInv, SpentSound, CodeSpent, CodeSpentOf
<1>4. /\ SecretsInv' /\ \A f \in spent : CodeSpent(f)'
      /\ ~credential'[u].confirmed
      /\ \A v \in User \ {u} : credential'[v] = credential[v]
  <2>1. Introduces(u, secret)
    BY <1>1, <1>2, <1>3 DEF Introduces
  <2> QED BY <2>1, NewCredential
<1>5. SpentInv'
  <2>1. ASSUME NEW f \in spent PROVE SpentSound(f)'
    <3>1. SpentSound(f) /\ TokenSpent(f)' /\ ChallengeSpent(f)' /\ RecoverySpent(f)'
      BY <1>1 DEF SignInInv, SpentInv, SpentSound, TokenSpent, ChallengeSpent, RecoverySpent
    <3> QED BY <1>4, <3>1 DEF SpentSound
  <2> QED BY <1>1, <2>1 DEF SignInInv, SpentInv
<1>6. FlowsInv'
  BY <1>1, <1>4, FlowsLess DEF Confirmed
<1> QED BY <1>1, <1>4, <1>5, <1>6, Kept DEF SignInInv

LEMMA CheckCodeInv ==
  ASSUME SignInInv, NEW r \in Request, NEW u \in User, NEW factor \in TotpCodes, NEW t \in Cookies,
         CheckCode(r, u, factor, t)
  PROVE  SignInInv'
<1> DEFINE d == [request |-> r, user |-> u, factor |-> factor, token |-> t]
<1>1. /\ \A c \in confirming : c.request # r
      /\ confirming' = confirming \cup {d}
      /\ UNCHANGED <<factorVars, spent, respent, active, totp_required, token, flow, challenge,
                     sessions, enrolling, resets, protected>>
  BY DEF CheckCode
<1>2. d \in ConfirmingType /\ d.request = r
  BY CodesTyped DEF ConfirmingType, Cookies
<1> HIDE DEF d
<1>3. ConfirmingInv'
  BY <1>1, <1>2 DEF SignInInv, ConfirmingInv
<1> QED BY <1>1, <1>3, Kept DEF SignInInv, factorVars

LEMMA GiveUpInv ==
  ASSUME SignInInv, NEW c \in confirming, GiveUpConfirming(c)
  PROVE  SignInInv'
<1>1. /\ confirming' \subseteq confirming
      /\ UNCHANGED <<factorVars, spent, respent, active, totp_required, token, flow, challenge,
                     sessions, enrolling, resets, protected>>
  BY DEF GiveUpConfirming
<1>2. ConfirmingInv'
  BY <1>1 DEF SignInInv, ConfirmingInv
<1> QED BY <1>1, <1>2, Kept DEF SignInInv, factorVars

LEMMA MistypeInv ==
  ASSUME SignInInv, NEW t \in Token, MistypeConfirmation(t)
  PROVE  SignInInv'
<1> DEFINE o == challenge[t]
           n == [o EXCEPT !.failed = @ + 1]
<1>1. /\ o # NULL /\ o.purpose = "enroll" /\ o \in ChallengeType /\ ChallengeSound(o)
      /\ challenge' = [challenge EXCEPT ![t] = n]
      /\ UNCHANGED <<credential, recovery, secrets, batches, step, spent, respent, active,
                     totp_required, token, flow, sessions, enrolling, confirming, resets,
                     protected>>
  BY DEF MistypeConfirmation, Usable, SignInInv, TokensInv, ChallengesInv, factorVars
<1>2. /\ n \in ChallengeType /\ n.user = o.user /\ n.after = o.after
      /\ n.purpose = o.purpose /\ n.attempts = o.attempts /\ n.used = o.used
  <2> HIDE DEF o
  <2> QED BY <1>1 DEF ChallengeType
<1> HIDE DEF n
<1>3. ChallengeSound(n)
  BY <1>1, <1>2 DEF ChallengeSound
<1>4. /\ TokensInv' /\ ChallengesInv'
      /\ \A x \in Token : challenge'[x] # NULL =>
           /\ challenge[x] # NULL
           /\ challenge'[x].user = challenge[x].user
           /\ challenge'[x].after = challenge[x].after
      /\ \A f : ChallengeSpent(f) => ChallengeSpent(f)'
  BY <1>1, <1>2, <1>3, ChallengeUpdated, FlowsUnchanged
<1>5. ResetsInv'
  BY <1>1, <1>4 DEF SignInInv, ResetsInv
<1>6. SpentInv'
  <2>1. ASSUME NEW f \in spent PROVE SpentSound(f)'
    <3>1. SpentSound(f)
      BY DEF SignInInv, SpentInv
    <3>2. TokenSpent(f)' /\ RecoverySpent(f)' /\ CodeSpent(f)'
      BY <1>1, <3>1 DEF SpentSound, TokenSpent, RecoverySpent, CodeSpent, CodeSpentOf
    <3> QED BY <1>4, <3>1, <3>2 DEF SpentSound
  <2> QED BY <1>1, <2>1 DEF SignInInv, SpentInv
<1> QED BY <1>1, <1>4, <1>5, <1>6, Kept DEF SignInInv, factorVars

\* A code confirms: its step is the last one used.
LEMMA CredentialConfirmed ==
  ASSUME SignInInv, NEW u \in User, NEW f \in CodeType,
         credential[u] # NULL, ~credential[u].confirmed,
         credential' = [credential EXCEPT ![u] = Activated(@, f.at)],
         UNCHANGED <<secrets, step, enrolling>>
  PROVE  /\ SecretsInv' /\ Confirmed(u)'
         /\ \A v \in User : v # u => credential'[v] = credential[v]
         /\ credential'[u].secret = credential[u].secret
         /\ \A g : CodeSpent(g) => CodeSpent(g)'
         /\ f.of = credential[u].secret => ~SpentSound(f) /\ CodeSpent(f)'
<1> DEFINE o == credential[u]
           n == [o EXCEPT !.confirmed = TRUE, !.last_used_step = f.at]
<1>1. /\ f.kind = "totp" /\ f.of \in Nat /\ f.at \in 0 .. MaxStep + 1 /\ f.at \in Nat
      /\ f.at # NULL
  BY FactorAssumption DEF CodeType
<1>2. /\ o \in CredentialType /\ o # NULL /\ ~o.confirmed /\ o.secret \in 1 .. secrets
      /\ o.last_used_step = NULL
  BY DEF SignInInv, SecretsInv
<1>3. n \in CredentialType /\ n.secret = o.secret /\ n.last_used_step = f.at
  <2> HIDE DEF o
  <2> QED BY <1>1, <1>2 DEF CredentialType
<1>4. n.confirmed
  <2> HIDE DEF o
  <2> QED BY <1>1, <1>2 DEF CredentialType
<1>5. n # NULL
  BY <1>3, FactorAssumption
<1>6. credential' = [credential EXCEPT ![u] = n]
  BY DEF Activated
<1> HIDE DEF n
<1>7. \A v \in User : credential'[v] = IF v = u THEN n ELSE credential[v]
  BY <1>6 DEF SignInInv, SecretsInv
<1>8. SecretsInv'
  <2>1. credential' \in [User -> CredentialType \cup {NULL}]
    BY <1>3, <1>6 DEF SignInInv, SecretsInv
  <2>2. \A v \in User : credential'[v] # NULL =>
          /\ credential'[v].secret \in 1 .. secrets
          /\ credential'[v].last_used_step \in (0 .. MaxStep + 1) \cup {NULL}
    BY <1>1, <1>2, <1>3, <1>7 DEF SignInInv, SecretsInv
  <2>3. \A v \in User : credential'[v] # NULL /\ ~credential'[v].confirmed
                          => credential'[v].last_used_step = NULL
    BY <1>4, <1>7 DEF SignInInv, SecretsInv
  <2>4. \A v \in User : credential'[v] # NULL
                          => credential[v] # NULL /\ credential'[v].secret = credential[v].secret
    BY <1>2, <1>3, <1>7
  <2>5. ASSUME NEW v \in User, NEW w \in User
        PROVE  /\ v # w /\ credential'[v] # NULL /\ credential'[w] # NULL
                    => credential'[v].secret # credential'[w].secret
               /\ v # w => enrolling'[v] \cap enrolling'[w] = {}
               /\ credential'[v] # NULL => credential'[v].secret \notin enrolling'[w]
    BY <2>4 DEF SignInInv, SecretsInv
  <2> QED BY <2>1, <2>2, <2>3, <2>5 DEF SignInInv, SecretsInv
<1>9. ASSUME NEW g, CodeSpent(g) PROVE CodeSpent(g)'
  <2>1. ASSUME NEW v \in User, CodeSpentOf(v, g) PROVE CodeSpentOf(v, g)'
    BY <1>2, <1>3, <1>7, <2>1 DEF CodeSpentOf
  <2> QED BY <1>9, <2>1 DEF CodeSpent
<1>10. ASSUME f.of = o.secret PROVE ~SpentSound(f) /\ CodeSpent(f)'
  <2>1. ~SpentSound(f)
    BY <1>1, <1>2, <1>10 DEF SpentSound, CodeSpent, CodeSpentOf
  <2>2. ASSUME NEW v \in User PROVE CodeSpentOf(v, f)'
    <3>1. f.of \notin enrolling'[v]
      BY <1>2, <1>10 DEF SignInInv, SecretsInv
    <3>2. v # u /\ credential[v] # NULL => credential[v].secret # f.of
      BY <1>2, <1>10 DEF SignInInv, SecretsInv
    <3>3. f.at <= f.at
      BY <1>1
    <3> QED BY <1>1, <1>3, <1>7, <3>1, <3>2, <3>3 DEF CodeSpentOf
  <2>3. CodeSpent(f)'
    BY <1>1, <1>2, <1>10, <2>2 DEF CodeSpent
  <2> QED BY <2>1, <2>3
<1>11. Confirmed(u)'
  BY <1>4, <1>5, <1>7 DEF Confirmed
<1> QED BY <1>3, <1>7, <1>8, <1>9, <1>10, <1>11

LEMMA ConfirmInv ==
  ASSUME SignInInv, NEW c \in confirming, Confirm(c)
  PROVE  SignInInv'
<1> DEFINE u == c.user
           t == c.token
           P == (IF c.factor.of = credential[u].secret THEN {c.factor} ELSE {})
                  \cup (IF t = NULL THEN {} ELSE {Used("challenge", t)})
<1>1. /\ credential[u] # NULL /\ ~credential[u].confirmed
      /\ credential' = [credential EXCEPT ![u] = Activated(@, c.factor.at)]
      /\ confirming' = confirming \ {c} /\ NewRecoveryCodes(u) /\ Spend(P)
      /\ protected' = protected \cup {u} /\ Overtake(u)
      /\ UNCHANGED <<secrets, step, active, totp_required, token, owner, enrolling, resets>>
  BY DEF Confirm, Confirmed
<1>2. u \in User /\ c.factor \in CodeType /\ c.factor.kind = "totp" /\ t \in Token \cup {NULL}
  BY DEF SignInInv, ConfirmingInv, ConfirmingType, CodeType
<1> HIDE DEF u, t
<1>3. /\ SecretsInv' /\ Confirmed(u)'
      /\ \A v \in User : v # u => credential'[v] = credential[v]
      /\ credential'[u].secret = credential[u].secret
      /\ \A g : CodeSpent(g) => CodeSpent(g)'
      /\ c.factor.of = credential[u].secret => ~SpentSound(c.factor) /\ CodeSpent(c.factor)'
  BY <1>1, <1>2, CredentialConfirmed
<1>4. RecoveryInv' /\ \A f : RecoverySpent(f) => RecoverySpent(f)'
  BY <1>1, <1>2, RecoveryNew
<1>5. FlowsKept /\ FlowsInv'
  <2>1. totp_required' \in [User -> BOOLEAN]
    BY <1>1 DEF SignInInv, FlowsInv
  <2>2. \A v \in User \ {u} : Due(v)' => Due(v)
    BY <1>1, <1>3 DEF Due, Confirmed
  <2> QED BY <1>1, <1>2, <2>1, <2>2, Overtaken
<1>6. /\ TokensInv' /\ ChallengesInv' /\ SessionsInv' /\ ResetsInv'
      /\ \A f : ChallengeSpent(f) => ChallengeSpent(f)'
      /\ t # NULL => /\ ~SpentSound(Used("challenge", t))
                     /\ ChallengeSpent(Used("challenge", t))'
  <2>1. CASE t = NULL
    <3>1. UNCHANGED <<challenge, sessions, token, resets>>
      BY <1>1, <2>1 DEF Confirm, t
    <3>2. TokensInv' /\ ResetsInv'
      BY <1>5, <3>1 DEF SignInInv, TokensInv, ResetsInv, FlowsKept, FlowKept
    <3>3. \A f : ChallengeSpent(f) => ChallengeSpent(f)'
      BY <3>1 DEF ChallengeSpent
    <3> QED BY <2>1, <3>1, <3>2, <3>3, Kept
  <2>2. CASE t # NULL
    <3> DEFINE n == [challenge[t] EXCEPT !.used = TRUE]
    <3>1. /\ t \in Token /\ challenge[t] # NULL /\ ~challenge[t].used /\ challenge[t].user = u
          /\ challenge' = [challenge EXCEPT ![t].used = TRUE]
          /\ sessions' = sessions \cup {Session(challenge[t].user, t, challenge[t].after, FALSE)}
      BY <1>2, <2>2 DEF Confirm, Usable, t, u
    <3>2. /\ n \in ChallengeType /\ n.user = challenge[t].user /\ n.after = challenge[t].after
          /\ n.used /\ ChallengeSound(n) /\ challenge' = [challenge EXCEPT ![t] = n]
      BY <3>1, ChallengeUsed
    <3> HIDE DEF n
    <3>3. /\ TokensInv' /\ ChallengesInv'
          /\ \A x \in Token : challenge'[x] # NULL =>
               /\ challenge[x] # NULL
               /\ challenge'[x].user = challenge[x].user
               /\ challenge'[x].after = challenge[x].after
          /\ \A f : ChallengeSpent(f) => ChallengeSpent(f)'
          /\ ChallengeSpent(Used("challenge", t))'
      BY <1>1, <1>5, <3>1, <3>2, ChallengeUpdated
    <3>4. SessionsInv' /\ ResetsInv'
      BY <1>1, <1>5, <3>1, <3>3, SessionOpened
    <3>5. ~SpentSound(Used("challenge", t))
      BY <3>1 DEF SpentSound, ChallengeSpent, Used
    <3> QED BY <3>3, <3>4, <3>5
  <2> QED BY <2>1, <2>2
<1>7. SpentInv'
  <2>1. ASSUME NEW f \in spent PROVE SpentSound(f)'
    <3>1. SpentSound(f) /\ TokenSpent(f)'
      BY <1>1 DEF SignInInv, SpentInv, SpentSound, TokenSpent
    <3> QED BY <1>3, <1>4, <1>6, <3>1 DEF SpentSound
  <2>2. ASSUME NEW f \in P PROVE ~SpentSound(f) /\ SpentSound(f)'
    <3>1. CASE f = c.factor /\ c.factor.of = credential[u].secret
      BY <1>2, <1>3, <3>1 DEF SpentSound, TokenSpent, ChallengeSpent, RecoverySpent
    <3>2. CASE t # NULL /\ f = Used("challenge", t)
      BY <1>6, <3>2 DEF SpentSound, TokenSpent, RecoverySpent, CodeSpent, Used
    <3> QED BY <3>1, <3>2
  <2> HIDE DEF P
  <2> QED BY <1>1, <2>1, <2>2, SpendInv DEF SignInInv
<1>8. ConfirmingInv'
  BY <1>1 DEF SignInInv, ConfirmingInv
<1> QED BY <1>3, <1>4, <1>5, <1>6, <1>7, <1>8 DEF SignInInv

-----------------------------------------------------------------------------
\* Resets, expiry, and the user service.

LEMMA ResetInv ==
  ASSUME SignInInv, NEW u \in User, Reset(u)
  PROVE  SignInInv'
<1>1. /\ resets[u] < MaxResets /\ resets' = [resets EXCEPT ![u] = @ + 1]
      /\ credential' = [credential EXCEPT ![u] = NULL]
      /\ recovery' = [recovery EXCEPT ![u] = {}]
      /\ challenge' = ChallengesAfterReset(u)
      /\ sessions' = {s \in sessions : s.user # u}
      /\ protected' = protected \ {u}
      /\ flow' = [t \in Token |-> IF t \in FlowsOf(u) THEN [flow[t] EXCEPT !.after = @ + 1]
                                 ELSE flow[t]]
      /\ UNCHANGED <<secrets, batches, step, spent, respent, active, totp_required, token, owner,
                     enrolling, confirming>>
  BY DEF Reset
<1>2. /\ resets' \in [User -> 0 .. MaxResets] /\ resets'[u] = resets[u] + 1
      /\ \A v \in User : v # u => resets'[v] = resets[v]
  BY <1>1, SignInAssumption DEF SignInInv, ResetsInv
<1>3. \A t \in Token : \/ challenge'[t] = NULL
                       \/ challenge'[t] = challenge[t] /\ challenge[t].user # u
  BY <1>1 DEF ChallengesAfterReset
<1>4. challenge' \in [Token -> ChallengeType \cup {NULL}]
  BY <1>1 DEF ChallengesAfterReset, SignInInv, TokensInv
<1>5. ASSUME NEW t \in Token
      PROVE  \/ flow'[t] = flow[t] /\ (flow[t] # NULL => flow[t].user # u)
             \/ /\ flow[t] # NULL /\ flow'[t] \in FlowType /\ flow'[t].user = flow[t].user
                /\ flow[t].user = u /\ flow'[t].after = resets'[u]
                /\ flow'[t].overtaken = flow[t].overtaken
                /\ SecondFactorDue(flow'[t]) = SecondFactorDue(flow[t])
  <2>1. CASE t \notin FlowsOf(u)
    BY <1>1, <2>1 DEF FlowsOf
  <2>2. CASE t \in FlowsOf(u)
    <3> DEFINE o == flow[t]
               n == [o EXCEPT !.after = @ + 1]
    <3>1. /\ o \in FlowType /\ o # NULL /\ flow'[t] = n /\ o.user = u
          /\ o.after = resets[u]
      BY <1>1, <2>2 DEF FlowsOf, SignInInv, TokensInv, ResetsInv
    <3>2. /\ n \in FlowType /\ n.user = o.user /\ n.after = o.after + 1
          /\ n.overtaken = o.overtaken /\ n.enabled = o.enabled /\ n.required = o.required
      <4> HIDE DEF o
      <4> QED BY <3>1 DEF FlowType
    <3> HIDE DEF n
    <3> QED BY <1>2, <3>1, <3>2 DEF SecondFactorDue
  <2> QED BY <2>1, <2>2
<1>6. TokensInv'
  <2>1. \A t \in Token : flow'[t] \in FlowType \cup {NULL}
    BY <1>5 DEF SignInInv, TokensInv
  <2>2. flow' \in [Token -> FlowType \cup {NULL}]
    BY <1>1, <2>1
  <2>3. \A t \in Token : flow'[t] # NULL <=> token'[t] = "taken"
    BY <1>1, <1>5, SignInAssumption DEF SignInInv, TokensInv
  <2> QED BY <1>1, <1>3, <1>4, <2>2, <2>3 DEF SignInInv, TokensInv
<1>7. ChallengesInv'
  BY <1>3 DEF SignInInv, ChallengesInv
<1>8. ResetsInv'
  <2>1. \A t \in Token : challenge'[t] # NULL =>
          challenge'[t].after = resets'[challenge'[t].user]
    BY <1>2, <1>3 DEF SignInInv, ResetsInv, TokensInv, ChallengeType
  <2>2. \A t \in Token : flow'[t] # NULL => flow'[t].after = resets'[flow'[t].user]
    BY <1>2, <1>5 DEF SignInInv, ResetsInv, TokensInv, FlowType
  <2>3. \A s \in sessions' : s.after = resets'[s.user]
    BY <1>1, <1>2 DEF SignInInv, ResetsInv, SessionsInv, SessionType
  <2> QED BY <1>2, <2>1, <2>2, <2>3 DEF ResetsInv
<1>9. SessionsInv'
  BY <1>1 DEF SignInInv, SessionsInv
<1>11. /\ SecretsInv' /\ \A f : CodeSpent(f) => CodeSpent(f)'
       /\ \A v \in User : credential'[v] = IF v = u THEN NULL ELSE credential[v]
  BY <1>1, CredentialGone
<1>10. FlowsInv'
  <2>1. ASSUME NEW t \in Token
        PROVE  (flow[t] # NULL /\ ~flow[t].overtaken /\ Due(flow[t].user)
                  => SecondFactorDue(flow[t]))'
    <3> SUFFICES ASSUME flow'[t] # NULL, ~flow'[t].overtaken, Due(flow[t].user)'
                 PROVE  SecondFactorDue(flow'[t])
      OBVIOUS
    <3>1. flow[t] # NULL /\ flow'[t].user = flow[t].user /\ ~flow[t].overtaken
      BY <1>5
    <3>2. Due(flow[t].user)
      <4>1. PICK v \in User : v = flow[t].user
        BY <3>1 DEF SignInInv, TokensInv, FlowType
      <4>2. Due(v)'
        BY <3>1, <4>1 DEF Due, Confirmed
      <4> QED BY <1>1, <1>11, <4>1, <4>2 DEF Due, Confirmed
    <3>3. SecondFactorDue(flow[t])
      BY <3>1, <3>2 DEF SignInInv, FlowsInv
    <3> QED BY <1>5, <3>3 DEF SecondFactorDue
  <2> QED BY <1>1, <2>1 DEF SignInInv, FlowsInv
<1>12. RecoveryInv' /\ \A f : RecoverySpent(f) => RecoverySpent(f)'
  BY <1>1, RecoveryGone
<1>13. SpentInv'
  <2>1. ASSUME NEW f \in spent PROVE SpentSound(f)'
    <3>1. SpentSound(f) /\ TokenSpent(f)'
      BY <1>1 DEF SignInInv, SpentInv, SpentSound, TokenSpent
    <3>2. ChallengeSpent(f)'
      BY <1>1, <1>3, <3>1 DEF SpentSound, ChallengeSpent
    <3> QED BY <1>11, <1>12, <3>1, <3>2 DEF SpentSound
  <2> QED BY <1>1, <2>1 DEF SignInInv, SpentInv
<1>14. ConfirmingInv'
  BY <1>1, Kept
<1> QED BY <1>6, <1>7, <1>8, <1>9, <1>10, <1>11, <1>12, <1>13, <1>14 DEF SignInInv

LEMMA EndSessionInv ==
  ASSUME SignInInv, NEW s \in sessions, EndSession(s)
  PROVE  SignInInv'
<1>1. /\ sessions' \subseteq sessions
      /\ UNCHANGED <<factorVars, spent, respent, active, totp_required, token, flow, challenge,
                     enrolling, confirming, resets, protected>>
  BY DEF EndSession
<1>2. SessionsInv'
  BY <1>1 DEF SignInInv, SessionsInv
<1>3. ResetsInv'
  BY <1>1 DEF SignInInv, ResetsInv
<1> QED BY <1>1, <1>2, <1>3, Kept DEF SignInInv, factorVars

LEMMA LapseInv ==
  ASSUME SignInInv, NEW t \in Token, LapseChallenge(t)
  PROVE  SignInInv'
<1> DEFINE n == [challenge[t] EXCEPT !.used = TRUE]
<1>1. /\ challenge[t] # NULL /\ challenge' = [challenge EXCEPT ![t].used = TRUE]
      /\ UNCHANGED <<credential, recovery, secrets, batches, step, spent, respent, active,
                     totp_required, token, flow, sessions, enrolling, confirming, resets,
                     protected>>
  BY DEF LapseChallenge, factorVars
<1>2. /\ n \in ChallengeType /\ n.user = challenge[t].user /\ n.after = challenge[t].after
      /\ n.used /\ ChallengeSound(n) /\ challenge' = [challenge EXCEPT ![t] = n]
  BY <1>1, ChallengeUsed
<1> HIDE DEF n
<1>3. /\ TokensInv' /\ ChallengesInv'
      /\ \A x \in Token : challenge'[x] # NULL =>
           /\ challenge[x] # NULL
           /\ challenge'[x].user = challenge[x].user
           /\ challenge'[x].after = challenge[x].after
      /\ \A f : ChallengeSpent(f) => ChallengeSpent(f)'
  BY <1>1, <1>2, ChallengeUpdated, FlowsUnchanged
<1>4. ResetsInv'
  BY <1>1, <1>3 DEF SignInInv, ResetsInv
<1>5. SpentInv'
  <2>1. ASSUME NEW f \in spent PROVE SpentSound(f)'
    <3>1. SpentSound(f)
      BY DEF SignInInv, SpentInv
    <3>2. TokenSpent(f)' /\ RecoverySpent(f)' /\ CodeSpent(f)'
      BY <1>1, <3>1 DEF SpentSound, TokenSpent, RecoverySpent, CodeSpent, CodeSpentOf
    <3> QED BY <1>3, <3>1, <3>2 DEF SpentSound
  <2> QED BY <1>1, <2>1 DEF SignInInv, SpentInv
<1> QED BY <1>1, <1>3, <1>4, <1>5, Kept DEF SignInInv

LEMMA CleanupInv ==
  ASSUME SignInInv, NEW u \in User, Cleanup(u)
  PROVE  SignInInv'
<1>1. /\ ~Confirmed(u) /\ credential' = [credential EXCEPT ![u] = NULL]
      /\ UNCHANGED <<recovery, secrets, batches, step, spent, respent, active, totp_required,
                     token, flow, challenge, sessions, enrolling, confirming, resets,
                     protected>>
  BY DEF Cleanup, signInVars
<1>2. /\ SecretsInv' /\ \A f : CodeSpent(f) => CodeSpent(f)'
      /\ \A v \in User : credential'[v] = IF v = u THEN NULL ELSE credential[v]
  BY <1>1, CredentialGone
<1>3. SpentInv'
  <2>1. ASSUME NEW f \in spent PROVE SpentSound(f)'
    <3>1. SpentSound(f) /\ TokenSpent(f)' /\ ChallengeSpent(f)' /\ RecoverySpent(f)'
      BY <1>1 DEF SignInInv, SpentInv, SpentSound, TokenSpent, ChallengeSpent, RecoverySpent
    <3> QED BY <1>2, <3>1 DEF SpentSound
  <2> QED BY <1>1, <2>1 DEF SignInInv, SpentInv
<1>4. FlowsInv'
  BY <1>1, <1>2, FlowsLess DEF Confirmed
<1> QED BY <1>1, <1>2, <1>3, <1>4, Kept DEF SignInInv

LEMMA SetActiveInv ==
  ASSUME SignInInv, NEW u \in User, SetActive(u)
  PROVE  SignInInv'
<1>1. /\ active' = [active EXCEPT ![u] = ~@]
      /\ UNCHANGED <<factorVars, spent, respent, totp_required, token, flow, challenge, sessions,
                     enrolling, confirming, resets, protected>>
  BY DEF SetActive
<1>2. active' \in [User -> BOOLEAN]
  BY <1>1 DEF SignInInv, FlowsInv
<1>3. FlowsInv'
  BY <1>1, <1>2 DEF SignInInv, FlowsInv, Due, Confirmed, factorVars, SecondFactorDue
<1> QED BY <1>1, <1>3, Kept DEF SignInInv, factorVars

LEMMA SetRequiredInv ==
  ASSUME SignInInv, NEW u \in User, SetRequired(u)
  PROVE  SignInInv'
<1>1. /\ totp_required' = [totp_required EXCEPT ![u] = ~@]
      /\ IF totp_required[u] THEN UNCHANGED flow ELSE Overtake(u)
      /\ UNCHANGED <<factorVars, spent, respent, active, token, challenge, sessions,
                     enrolling, confirming, resets, protected>>
  BY DEF SetRequired
<1>2. totp_required' \in [User -> BOOLEAN]
  BY <1>1 DEF SignInInv, FlowsInv
<1>3. \A v \in User \ {u} : Due(v)' => Due(v)
  BY <1>1 DEF SignInInv, FlowsInv, Due, Confirmed, factorVars
<1>4. FlowsKept /\ FlowsInv'
  <2>1. CASE ~totp_required[u]
    BY <1>1, <1>2, <1>3, <2>1, Overtaken
  <2>2. CASE totp_required[u]
    <3>1. ~totp_required'[u] /\ flow' = flow
      BY <1>1, <2>2 DEF SignInInv, FlowsInv
    <3>2. \A v \in User : Due(v)' => Due(v)
      BY <1>1, <1>3, <3>1 DEF Due, Confirmed, factorVars
    <3>3. ASSUME NEW t \in Token, flow[t] # NULL, Due(flow[t].user)'
          PROVE  Due(flow[t].user)
      <4>1. PICK v \in User : v = flow[t].user
        BY <3>3 DEF SignInInv, TokensInv, FlowType
      <4> QED BY <3>1, <3>2, <3>3, <4>1 DEF Due, Confirmed
    <3> QED BY <1>1, <1>2, <3>1, <3>3, FlowsUnchanged DEF SignInInv, FlowsInv, SecondFactorDue
  <2> QED BY <2>1, <2>2
<1>5. TokensInv' /\ ResetsInv'
  BY <1>1, <1>4 DEF SignInInv, TokensInv, ResetsInv, FlowsKept, FlowKept
<1> QED BY <1>1, <1>4, <1>5, Kept DEF SignInInv, factorVars

LEMMA TickInv ==
  ASSUME SignInInv, Tick
  PROVE  SignInInv'
<1>1. /\ step < MaxStep /\ step' = step + 1
      /\ UNCHANGED <<credential, recovery, secrets, batches, spent, respent, active,
                     totp_required, token, flow, challenge, sessions, enrolling, confirming,
                     resets, protected>>
  BY DEF Tick, signInVars
<1>2. SecretsInv'
  BY <1>1, FactorAssumption DEF SignInInv, SecretsInv
<1>3. SpentInv'
  <2>1. ASSUME NEW f \in spent PROVE SpentSound(f)'
    BY <1>1 DEF SignInInv, SpentInv, SpentSound, TokenSpent, ChallengeSpent, RecoverySpent,
       CodeSpent, CodeSpentOf
  <2> QED BY <1>1, <2>1 DEF SignInInv, SpentInv
<1> QED BY <1>1, <1>2, <1>3, Kept DEF SignInInv

-----------------------------------------------------------------------------
LEMMA StepInv == SignInInv /\ [Next]_vars => SignInInv'
<1> SUFFICES ASSUME SignInInv, [Next]_vars PROVE SignInInv'
  OBVIOUS
<1>1. CASE \E t \in Token, u \in User : IssueMagicLink(t, u) \/ FirstFactor(t, u)
  BY <1>1, TokenStepInv, FirstFactorInv
<1>2. ASSUME NEW t \in Token, IssueAssertion(t) \/ LapseToken(t) PROVE SignInInv'
  BY <1>2, TokenStepInv
<1>3. CASE \E t \in Token : Complete(t) \/ RollBack(t) \/ LapseChallenge(t)
                           \/ MistypeConfirmation(t)
  BY <1>3, CompleteInv, RollBackInv, LapseInv, MistypeInv
<1>4. CASE \E t \in Token, factor \in Factors : Verify(t, factor)
  BY <1>4, VerifyInv
<1>5. CASE \E u \in User, factor \in Factors :
             Disable(u, factor) \/ RegenerateRecoveryCodes(u, factor)
  BY <1>5, DisableInv, RegenerateInv
<1>6. CASE \E u \in User : \/ Enroll(u) \/ Reset(u) \/ Cleanup(u)
                          \/ SetActive(u) \/ SetRequired(u)
                          \/ \E secret \in enrolling[u] : InsertEnrollment(u, secret)
  BY <1>6, EnrollInv, InsertInv, ResetInv, CleanupInv, SetActiveInv, SetRequiredInv
<1>7. CASE \E r \in Request, u \in User, factor \in TotpCodes, t \in Cookies :
             CheckCode(r, u, factor, t)
  BY <1>7, CheckCodeInv
<1>8. CASE \E c \in confirming : Confirm(c) \/ GiveUpConfirming(c)
  BY <1>8, ConfirmInv, GiveUpInv
<1>9. CASE (\E s \in sessions : EndSession(s)) \/ Tick
  BY <1>9, EndSessionInv, TickInv
<1>10. CASE UNCHANGED vars
  BY <1>10, Kept DEF vars, factorVars, SignInInv
<1> QED BY <1>1, <1>2, <1>3, <1>4, <1>5, <1>6, <1>7, <1>8, <1>9, <1>10 DEF Next

\* SignInInv holds in every reachable state.
THEOREM InvHolds == Spec => []SignInInv
BY InitInv, StepInv, PTL DEF Spec

\* The tables and the requests on their way have their types.
THEOREM TypesHold == Spec => []SignInTypeOK
<1>1. SignInInv => SignInTypeOK
  <2> SUFFICES ASSUME SignInInv PROVE SignInTypeOK
    OBVIOUS
  <2>1. FactorTypeOK
    BY DEF SignInInv, SecretsInv, RecoveryInv, FactorTypeOK
  <2>2. \A t \in Token : challenge[t] # NULL => challenge[t].attempts \in 0 .. MaxAttempts
    BY DEF SignInInv, TokensInv, ChallengeType
  <2>3. \A s \in sessions : s.user \in User /\ token[s.token] = "used"
    BY DEF SignInInv, SessionsInv, SessionType
  <2>4. \A c \in confirming : /\ c.user \in User /\ c.token \in Token \cup {NULL}
                              /\ \A d \in confirming : c.request = d.request => c = d
    BY DEF SignInInv, ConfirmingInv, ConfirmingType
  <2>5. \A u \in User : enrolling[u] \subseteq 1 .. secrets
    BY DEF SignInInv, SecretsInv
  <2> QED BY <2>1, <2>2, <2>3, <2>4, <2>5 DEF SignInInv, TokensInv, ResetsInv, SignInTypeOK
<1> QED BY <1>1, InvHolds, PTL

\* No token, challenge, recovery code or TOTP code is accepted twice.
THEOREM NothingIsSpentTwice == Spec => []NothingSpentTwice
<1>1. SignInInv => NothingSpentTwice
  BY DEF SignInInv, SpentInv, NothingSpentTwice
<1> QED BY <1>1, InvHolds, PTL

\* No session by a first factor alone to a user who had a confirmed credential, or
\* had to have one, while that first factor was on its way.
THEOREM SecondFactorIsEnforced == Spec => []SecondFactorEnforced
<1>1. SignInInv => SecondFactorEnforced
  BY DEF SignInInv, SessionsInv, SecondFactorEnforced
<1> QED BY <1>1, InvHolds, PTL

\* A challenge to sign in takes MaxAttempts wrong codes and is used up by the last
\* one.
THEOREM GuessesAreBounded == Spec => []GuessesBounded
<1>1. SignInInv => GuessesBounded
  <2> SUFFICES ASSUME SignInInv, NEW t \in Token, challenge[t] # NULL,
                      challenge[t].purpose = "login"
               PROVE  /\ challenge[t].failed <= MaxAttempts
                      /\ challenge[t].failed = MaxAttempts => challenge[t].used
    BY DEF GuessesBounded
  <2>1. challenge[t] \in ChallengeType /\ ChallengeSound(challenge[t])
    BY DEF SignInInv, TokensInv, ChallengesInv
  <2>2. challenge[t].failed \in Nat /\ challenge[t].attempts \in 0 .. MaxAttempts
    BY <2>1 DEF ChallengeType
  <2> QED BY <2>1, <2>2, SignInAssumption DEF ChallengeSound
<1> QED BY <1>1, InvHolds, PTL

\* A reset leaves no session and no challenge that began before it.
THEOREM ResetsCutOff == Spec => []ResetCutsOff
<1>1. SignInInv => ResetCutsOff
  BY DEF SignInInv, ResetsInv, ResetCutsOff
<1> QED BY <1>1, InvHolds, PTL
=============================================================================
