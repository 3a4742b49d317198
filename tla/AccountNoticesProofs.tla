------------------------ MODULE AccountNoticesProofs ------------------------
(***************************************************************************)
(* Proofs about AccountNotices for every value of its constants.           *)
(*                                                                         *)
(* The services touch each other through the queue only, and each promise  *)
(* is about the jobs of one type.  So the invariant is a conjunction of    *)
(* parts, each over the tables of one service and the jobs of one type,    *)
(* and SameJobs says that a step leaves the jobs of a type alone.          *)
(***************************************************************************)
EXTENDS AccountNotices, Integers, TLAPS

Category == {"account", "access", "operational"}

PermissionJob == [type : {"permission"}, user : User, action : {"grant", "revoke"},
                  permission : Permission, request : Request]
CapabilityJob == [type : {"capability"}, user : User, canReadJobs : BOOLEAN]
InvitationJob == [type : {"invitation"}, user : User]
RecipientJob == [type : {"recipient"}, user : User, at : 1 .. MaxChanges, active : BOOLEAN]
AccountJob == [type : {"account"}, user : User, action : ActionType, at : 1 .. MaxChanges]
FailureJob == [type : {"failure"}, id : User]

NoticeAt == (1 .. MaxChanges) \cup User \cup {OccurredAtOf(k) : k \in PermissionJob}
NoticeType == [user : User, category : Category, at : NoticeAt]
EmailJob == [type : {"email"}, notice : NoticeType]

\* The jobs that create notifications, and all.
NoticeJob == AccountJob \cup PermissionJob \cup FailureJob
JobType == NoticeJob \cup CapabilityJob \cup InvitationJob \cup RecipientJob \cup EmailJob

Creating == {"next", "insert", "in_app", "email", "enqueue"}
Making == {"insert", "in_app", "email", "enqueue"}
AttemptType == [step : {"idle", "send"} \cup Creating, job : JobType \cup {NULL},
                todo : SUBSET User, notice : NoticeType \cup {NULL}]

-----------------------------------------------------------------------------
\* A change starts from the row there is, as its guards demand.
ChangeSound(c) ==
  /\ c.before = NULL <=> c.action = "create"
  /\ c.action \in DOMAIN TRANSITIONS =>
       /\ Status(c.before) \in TRANSITIONS[c.action].from
       /\ c.after = Patched(c.before, c.action)
  /\ c.action \in {"update", "totp_require", "totp_unrequire"} =>
       /\ c.after.suspended = c.before.suspended
       /\ c.after.blocked = c.before.blocked
       /\ c.after.deleted = c.before.deleted

OpenSound(c) ==
  /\ c.before = users[c.user] /\ c.at <= clock /\ ChangeSound(c)
  /\ AuditEntry(c.user, c) \in audit_trails

AccountsInv ==
  /\ users \in [User -> RowType \cup {NULL}]
  /\ clock \in 0 .. MaxChanges
  /\ transactions \subseteq ChangeType
  /\ \A c, d \in transactions : c.user = d.user => c = d
  /\ \A c \in transactions : OpenSound(c)
  /\ trail \in [User -> Seq(ChangeType)]
  /\ AuditTrailFaithful

\* A block or deletion that was not repeated since: while it stands the other
\* timestamps are as they were, and once it is undone it is gone.
Followed(s, i, action) == \E k \in i + 1 .. Len(s) : s[k].action = action

Stands(s, row, i) ==
  LET c == s[i] IN
  /\ c.action = "block" /\ ~Followed(s, i, "block") =>
       IF Followed(s, i, "unblock") THEN ~row.blocked
       ELSE row.blocked /\ row.suspended = c.before.suspended
  /\ c.action = "delete" /\ ~Followed(s, i, "delete") =>
       IF Followed(s, i, "restore") THEN ~row.deleted
       ELSE row.deleted /\ row.suspended = c.before.suspended /\ row.blocked = c.before.blocked

UndoInv ==
  /\ \A u \in User : \A i \in DOMAIN trail[u] :
       ChangeSound(trail[u][i]) /\ Stands(trail[u], users[u], i)
  /\ UndoRestoresStatus

-----------------------------------------------------------------------------
RecipientsInv == recipient \in [User -> RecipientType \cup {NULL}]

\* Profile synchronisations are numbered by the changes they are of.
ProfileJobsInv ==
  /\ \A k \in Recorded : k.type = "recipient" =>
       k.at <= clock /\ \A c \in transactions : c.user = k.user => k.at < c.at
  /\ \A j, k \in Recorded :
       j.type = "recipient" /\ k.type = "recipient" /\ j.user = k.user /\ j.at = k.at => j = k
  /\ \A u \in User : recipient[u] # NULL /\ recipient[u].at # 0 =>
       [type |-> "recipient", user |-> u, at |-> recipient[u].at,
        active |-> recipient[u].active] \in Recorded

NoLater(u, at) == \A k \in Recorded : k.type = "recipient" /\ k.user = u => k.at <= at

\* The latest one is to be run, or was the last one run.
ProfileSynced(u) ==
  u \notin overtaken /\ users[u] # NULL =>
    \/ \E k \in queued : /\ k.type = "recipient" /\ k.user = u
                         /\ k.active = ~users[u].deleted /\ NoLater(u, k.at)
    \/ /\ recipient[u] # NULL /\ recipient[u].active = ~users[u].deleted
       /\ NoLater(u, recipient[u].at)

ProfileInv == ProfileJobsInv /\ (DurableJobs => \A u \in User : ProfileSynced(u))

-----------------------------------------------------------------------------
\* Whoever counts as an operator was one.
WasGranted(u) ==
  \/ CanReadJobs(permission_user[u]) \/ CanReadJobs(overlapped[u])
  \/ Capability(u, TRUE) \in Recorded
  \/ recipient[u] # NULL /\ recipient[u].can_read_jobs

GrantedInv ==
  /\ permission_user = [u \in User |-> permission_user[u]]
  /\ \A u \in User : WasGranted(u) => u \in granted

AttemptGranted(a) ==
  /\ a.step \in Creating /\ a.job.type = "failure" => a.todo \subseteq granted
  /\ a.step \in Making /\ a.notice.category = "operational" => a.notice.user \in granted

OperatorsInv == (\A w \in Worker : AttemptGranted(attempt[w])) /\ FailuresToOperators

-----------------------------------------------------------------------------
Delivered(key) == key \in notification /\ \A channel \in Channel : <<key, channel>> \in DOMAIN delivery

\* What an attempt has done so far.
AttemptSound(a) ==
  /\ a.step \in Creating => a.job \in Recorded /\ a.job.type \in {"account", "permission", "failure"}
  /\ a.step = "send" => a.job \in Recorded /\ a.job.type = "email" /\ a.job.notice = a.notice
  /\ a.step \in Making => a.notice \in NoticeType /\ \E u \in User : a.notice = NoticeOf(a.job, u)
  /\ a.step \in Making /\ a.job.type # "failure" =>
       a.todo = {} /\ a.notice = NoticeOf(a.job, a.job.user)
  /\ a.step \in Making \ {"insert"} => a.notice \in notification
  /\ a.step \in {"email", "enqueue"} => <<a.notice, "in_app">> \in DOMAIN delivery
  /\ a.step = "enqueue" => <<a.notice, "email">> \in DOMAIN delivery
  /\ a.step = "next" /\ a.job.type # "failure" =>
       \/ a.todo = {a.job.user}
       \/ a.todo = {} /\ (Excused(a.job) \/ Delivered(NoticeOf(a.job, a.job.user)))

AttemptsInv == attempt \in [Worker -> AttemptType] /\ \A w \in Worker : AttemptSound(attempt[w])

DeliveryStatus == {"queued", "processing", "sent", "skipped", "failed"}

EmailOnItsWay(key) ==
  \/ Email(key) \in Recorded \/ key \in stranded
  \/ \E w \in Worker : Running(w, "enqueue") /\ attempt[w].notice = key

JobsInv == Recorded \subseteq JobType

TablesInv ==
  /\ notification \subseteq NoticeType
  /\ DOMAIN delivery \subseteq notification \X Channel
  /\ delivery \in [DOMAIN delivery -> DeliveryStatus]
  /\ \A k \in Recorded : k.type = "email" => <<k.notice, "email">> \in DOMAIN delivery
  /\ \A d \in DOMAIN delivery :
       /\ d[1].category = "account" => delivery[d] # "skipped"
       /\ d[2] = "email" /\ delivery[d] = "queued" => EmailOnItsWay(d[1])
  /\ \A k \in completed : k.type \in {"account", "permission"} /\ ~Excused(k) =>
       Delivered(NoticeOf(k, k.user))

\* The invariant of the tables of the notification service.
NoticesInv == JobsInv /\ RecipientsInv /\ AttemptsInv /\ TablesInv

-----------------------------------------------------------------------------
\* The queue.

LEMMA Enqueued ==
  ASSUME NEW K, Enqueue(K)
  PROVE  /\ Recorded' = Recorded \cup K
         /\ queued \subseteq queued' /\ completed' = completed
         /\ queued' \subseteq queued \cup K
BY DEF Enqueue, Recorded

LEMMA Finished ==
  ASSUME NEW k \in Recorded, Ran(k)
  PROVE  /\ Recorded' = Recorded
         /\ completed \subseteq completed' /\ completed' \subseteq completed \cup {k}
         /\ queued' \subseteq queued /\ queued \subseteq queued' \cup {k}
BY DEF Ran, Complete, Repeat, outboxVars, Recorded

-----------------------------------------------------------------------------
\* The rows of the accounts.

LEMMA Transitions ==
  /\ DOMAIN TRANSITIONS = {"suspend", "unsuspend", "block", "unblock", "delete", "restore"}
  /\ \A row \in RowType :
       /\ Patched(row, "suspend") = [row EXCEPT !.suspended = TRUE]
       /\ Patched(row, "unsuspend") = [row EXCEPT !.suspended = FALSE]
       /\ Patched(row, "block") = [row EXCEPT !.blocked = TRUE]
       /\ Patched(row, "unblock") = [row EXCEPT !.blocked = FALSE]
       /\ Patched(row, "delete") = [row EXCEPT !.deleted = TRUE]
       /\ Patched(row, "restore") = [row EXCEPT !.deleted = FALSE]
BY DEF TRANSITIONS, Patched, RowType

LEMMA PatchedType ==
  ASSUME NEW row \in RowType, NEW action \in DOMAIN TRANSITIONS
  PROVE  Patched(row, action) \in RowType
<1>1. action \in {"suspend", "unsuspend", "block", "unblock", "delete", "restore"}
  BY Transitions
<1>2. /\ [row EXCEPT !.suspended = TRUE] \in RowType
      /\ [row EXCEPT !.suspended = FALSE] \in RowType
  BY DEF RowType
<1>3. /\ [row EXCEPT !.blocked = TRUE] \in RowType
      /\ [row EXCEPT !.blocked = FALSE] \in RowType
  BY DEF RowType
<1>4. /\ [row EXCEPT !.deleted = TRUE] \in RowType
      /\ [row EXCEPT !.deleted = FALSE] \in RowType
  BY DEF RowType
<1>5. /\ Patched(row, "suspend") \in RowType /\ Patched(row, "unsuspend") \in RowType
      /\ Patched(row, "block") \in RowType /\ Patched(row, "unblock") \in RowType
      /\ Patched(row, "delete") \in RowType /\ Patched(row, "restore") \in RowType
  BY <1>2, <1>3, <1>4, Transitions, Zenon
<1> QED BY <1>1, <1>5


\* A transaction opens.
Opens(c) ==
  /\ c \in ChangeType /\ ChangeSound(c) /\ c.before = users[c.user] /\ c.at = clock + 1
  /\ Change(c.user, c.action, c.before, c.after)

LEMMA ChangeInv ==
  ASSUME AccountsInv, NEW c, Opens(c)
  PROVE  AccountsInv'
<1> USE DEF Opens
<1>1. c = [user |-> c.user, action |-> c.action, at |-> clock + 1,
           before |-> c.before, after |-> c.after]
  BY DEF ChangeType
<1>2. /\ clock < MaxChanges /\ clock' = clock + 1 /\ users' = users /\ trail' = trail
      /\ transactions' = transactions \cup {c}
      /\ audit_trails' = audit_trails \cup {AuditEntry(c.user, c)}
      /\ \A d \in transactions : d.user # c.user
  BY <1>1 DEF Change, ChangeUnlocked, Unlocked
<1>3. clock \in Nat /\ clock' \in 0 .. MaxChanges
  BY <1>2, AccountsAssumption DEF AccountsInv
<1>4. OpenSound(c)'
  <2>1. c.before = users'[c.user] /\ c.at <= clock'
    BY <1>2, <1>3
  <2> QED BY <1>2, <2>1 DEF OpenSound
<1>5. ASSUME NEW d \in transactions PROVE OpenSound(d)'
  <2>1. d.before = users'[d.user] /\ d.at <= clock' /\ ChangeSound(d) /\ d \in ChangeType
    BY <1>2, <1>3 DEF AccountsInv, OpenSound, ChangeType
  <2>2. AuditEntry(d.user, d) \in audit_trails'
    BY <1>2 DEF AccountsInv, OpenSound
  <2> QED BY <2>1, <2>2 DEF OpenSound
<1>6. AuditTrailFaithful'
  BY <1>2 DEF AccountsInv, AuditTrailFaithful
<1>7. \A d, e \in transactions' : d.user = e.user => d = e
  BY <1>2 DEF AccountsInv
<1>8. \A d \in transactions' : OpenSound(d)'
  BY <1>2, <1>4, <1>5
<1>9. transactions' \subseteq ChangeType
  BY <1>2 DEF AccountsInv
<1> QED BY <1>2, <1>3, <1>6, <1>7, <1>8, <1>9 DEF AccountsInv

LEMMA Opening ==
  ASSUME AccountsInv, NEW u \in User, NEW action \in ActionType, NEW after \in RowType,
         Change(u, action, users[u], after),
         ChangeSound([user |-> u, action |-> action, at |-> clock + 1,
                      before |-> users[u], after |-> after])
  PROVE  \E c : Opens(c)
<1>1. PICK c : c = [user |-> u, action |-> action, at |-> clock + 1,
                    before |-> users[u], after |-> after]
  OBVIOUS
<1>2. clock + 1 \in 1 .. MaxChanges
  BY AccountsAssumption DEF AccountsInv, Change, ChangeUnlocked
<1>3. users[u] \in RowType \cup {NULL}
  BY DEF AccountsInv
<1>4. c \in ChangeType
  BY <1>1, <1>2, <1>3 DEF ChangeType
<1>5. /\ c.user = u /\ c.action = action /\ c.before = users[u] /\ c.after = after
      /\ c.at = clock + 1
  BY <1>1
<1>6. ChangeSound(c)
  BY <1>1
<1> QED BY <1>4, <1>5, <1>6 DEF Opens

LEMMA AccountStepOpens ==
  ASSUME AccountsInv, AccountStep
  PROVE  \/ \E c : Opens(c)
         \/ \E c \in transactions : CommitChange(c) \/ RollbackChange(c)
<1>0. /\ "create" \notin DOMAIN TRANSITIONS /\ "update" \notin DOMAIN TRANSITIONS
      /\ "totp_require" \notin DOMAIN TRANSITIONS /\ "totp_unrequire" \notin DOMAIN TRANSITIONS
  BY Transitions
<1>1. ASSUME NEW u \in User, CreateUser(u) PROVE \E c : Opens(c)
  <2> DEFINE d == [user |-> u, action |-> "create", at |-> clock + 1,
                   before |-> users[u], after |-> NewRow]
  <2>1. NewRow \in RowType /\ "create" \in ActionType
    BY DEF NewRow, RowType, ActionType
  <2>2. ChangeSound(d)
    BY <1>0, <1>1 DEF CreateUser, ChangeSound
  <2> QED BY <1>1, <2>1, <2>2, Opening DEF CreateUser
<1>2. ASSUME NEW u \in User, UpdateUser(u) PROVE \E c : Opens(c)
  <2> DEFINE d == [user |-> u, action |-> "update", at |-> clock + 1,
                   before |-> users[u], after |-> users[u]]
  <2>1. users[u] \in RowType /\ "update" \in ActionType
    BY <1>2 DEF AccountsInv, UpdateUser, ActionType
  <2>2. ChangeSound(d)
    BY <1>0, <1>2 DEF UpdateUser, ChangeSound
  <2> QED BY <1>2, <2>1, <2>2, Opening DEF UpdateUser
<1>3. ASSUME NEW u \in User, NEW actor \in Actor, NEW action \in DOMAIN TRANSITIONS,
             ApplyStatusAction(actor, u, action)
      PROVE  \E c : Opens(c)
  <2> DEFINE d == [user |-> u, action |-> action, at |-> clock + 1,
                   before |-> users[u], after |-> Patched(users[u], action)]
  <2>1. users[u] \in RowType /\ action \in ActionType /\ users[u] # NULL
    BY <1>3 DEF AccountsInv, ApplyStatusAction, ActionType
  <2>2. Patched(users[u], action) \in RowType
    BY <2>1, PatchedType
  <2>3. /\ action \notin {"create", "update", "totp_require", "totp_unrequire"}
        /\ Status(users[u]) \in TRANSITIONS[action].from
    BY <1>0, <1>3 DEF ApplyStatusAction
  <2>4. ChangeSound(d)
    BY <2>1, <2>3 DEF ChangeSound
  <2> QED BY <1>3, <2>1, <2>2, <2>4, Opening DEF ApplyStatusAction
<1>4. ASSUME NEW u \in User, NEW required \in BOOLEAN, SetTotpRequirement(u, required)
      PROVE  \E c : Opens(c)
  <2>1. PICK action : action = IF required THEN "totp_require" ELSE "totp_unrequire"
    OBVIOUS
  <2> DEFINE after == [users[u] EXCEPT !.totp_required = required]
             d == [user |-> u, action |-> action, at |-> clock + 1,
                   before |-> users[u], after |-> after]
  <2>2. users[u] \in RowType /\ users[u] # NULL
    BY <1>4 DEF AccountsInv, SetTotpRequirement
  <2>3. /\ after \in RowType /\ after.suspended = users[u].suspended
        /\ after.blocked = users[u].blocked /\ after.deleted = users[u].deleted
    BY <2>2 DEF RowType
  <2>4. /\ action \in ActionType /\ action \notin DOMAIN TRANSITIONS /\ action # "create"
    BY <1>0, <2>1 DEF ActionType
  <2>5. Change(u, action, users[u], after)
    BY <1>4, <2>1 DEF SetTotpRequirement
  <2> HIDE DEF after
  <2>6. ChangeSound(d)
    BY <2>2, <2>3, <2>4 DEF ChangeSound
  <2> QED BY <2>3, <2>4, <2>5, <2>6, Opening
<1> QED BY <1>1, <1>2, <1>3, <1>4 DEF AccountStep

LEMMA CommitInv ==
  ASSUME AccountsInv, NEW c \in transactions, CommitChange(c)
  PROVE  AccountsInv'
<1>1. /\ c \in ChangeType /\ c.user \in User /\ c.after \in RowType /\ OpenSound(c)
      /\ c.before = users[c.user]
  BY DEF AccountsInv, ChangeType, OpenSound
<1>2. /\ users' = [users EXCEPT ![c.user] = c.after]
      /\ trail' = [trail EXCEPT ![c.user] = Append(trail[c.user], c)]
      /\ transactions' = transactions \ {c}
      /\ audit_trails' = audit_trails /\ clock' = clock
  BY DEF CommitChange
<1>3. users' \in [User -> RowType \cup {NULL}]
  BY <1>1, <1>2 DEF AccountsInv
<1>4. trail' \in [User -> Seq(ChangeType)]
  BY <1>1, <1>2 DEF AccountsInv
<1>5. ASSUME NEW d \in transactions' PROVE OpenSound(d)'
  <2>1. d \in transactions /\ d \in ChangeType /\ d.user # c.user /\ OpenSound(d)
    BY <1>2 DEF AccountsInv
  <2>2. users'[d.user] = users[d.user]
    BY <1>2, <2>1 DEF AccountsInv, ChangeType
  <2> QED BY <1>2, <2>1, <2>2 DEF OpenSound
<1>6. ASSUME NEW u \in User
      PROVE  /\ \A i \in DOMAIN trail'[u] :
                  /\ AuditEntry(u, trail'[u][i]) \in audit_trails'
                  /\ i > 1 => trail'[u][i].before = trail'[u][i - 1].after
             /\ trail'[u] # <<>> => users'[u] = trail'[u][Len(trail'[u])].after
  <2>1. CASE u # c.user
    <3>1. trail'[u] = trail[u] /\ users'[u] = users[u]
      BY <1>2, <2>1 DEF AccountsInv
    <3> QED BY <1>2, <3>1 DEF AccountsInv, AuditTrailFaithful
  <2>2. CASE u = c.user
    <3> DEFINE s == trail[u]
    <3>1. s \in Seq(ChangeType) /\ trail'[u] = Append(s, c) /\ users'[u] = c.after
      BY <1>1, <1>2, <2>2 DEF AccountsInv
    <3>2. /\ \A i \in 1 .. Len(s) :
               /\ AuditEntry(u, s[i]) \in audit_trails
               /\ i > 1 => s[i].before = s[i - 1].after
          /\ s # <<>> => users[u] = s[Len(s)].after
      BY <3>1 DEF AccountsInv, AuditTrailFaithful
    <3>3. AuditEntry(u, c) \in audit_trails
      BY <1>1, <2>2 DEF OpenSound
    <3> HIDE DEF s
    <3>4. Len(s) \in Nat /\ (Len(s) > 0 => s # <<>>)
      BY <3>1
    <3>5. /\ DOMAIN Append(s, c) = 1 .. Len(s) + 1 /\ Len(Append(s, c)) = Len(s) + 1
          /\ \A i \in 1 .. Len(s) : Append(s, c)[i] = s[i]
          /\ Append(s, c)[Len(s) + 1] = c
      BY <3>1, <1>1
    <3>6. ASSUME NEW i \in 1 .. Len(s) + 1
          PROVE  /\ AuditEntry(u, Append(s, c)[i]) \in audit_trails
                 /\ i > 1 => Append(s, c)[i].before = Append(s, c)[i - 1].after
      <4>1. CASE i = Len(s) + 1
        BY <1>1, <2>2, <3>2, <3>3, <3>4, <3>5, <4>1
      <4>2. CASE i \in 1 .. Len(s)
        BY <3>2, <3>4, <3>5, <4>2
      <4> QED BY <3>4, <4>1, <4>2
    <3> DEFINE t == trail'[u]
    <3>7. t = Append(s, c) /\ users'[u] = c.after /\ audit_trails' = audit_trails
      BY <1>2, <3>1
    <3> HIDE DEF t
    <3>8. /\ DOMAIN t = 1 .. Len(s) + 1 /\ t[Len(t)] = c
          /\ \A i \in 1 .. Len(s) + 1 :
               /\ AuditEntry(u, t[i]) \in audit_trails
               /\ i > 1 => t[i].before = t[i - 1].after
      BY <3>5, <3>6, <3>7
    <3> QED BY <3>7, <3>8 DEF t
  <2> QED BY <2>1, <2>2
<1>7. AuditTrailFaithful'
  BY <1>6 DEF AuditTrailFaithful
<1>8. transactions' \subseteq ChangeType /\ \A d, e \in transactions' : d.user = e.user => d = e
  BY <1>2 DEF AccountsInv
<1> QED BY <1>2, <1>3, <1>4, <1>5, <1>7, <1>8 DEF AccountsInv

LEMMA AccountsFrame ==
  ASSUME AccountsInv, UNCHANGED <<users, transactions, audit_trails, trail>>,
         clock' = clock \/ (clock < MaxChanges /\ clock' = clock + 1)
  PROVE  AccountsInv'
<1>1. clock' \in 0 .. MaxChanges /\ clock <= clock'
  BY AccountsAssumption DEF AccountsInv
<1>2. ASSUME NEW c \in transactions PROVE OpenSound(c)'
  BY <1>1, AccountsAssumption DEF AccountsInv, OpenSound, ChangeType
<1> QED BY <1>1, <1>2 DEF AccountsInv, AuditTrailFaithful

LEMMA GrantSteps == GrantStep => Granting
BY DEF GrantStep, Grant, Revoke, Delete

\* Steps of the other services leave the accounts alone.
LEMMA OtherSteps ==
  ASSUME Next, ~(AccountStep /\ UNCHANGED <<notificationVars, restOfGrants>>)
  PROVE  /\ UNCHANGED <<users, transactions, audit_trails, trail>>
         /\ clock' = clock \/ (clock < MaxChanges /\ clock' = clock + 1)
BY GrantSteps DEF Next, Granting, RunCapability, RunInvitation, accountVars

LEMMA AccountsStep == AccountsInv /\ [Next]_vars => AccountsInv'
<1> SUFFICES ASSUME AccountsInv, [Next]_vars PROVE AccountsInv'
  OBVIOUS
<1>1. CASE AccountStep
  <2>1. CASE \E c : Opens(c)
    BY <2>1, ChangeInv
  <2>2. ASSUME NEW c \in transactions, CommitChange(c) PROVE AccountsInv'
    BY <2>2, CommitInv
  <2>3. ASSUME NEW c \in transactions, RollbackChange(c) PROVE AccountsInv'
    BY <2>3 DEF RollbackChange, AccountsInv, OpenSound, AuditTrailFaithful
  <2> QED BY <1>1, <2>1, <2>2, <2>3, AccountStepOpens
<1>2. CASE Next /\ ~(AccountStep /\ UNCHANGED <<notificationVars, restOfGrants>>)
  BY <1>2, OtherSteps, AccountsFrame
<1>3. CASE UNCHANGED vars
  BY <1>3, AccountsFrame DEF vars
<1> QED BY <1>1, <1>2, <1>3

LEMMA AccountsStart == Init => AccountsInv
<1> SUFFICES ASSUME Init PROVE AccountsInv
  OBVIOUS
<1>1. /\ users \in [User -> Row \cup {NULL}] /\ transactions = {} /\ audit_trails = {}
      /\ clock = 0 /\ trail = [u \in User |-> <<>>]
  BY DEF Init, AccountsInit
<1>2. users \in [User -> RowType \cup {NULL}]
  BY <1>1, NoticesAssumption
<1>3. trail \in [User -> Seq(ChangeType)] /\ \A u \in User : trail[u] = <<>>
  BY <1>1
<1> QED BY <1>1, <1>2, <1>3, AccountsAssumption DEF AccountsInv, AuditTrailFaithful

\* In every reachable state AccountsInv holds (UsersService).
THEOREM AccountsHold == Spec => []AccountsInv
BY AccountsStart, AccountsStep, PTL DEF Spec

\* Rows and transactions have their types, and a user has one transaction at most
\* (users.service.ts, findByIdForUpdate).
THEOREM AccountTypes == Spec => []AccountsTypeOK
<1>1. AccountsInv => AccountsTypeOK
  BY DEF AccountsInv, AccountsTypeOK
<1> QED BY <1>1, AccountsHold, PTL

\* The audit trail tells the story of every account without a gap
\* (UsersService.applyStatusAction, update, create, setTotpRequirement).
THEOREM TrailIsFaithful == Spec => []AuditTrailFaithful
<1>1. AccountsInv => AuditTrailFaithful
  BY DEF AccountsInv
<1> QED BY <1>1, AccountsHold, PTL

-----------------------------------------------------------------------------
\* What undoes a change.

LEMMA StatusOf ==
  ASSUME NEW row \in RowType
  PROVE  Status(row) = IF row.deleted THEN "deleted"
                       ELSE IF row.blocked THEN "blocked"
                       ELSE IF row.suspended THEN "suspended" ELSE "active"
BY DEF Status, RowType

LEMMA StatusChange ==
  ASSUME NEW c \in ChangeType, ChangeSound(c), c.before # NULL
  PROVE  /\ c.before \in RowType /\ c.after \in RowType /\ c.action # "create"
         /\ c.action = "suspend" =>
              /\ Status(c.before) = "active" /\ c.after.suspended
              /\ c.after.blocked = c.before.blocked /\ c.after.deleted = c.before.deleted
         /\ c.action = "unsuspend" =>
              /\ Status(c.before) = "suspended" /\ ~c.after.suspended
              /\ c.after.blocked = c.before.blocked /\ c.after.deleted = c.before.deleted
         /\ c.action = "block" =>
              /\ Status(c.before) \in {"active", "suspended"} /\ c.after.blocked
              /\ c.after.suspended = c.before.suspended /\ c.after.deleted = c.before.deleted
         /\ c.action = "unblock" =>
              /\ Status(c.before) = "blocked" /\ ~c.after.blocked
              /\ c.after.suspended = c.before.suspended /\ c.after.deleted = c.before.deleted
         /\ c.action = "delete" =>
              /\ Status(c.before) \in {"active", "suspended", "blocked"} /\ c.after.deleted
              /\ c.after.suspended = c.before.suspended /\ c.after.blocked = c.before.blocked
         /\ c.action = "restore" =>
              /\ Status(c.before) = "deleted" /\ ~c.after.deleted
              /\ c.after.suspended = c.before.suspended /\ c.after.blocked = c.before.blocked
         /\ c.action \in {"update", "totp_require", "totp_unrequire"} =>
              /\ c.after.suspended = c.before.suspended
              /\ c.after.blocked = c.before.blocked /\ c.after.deleted = c.before.deleted
<1>1. c.before \in RowType /\ c.after \in RowType /\ c.action # "create"
  BY DEF ChangeType, ChangeSound
<1> DEFINE row == c.before
<1>2. \A action \in DOMAIN TRANSITIONS : c.action = action =>
        Status(row) \in TRANSITIONS[action].from /\ c.after = Patched(row, action)
  BY DEF ChangeSound
<1>3. row \in RowType
  BY <1>1
<1> HIDE DEF row
<1>4. /\ [row EXCEPT !.suspended = TRUE].suspended /\ ~[row EXCEPT !.suspended = FALSE].suspended
      /\ \A b \in BOOLEAN : /\ [row EXCEPT !.suspended = b].blocked = row.blocked
                            /\ [row EXCEPT !.suspended = b].deleted = row.deleted
  BY <1>3 DEF RowType
<1>5. /\ [row EXCEPT !.blocked = TRUE].blocked /\ ~[row EXCEPT !.blocked = FALSE].blocked
      /\ \A b \in BOOLEAN : /\ [row EXCEPT !.blocked = b].suspended = row.suspended
                            /\ [row EXCEPT !.blocked = b].deleted = row.deleted
  BY <1>3 DEF RowType
<1>6. /\ [row EXCEPT !.deleted = TRUE].deleted /\ ~[row EXCEPT !.deleted = FALSE].deleted
      /\ \A b \in BOOLEAN : /\ [row EXCEPT !.deleted = b].suspended = row.suspended
                            /\ [row EXCEPT !.deleted = b].blocked = row.blocked
  BY <1>3 DEF RowType
<1>7. /\ TRANSITIONS["suspend"].from = {"active"} /\ TRANSITIONS["unsuspend"].from = {"suspended"}
      /\ TRANSITIONS["block"].from = {"active", "suspended"}
      /\ TRANSITIONS["unblock"].from = {"blocked"}
      /\ TRANSITIONS["delete"].from = {"active", "suspended", "blocked"}
      /\ TRANSITIONS["restore"].from = {"deleted"}
  BY DEF TRANSITIONS
<1>8. /\ c.action = "suspend" =>
           Status(row) = "active" /\ c.after = [row EXCEPT !.suspended = TRUE]
      /\ c.action = "unsuspend" =>
           Status(row) = "suspended" /\ c.after = [row EXCEPT !.suspended = FALSE]
      /\ c.action = "block" =>
           Status(row) \in {"active", "suspended"} /\ c.after = [row EXCEPT !.blocked = TRUE]
      /\ c.action = "unblock" =>
           Status(row) = "blocked" /\ c.after = [row EXCEPT !.blocked = FALSE]
  BY <1>2, <1>3, <1>7, Transitions
<1>9. /\ c.action = "delete" =>
           /\ Status(row) \in {"active", "suspended", "blocked"}
           /\ c.after = [row EXCEPT !.deleted = TRUE]
      /\ c.action = "restore" =>
           Status(row) = "deleted" /\ c.after = [row EXCEPT !.deleted = FALSE]
  BY <1>2, <1>3, <1>7, Transitions
<1>10. c.action \in {"update", "totp_require", "totp_unrequire"} =>
              /\ c.after.suspended = c.before.suspended
              /\ c.after.blocked = c.before.blocked /\ c.after.deleted = c.before.deleted
  BY DEF ChangeSound
<1> QED BY <1>1, <1>4, <1>5, <1>6, <1>8, <1>9, <1>10, Zenon DEF row

LEMMA FollowedOn ==
  ASSUME NEW s \in Seq(ChangeType), NEW c \in ChangeType, NEW i \in 1 .. Len(s), NEW action
  PROVE  /\ Append(s, c)[i] = s[i] /\ i \in 1 .. Len(Append(s, c))
         /\ Followed(Append(s, c), i, action) <=> Followed(s, i, action) \/ c.action = action
<1>1. /\ Len(s) \in Nat /\ Len(Append(s, c)) = Len(s) + 1
      /\ \A k \in 1 .. Len(s) : Append(s, c)[k] = s[k]
      /\ Append(s, c)[Len(s) + 1] = c
  OBVIOUS
<1> DEFINE t == Append(s, c)
<1> HIDE DEF t
<1>2. ASSUME NEW k \in i + 1 .. Len(s) + 1
      PROVE  t[k].action = action <=> (k \in i + 1 .. Len(s) /\ s[k].action = action)
                                        \/ (k = Len(s) + 1 /\ c.action = action)
  BY <1>1 DEF t
<1>3. Followed(t, i, action) <=> Followed(s, i, action) \/ c.action = action
  <2>1. Len(s) + 1 \in i + 1 .. Len(s) + 1 /\ i + 1 .. Len(s) \subseteq i + 1 .. Len(s) + 1
    BY <1>1
  <2>2. Len(t) = Len(s) + 1
    BY <1>1 DEF t
  <2> QED BY <1>2, <2>1, <2>2 DEF Followed
<1> QED BY <1>1, <1>3 DEF t

LEMMA StandsOn ==
  ASSUME NEW s \in Seq(ChangeType), NEW c \in ChangeType, NEW i \in 1 .. Len(s),
         ChangeSound(c), c.before # NULL, Stands(s, c.before, i)
  PROVE  Stands(Append(s, c), c.after, i)
<1>1. \A action : /\ Append(s, c)[i] = s[i]
                  /\ Followed(Append(s, c), i, action)
                       <=> Followed(s, i, action) \/ c.action = action
  BY FollowedOn
<1> DEFINE t == Append(s, c)
<1> HIDE DEF t
<1>2. /\ c.before \in RowType /\ c.after \in RowType
      /\ Status(c.before) = IF c.before.deleted THEN "deleted"
                       ELSE IF c.before.blocked THEN "blocked"
                       ELSE IF c.before.suspended THEN "suspended" ELSE "active"
  BY StatusChange, StatusOf
<1>3. /\ c.before.suspended \in BOOLEAN /\ c.before.blocked \in BOOLEAN
      /\ c.before.deleted \in BOOLEAN /\ c.after.suspended \in BOOLEAN
      /\ c.after.blocked \in BOOLEAN /\ c.after.deleted \in BOOLEAN
  BY <1>2 DEF RowType
<1>4. c.action \in {"suspend", "unsuspend", "block", "unblock", "delete", "restore",
                    "update", "totp_require", "totp_unrequire"}
  BY Transitions, StatusChange DEF ChangeType, ActionType
<1>5. ASSUME t[i].action = "block", ~Followed(t, i, "block")
      PROVE  IF Followed(t, i, "unblock") THEN ~c.after.blocked
             ELSE c.after.blocked /\ c.after.suspended = t[i].before.suspended
  <2>1. /\ s[i].action = "block" /\ ~Followed(s, i, "block") /\ c.action # "block"
        /\ t[i] = s[i]
        /\ Followed(t, i, "unblock") <=> Followed(s, i, "unblock") \/ c.action = "unblock"
    BY <1>1, <1>5 DEF t
  <2>2. IF Followed(s, i, "unblock") THEN ~c.before.blocked
        ELSE c.before.blocked /\ c.before.suspended = s[i].before.suspended
    BY <2>1 DEF Stands
  <2>3. CASE c.action = "unblock"
    BY <2>1, <2>3, StatusChange
  <2>4. CASE c.action \in {"suspend", "unsuspend"}
    BY <1>2, <2>1, <2>2, <2>4, StatusChange
  <2>5. CASE c.action \in {"delete", "restore", "update", "totp_require", "totp_unrequire"}
    BY <2>1, <2>2, <2>5, StatusChange
  <2> QED BY <1>4, <2>1, <2>3, <2>4, <2>5
<1>6. ASSUME t[i].action = "delete", ~Followed(t, i, "delete")
      PROVE  IF Followed(t, i, "restore") THEN ~c.after.deleted
             ELSE c.after.deleted /\ c.after.suspended = t[i].before.suspended
                                  /\ c.after.blocked = t[i].before.blocked
  <2>1. /\ s[i].action = "delete" /\ ~Followed(s, i, "delete") /\ c.action # "delete"
        /\ t[i] = s[i]
        /\ Followed(t, i, "restore") <=> Followed(s, i, "restore") \/ c.action = "restore"
    BY <1>1, <1>6 DEF t
  <2>2. IF Followed(s, i, "restore") THEN ~c.before.deleted
        ELSE c.before.deleted /\ c.before.suspended = s[i].before.suspended
                              /\ c.before.blocked = s[i].before.blocked
    BY <2>1 DEF Stands
  <2>3. CASE c.action = "restore"
    BY <2>1, <2>3, StatusChange
  <2>4. CASE c.action \in {"suspend", "unsuspend", "block", "unblock"}
    BY <1>2, <2>1, <2>2, <2>4, StatusChange
  <2>5. CASE c.action \in {"update", "totp_require", "totp_unrequire"}
    BY <2>1, <2>2, <2>5, StatusChange
  <2> QED BY <1>4, <2>1, <2>3, <2>4, <2>5
<1>7. Stands(t, c.after, i)
  BY <1>5, <1>6 DEF Stands
<1> QED BY <1>7 DEF t

LEMMA StandsNew ==
  ASSUME NEW s \in Seq(ChangeType), NEW c \in ChangeType, ChangeSound(c)
  PROVE  Stands(Append(s, c), c.after, Len(s) + 1)
<1> DEFINE t == Append(s, c)
<1>1. t[Len(s) + 1] = c /\ Len(t) = Len(s) + 1 /\ Len(s) \in Nat
  OBVIOUS
<1>2. c.action \in {"block", "delete"} => c.before # NULL
  BY DEF ChangeSound
<1> HIDE DEF t
<1>3. \A action : ~Followed(t, Len(s) + 1, action)
  BY <1>1 DEF Followed
<1>4. Stands(t, c.after, Len(s) + 1)
  BY <1>1, <1>2, <1>3, StatusChange DEF Stands
<1> QED BY <1>4 DEF t

\* A change that undoes an earlier one.
LEMMA Undone ==
  ASSUME NEW s \in Seq(ChangeType), NEW c \in ChangeType, NEW i \in 1 .. Len(s),
         ChangeSound(c), ChangeSound(s[i]), c.before # NULL, Stands(s, c.before, i),
         <<s[i].action, c.action>> \in Undoes, ~Followed(s, i, s[i].action)
  PROVE  Status(c.after) = Status(s[i].before)
<1> DEFINE b == s[i]
<1>1. b \in ChangeType /\ ChangeSound(b)
  OBVIOUS
<1>2. \/ b.action = "suspend" /\ c.action = "unsuspend"
      \/ b.action = "block" /\ c.action = "unblock"
      \/ b.action = "delete" /\ c.action = "restore"
  BY DEF Undoes
<1>3. Stands(s, c.before, i) /\ ~Followed(s, i, b.action)
  OBVIOUS
<1>4. b.action = "block" =>
        IF Followed(s, i, "unblock") THEN ~c.before.blocked
        ELSE c.before.blocked /\ c.before.suspended = b.before.suspended
  BY <1>3 DEF Stands
<1>5. b.action = "delete" =>
        IF Followed(s, i, "restore") THEN ~c.before.deleted
        ELSE c.before.deleted /\ c.before.suspended = b.before.suspended
                              /\ c.before.blocked = b.before.blocked
  BY <1>3 DEF Stands
<1> HIDE DEF b
<1>6. b.before # NULL
  BY <1>1, <1>2 DEF ChangeSound
<1>7. /\ b.before \in RowType /\ c.before \in RowType /\ c.after \in RowType
  BY <1>1, <1>6, StatusChange
<1> DEFINE StatusIs(row) ==
      /\ row.suspended \in BOOLEAN /\ row.blocked \in BOOLEAN /\ row.deleted \in BOOLEAN
      /\ Status(row) = IF row.deleted THEN "deleted"
                       ELSE IF row.blocked THEN "blocked"
                       ELSE IF row.suspended THEN "suspended" ELSE "active"
<1>8. StatusIs(b.before) /\ StatusIs(c.before) /\ StatusIs(c.after)
  BY <1>7, StatusOf DEF RowType
<1>9. ASSUME b.action = "suspend", c.action = "unsuspend"
      PROVE  Status(c.after) = Status(b.before)
  <2>1. /\ Status(b.before) = "active" /\ Status(c.before) = "suspended"
        /\ ~c.after.suspended /\ c.after.blocked = c.before.blocked
        /\ c.after.deleted = c.before.deleted
    BY <1>1, <1>6, <1>9, StatusChange
  <2> QED BY <1>8, <2>1
<1>10. ASSUME b.action = "block", c.action = "unblock"
       PROVE  Status(c.after) = Status(b.before)
  <2>1. /\ Status(b.before) \in {"active", "suspended"} /\ Status(c.before) = "blocked"
        /\ ~c.after.blocked /\ c.after.suspended = c.before.suspended
        /\ c.after.deleted = c.before.deleted
    BY <1>1, <1>6, <1>10, StatusChange
  <2> QED BY <1>4, <1>8, <1>10, <2>1
<1>11. ASSUME b.action = "delete", c.action = "restore"
       PROVE  Status(c.after) = Status(b.before)
  <2>1. /\ Status(b.before) \in {"active", "suspended", "blocked"}
        /\ Status(c.before) = "deleted" /\ ~c.after.deleted
        /\ c.after.suspended = c.before.suspended /\ c.after.blocked = c.before.blocked
    BY <1>1, <1>6, <1>11, StatusChange
  <2> QED BY <1>5, <1>8, <1>11, <2>1
<1>12. Status(c.after) = Status(b.before)
  BY <1>2, <1>9, <1>10, <1>11
<1> QED BY <1>12 DEF b

UndoSound(s, row) ==
  /\ \A i \in DOMAIN s : ChangeSound(s[i]) /\ Stands(s, row, i)
  /\ \A i, j \in DOMAIN s :
       /\ i < j
       /\ <<s[i].action, s[j].action>> \in Undoes
       /\ \A k \in i + 1 .. j - 1 : s[k].action # s[i].action
       => Status(s[j].after) = Status(s[i].before)

LEMMA UndoSounds == UndoInv <=> \A u \in User : UndoSound(trail[u], users[u])
BY DEF UndoInv, UndoRestoresStatus, UndoSound

LEMMA UndoOn ==
  ASSUME NoticesAssumption, NEW s \in Seq(ChangeType), NEW c \in ChangeType, ChangeSound(c),
         s # <<>> => c.before = s[Len(s)].after, UndoSound(s, c.before)
  PROVE  UndoSound(Append(s, c), c.after)
<1>1. ASSUME s # <<>> PROVE c.before # NULL
  <2>1. s[Len(s)] \in ChangeType
    BY <1>1
  <2> QED BY <1>1, <2>1, NoticesAssumption DEF ChangeType
<1>2. /\ Len(s) \in Nat /\ (Len(s) > 0 => s # <<>>) /\ DOMAIN s = 1 .. Len(s)
      /\ DOMAIN Append(s, c) = 1 .. Len(s) + 1
      /\ \A i \in 1 .. Len(s) : Append(s, c)[i] = s[i]
      /\ Append(s, c)[Len(s) + 1] = c
  OBVIOUS
<1> DEFINE t == Append(s, c)
<1>3. ASSUME NEW i \in 1 .. Len(s) + 1 PROVE ChangeSound(t[i]) /\ Stands(t, c.after, i)
  <2>1. CASE i = Len(s) + 1
    BY <1>2, <2>1, StandsNew
  <2>2. CASE i \in 1 .. Len(s)
    <3>1. ChangeSound(s[i]) /\ Stands(s, c.before, i) /\ c.before # NULL
      BY <1>1, <1>2, <2>2 DEF UndoSound
    <3>2. Stands(t, c.after, i)
      BY <2>2, <3>1, StandsOn
    <3> QED BY <1>2, <2>2, <3>1, <3>2
  <2> QED BY <1>2, <2>1, <2>2
<1>4. ASSUME NEW i \in 1 .. Len(s) + 1, NEW j \in 1 .. Len(s) + 1, i < j,
             <<t[i].action, t[j].action>> \in Undoes,
             \A k \in i + 1 .. j - 1 : t[k].action # t[i].action
      PROVE  Status(t[j].after) = Status(t[i].before)
  <2>1. i \in 1 .. Len(s) /\ t[i] = s[i]
    BY <1>2, <1>4
  <2>2. CASE j \in 1 .. Len(s)
    <3>1. /\ t[j] = s[j] /\ i \in DOMAIN s /\ j \in DOMAIN s
          /\ \A k \in i + 1 .. j - 1 : t[k] = s[k]
      BY <1>2, <2>1, <2>2
    <3> HIDE DEF t
    <3>2. /\ <<s[i].action, s[j].action>> \in Undoes
          /\ \A k \in i + 1 .. j - 1 : s[k].action # s[i].action
      BY <1>4, <2>1, <3>1
    <3> QED BY <1>4, <2>1, <3>1, <3>2 DEF UndoSound
  <2>3. CASE j = Len(s) + 1
    <3>1. t[j] = c /\ \A k \in i + 1 .. Len(s) : t[k] = s[k]
      BY <1>2, <2>1, <2>3
    <3>2. ChangeSound(s[i]) /\ Stands(s, c.before, i) /\ c.before # NULL
      BY <1>1, <1>2, <2>1 DEF UndoSound
    <3> HIDE DEF t
    <3>3. ~Followed(s, i, s[i].action)
      BY <1>2, <1>4, <2>1, <2>3, <3>1 DEF Followed
    <3>4. <<s[i].action, c.action>> \in Undoes
      BY <1>4, <2>1, <3>1
    <3>5. Status(c.after) = Status(s[i].before)
      BY <2>1, <3>2, <3>3, <3>4, Undone
    <3> QED BY <2>1, <3>1, <3>5
  <2> QED BY <1>2, <2>2, <2>3
<1> HIDE DEF t
<1>5. DOMAIN t = 1 .. Len(s) + 1
  BY <1>2 DEF t
<1>6. UndoSound(t, c.after)
  BY <1>3, <1>4, <1>5 DEF UndoSound
<1> QED BY <1>6 DEF t

LEMMA UndoStep == AccountsInv /\ UndoInv /\ [Next]_vars => UndoInv'
<1> SUFFICES ASSUME AccountsInv, UndoInv, [Next]_vars PROVE UndoInv'
  OBVIOUS
<1> USE UndoSounds
<1>1. CASE UNCHANGED <<users, trail>>
  BY <1>1 DEF UndoInv, UndoRestoresStatus
<1>2. ASSUME NEW c \in transactions, CommitChange(c) PROVE UndoInv'
  <2>1. /\ users' = [users EXCEPT ![c.user] = c.after]
        /\ trail' = [trail EXCEPT ![c.user] = Append(trail[c.user], c)]
        /\ c \in ChangeType /\ c.user \in User /\ ChangeSound(c) /\ c.before = users[c.user]
    BY <1>2 DEF CommitChange, AccountsInv, ChangeType, OpenSound
  <2>2. trail[c.user] \in Seq(ChangeType)
    BY <2>1 DEF AccountsInv
  <2>3. trail[c.user] # <<>> => c.before = trail[c.user][Len(trail[c.user])].after
    BY <2>1 DEF AccountsInv, AuditTrailFaithful
  <2>4. UndoSound(Append(trail[c.user], c), c.after)
    BY <2>1, <2>2, <2>3, UndoOn, NoticesAssumption
  <2>5. ASSUME NEW u \in User PROVE UndoSound(trail'[u], users'[u])
    BY <2>1, <2>4 DEF AccountsInv
  <2> QED BY <2>5 DEF UndoInv, UndoRestoresStatus, UndoSound
<1>3. CASE AccountStep
  <2>1. ASSUME NEW c, Opens(c) PROVE UNCHANGED <<users, trail>>
    BY <2>1 DEF Opens, Change, ChangeUnlocked
  <2>2. ASSUME NEW c, RollbackChange(c) PROVE UNCHANGED <<users, trail>>
    BY <2>2 DEF RollbackChange
  <2> QED BY <1>1, <1>2, <1>3, <2>1, <2>2, AccountStepOpens
<1>4. CASE Next /\ ~(AccountStep /\ UNCHANGED <<notificationVars, restOfGrants>>)
  BY <1>1, <1>4, OtherSteps
<1> QED BY <1>1, <1>3, <1>4 DEF vars

\* An action that undoes another brings back the status from before it
\* (users.service.ts, TRANSITIONS and setStatusTimestamps).
THEOREM UndoRestores == Spec => []UndoRestoresStatus
<1>1. Init => UndoInv
  <2> SUFFICES ASSUME Init PROVE UndoInv
    OBVIOUS
  <2>1. \A u \in User : trail[u] = <<>>
    BY DEF Init, AccountsInit
  <2> QED BY <2>1, UndoSounds DEF UndoSound
<1>2. UndoInv => UndoRestoresStatus
  BY DEF UndoInv
<1> QED BY <1>1, <1>2, UndoStep, AccountsHold, PTL DEF Spec

-----------------------------------------------------------------------------
\* What is recorded in the queue.

LEMMA JobKinds ==
  ASSUME NEW k \in JobType
  PROVE  /\ k.type = "email" => k \in EmailJob /\ k.notice \in NoticeType
         /\ k.type = "recipient" => k \in RecipientJob
         /\ k.type = "capability" => k \in CapabilityJob
         /\ k.type = "account" => k \in AccountJob /\ k.user \in User
         /\ k.type = "permission" => k \in PermissionJob /\ k.user \in User
         /\ k.type = "failure" => k \in FailureJob /\ k.id \in User
<1> USE DEF JobType, NoticeJob, AccountJob, PermissionJob, FailureJob, CapabilityJob,
            InvitationJob, RecipientJob, EmailJob
<1>1. k.type = "email" => k \in EmailJob /\ k.notice \in NoticeType
  OBVIOUS
<1>2. k.type = "recipient" => k \in RecipientJob
  OBVIOUS
<1>3. k.type = "capability" => k \in CapabilityJob
  OBVIOUS
<1>4. k.type = "account" => k \in AccountJob /\ k.user \in User
  OBVIOUS
<1>5. k.type = "permission" => k \in PermissionJob /\ k.user \in User
  OBVIOUS
<1>6. k.type = "failure" => k \in FailureJob /\ k.id \in User
  OBVIOUS
<1> QED BY <1>1, <1>2, <1>3, <1>4, <1>5, <1>6

LEMMA NoticeOfJob ==
  ASSUME NEW k \in JobType, NEW u \in User, k.type \in {"account", "permission", "failure"}
  PROVE  /\ NoticeOf(k, u) \in NoticeType /\ NoticeOf(k, u).user = u
         /\ NoticeOf(k, u).category =
              IF k.type = "account" THEN "account"
              ELSE IF k.type = "permission" THEN "access" ELSE "operational"
<1>1. CASE k.type = "account"
  <2>1. k.at \in NoticeAt
    BY <1>1, JobKinds DEF AccountJob, NoticeAt
  <2> QED BY <1>1, <2>1 DEF NoticeOf, NoticeType, Category
<1>2. CASE k.type = "permission"
  <2>1. OccurredAtOf(k) \in NoticeAt
    BY <1>2, JobKinds DEF NoticeAt
  <2> QED BY <1>2, <2>1 DEF NoticeOf, NoticeType, Category
<1>3. CASE k.type = "failure"
  <2>1. k.id \in NoticeAt
    BY <1>3, JobKinds DEF FailureJob, NoticeAt
  <2> QED BY <1>3, <2>1 DEF NoticeOf, NoticeType, Category
<1> QED BY <1>1, <1>2, <1>3

\* The jobs a change of an account, and a change of the grants, enqueue.
LEMMA AccountJobs ==
  ASSUME NEW c \in ChangeType
  PROVE  /\ JobsOf(c.user, c.action, c.at, c.after) \subseteq JobType
         /\ \A k \in JobsOf(c.user, c.action, c.at, c.after) :
              /\ k.type \in {"invitation", "recipient", "account"} /\ k.user = c.user
              /\ k.type = "recipient" => k = RecipientSync(c.user, c.at, c.after)
<1>1. /\ c.user \in User /\ c.at \in 1 .. MaxChanges /\ c.action \in ActionType
      /\ (~c.after.deleted) \in BOOLEAN
  BY DEF ChangeType, RowType
<1>2. Invitation(c.user) \in JobType /\ RecipientSync(c.user, c.at, c.after) \in JobType
  BY <1>1 DEF Invitation, RecipientSync, JobType, InvitationJob, RecipientJob
<1>3. AccountStatus(c.user, c.action, c.at) \in JobType
  BY <1>1 DEF AccountStatus, JobType, NoticeJob, AccountJob
<1>4. JobsOf(c.user, c.action, c.at, c.after) \subseteq
        {Invitation(c.user), RecipientSync(c.user, c.at, c.after),
         AccountStatus(c.user, c.action, c.at)}
  BY Zenon DEF JobsOf
<1>5. /\ Invitation(c.user).type = "invitation" /\ Invitation(c.user).user = c.user
      /\ RecipientSync(c.user, c.at, c.after).type = "recipient"
      /\ RecipientSync(c.user, c.at, c.after).user = c.user
      /\ AccountStatus(c.user, c.action, c.at).type = "account"
      /\ AccountStatus(c.user, c.action, c.at).user = c.user
  BY DEF Invitation, RecipientSync, AccountStatus
<1> QED BY <1>2, <1>3, <1>4, <1>5

GrantJobs(u, action, changed, r, b) ==
  {PermissionChanged(u, action, p, r) : p \in changed} \cup {Capability(u, b)}

LEMMA GrantJobsTyped ==
  ASSUME NEW u \in User, NEW action \in {"grant", "revoke"}, NEW changed \in SUBSET Permission,
         NEW r \in Request, NEW b \in BOOLEAN
  PROVE  /\ GrantJobs(u, action, changed, r, b) \subseteq JobType
         /\ \A k \in GrantJobs(u, action, changed, r, b) :
              k.type \in {"permission", "capability"} /\ k.user = u
<1>1. ASSUME NEW p \in changed
      PROVE  /\ PermissionChanged(u, action, p, r) \in JobType
             /\ PermissionChanged(u, action, p, r).type = "permission"
             /\ PermissionChanged(u, action, p, r).user = u
  BY DEF PermissionChanged, JobType, NoticeJob, PermissionJob
<1>2. /\ Capability(u, b) \in JobType /\ Capability(u, b).type = "capability"
      /\ Capability(u, b).user = u
  BY DEF Capability, JobType, CapabilityJob
<1> QED BY <1>1, <1>2 DEF GrantJobs

-----------------------------------------------------------------------------
\* The attempts.

LEMMA Ended ==
  ASSUME attempt \in [Worker -> AttemptType], NEW w \in Worker, End(w)
  PROVE  /\ attempt' \in [Worker -> AttemptType]
         /\ attempt'[w].step = "idle" /\ AttemptSound(Idle)'
         /\ attempt'[w] = Idle /\ \A v \in Worker \ {w} : attempt'[v] = attempt[v]
<1>1. Idle \in AttemptType /\ Idle.step = "idle"
  BY DEF Idle, AttemptType
<1>2. AttemptSound(Idle)'
  BY <1>1 DEF AttemptSound, Creating, Making
<1> QED BY <1>1, <1>2 DEF End

LEMMA Moved ==
  ASSUME attempt \in [Worker -> AttemptType], NEW w \in Worker,
         NEW step \in {"idle", "send"} \cup Creating, Move(w, step)
  PROVE  /\ attempt' \in [Worker -> AttemptType]
         /\ \A v \in Worker \ {w} : attempt'[v] = attempt[v]
         /\ attempt'[w].step = step /\ attempt'[w].job = attempt[w].job
         /\ attempt'[w].todo = attempt[w].todo /\ attempt'[w].notice = attempt[w].notice
<1> DEFINE a == attempt[w]  n == [a EXCEPT !.step = step]
<1>1. a \in AttemptType /\ attempt' = [attempt EXCEPT ![w] = n]
  BY DEF Move
<1> HIDE DEF a
<1>2. n \in AttemptType
  BY <1>1 DEF AttemptType
<1>3. n.step = step /\ n.job = a.job /\ n.todo = a.todo /\ n.notice = a.notice
  BY <1>1 DEF AttemptType
<1> HIDE DEF n
<1> QED BY <1>1, <1>2, <1>3 DEF a

\* What the tables keep is enough for the other attempts.
LEMMA OthersSound ==
  ASSUME AttemptsInv, NEW w \in Worker, NEW a, a = attempt'[w],
         attempt' \in [Worker -> AttemptType],
         \A v \in Worker \ {w} : attempt'[v] = attempt[v],
         Recorded \subseteq Recorded', notification \subseteq notification',
         DOMAIN delivery \subseteq DOMAIN delivery', ignored \subseteq ignored',
         AttemptSound(a)'
  PROVE  AttemptsInv'
<1>1. ASSUME NEW b, AttemptSound(b) PROVE AttemptSound(b)'
  BY <1>1 DEF AttemptSound, Delivered, Excused
<1>2. ASSUME NEW v \in Worker \ {w}, NEW b, b = attempt[v] PROVE AttemptSound(b)'
  BY <1>1, <1>2 DEF AttemptsInv
<1>3. ASSUME NEW v \in Worker, NEW b, b = attempt'[v] PROVE AttemptSound(b)'
  BY <1>2, <1>3
<1> QED BY <1>3 DEF AttemptsInv

\* Steps that neither create nor send: no email is enqueued and no job that
\* creates a notification is completed.
LEMMA NoticesFrame ==
  ASSUME NoticesInv, UNCHANGED <<notification, delivery, attempt, ignored, stranded>>,
         RecipientsInv', JobsInv', Recorded \subseteq Recorded',
         \A k \in Recorded' : k \in Recorded \/ k.type # "email",
         \A k \in completed' : k \in completed \/ k.type \notin {"account", "permission"}
  PROVE  NoticesInv'
<1>1. ASSUME NEW a, AttemptSound(a) PROVE AttemptSound(a)'
  BY <1>1 DEF AttemptSound, Delivered, Excused
<1>2. AttemptsInv'
  BY <1>1 DEF NoticesInv, AttemptsInv
<1>3. \A key : EmailOnItsWay(key) => EmailOnItsWay(key)'
  BY DEF EmailOnItsWay, Running
<1>4. TablesInv'
  BY <1>3 DEF NoticesInv, TablesInv, Delivered, Excused
<1> QED BY <1>2, <1>4 DEF NoticesInv

LEMMA OnItsWay ==
  ASSUME NEW w \in Worker, \A v \in Worker \ {w} : attempt'[v] = attempt[v],
         Recorded \subseteq Recorded', stranded \subseteq stranded',
         Running(w, "enqueue") => \/ Email(attempt[w].notice) \in Recorded'
                                  \/ attempt[w].notice \in stranded'
  PROVE  \A key : EmailOnItsWay(key) => EmailOnItsWay(key)'
<1> SUFFICES ASSUME NEW key, EmailOnItsWay(key) PROVE EmailOnItsWay(key)'
  OBVIOUS
<1>1. CASE Email(key) \in Recorded
  BY <1>1 DEF EmailOnItsWay, Email
<1>2. CASE key \in stranded
  BY <1>2 DEF EmailOnItsWay
<1>3. ASSUME NEW v \in Worker, Running(v, "enqueue"), attempt[v].notice = key
      PROVE  EmailOnItsWay(key)'
  <2>1. CASE v = w
    BY <1>3, <2>1 DEF EmailOnItsWay, Email
  <2>2. CASE v # w
    BY <1>3, <2>2 DEF EmailOnItsWay, Running
  <2> QED BY <2>1, <2>2
<1> QED BY <1>1, <1>2, <1>3 DEF EmailOnItsWay

LEMMA StartCreateNotices ==
  ASSUME NoticesInv, NEW w \in Worker, NEW job \in queued, StartCreate(w, job)
  PROVE  NoticesInv'
<1> DEFINE n == [Idle EXCEPT !.step = "next", !.job = job, !.todo = Audience(job)]
<1>1. /\ job \in Recorded /\ job \in JobType /\ job.type \in {"account", "permission", "failure"}
      /\ attempt' = [attempt EXCEPT ![w] = n] /\ Running(w, "idle")
      /\ UNCHANGED <<queued, completed, recipient, disabled, overtaken, noticeVars>>
  BY DEF NoticesInv, JobsInv, Recorded, StartCreate
<1>2. Audience(job) \subseteq User /\ (job.type # "failure" => Audience(job) = {job.user})
  BY <1>1, JobKinds DEF Audience
<1>3. n \in AttemptType /\ n.step = "next" /\ n.job = job /\ n.todo = Audience(job)
  BY <1>1, <1>2 DEF Idle, AttemptType, Creating
<1> HIDE DEF n
<1>4. /\ attempt' \in [Worker -> AttemptType] /\ attempt'[w] = n
      /\ \A v \in Worker \ {w} : attempt'[v] = attempt[v]
  BY <1>1, <1>3 DEF NoticesInv, AttemptsInv
<1>5. ASSUME NEW a, a = n PROVE AttemptSound(a)'
  BY <1>1, <1>2, <1>3, <1>5 DEF AttemptSound, Making, Recorded
<1>6. AttemptsInv'
  BY <1>1, <1>4, <1>5, OthersSound DEF NoticesInv, noticeVars, Recorded
<1>7. \A key : EmailOnItsWay(key) => EmailOnItsWay(key)'
  BY <1>1, <1>4, OnItsWay DEF Running, Recorded, noticeVars
<1>8. TablesInv'
  BY <1>1, <1>7 DEF NoticesInv, TablesInv, Delivered, Excused, noticeVars, Recorded
<1> QED BY <1>1, <1>6, <1>8 DEF NoticesInv, JobsInv, RecipientsInv, Recorded

LEMMA ReadRecipientNotices ==
  ASSUME NoticesInv, NEW w \in Worker, NEW u \in User, ReadRecipient(w, u)
  PROVE  NoticesInv'
<1> DEFINE a == attempt[w]
           wanted == recipient[u] # NULL /\ (recipient[u].active \/ a.job.type = "account")
           why == IF recipient[u] = NULL THEN "unknown" ELSE "inactive"
           n == [a EXCEPT !.todo = a.todo \ {u},
                          !.notice = IF wanted THEN NoticeOf(a.job, u) ELSE a.notice,
                          !.step = IF wanted THEN "insert" ELSE "next"]
<1>1. /\ a.step = "next" /\ u \in a.todo /\ attempt' = [attempt EXCEPT ![w] = n]
      /\ ignored' = IF wanted THEN ignored ELSE ignored \cup {<<a.job, why>>}
      /\ UNCHANGED <<queued, completed, recipient, notification, delivery, disabled,
                     stranded, overtaken>>
  BY DEF ReadRecipient, Running
<1>2. a \in AttemptType /\ AttemptSound(a)
  BY DEF NoticesInv, AttemptsInv
<1>3. a.job \in Recorded /\ a.job \in JobType /\ a.job.type \in {"account", "permission", "failure"}
  BY <1>1, <1>2 DEF AttemptSound, Creating, NoticesInv, JobsInv
<1>4. a.job.type # "failure" => a.todo = {a.job.user} /\ u = a.job.user
  BY <1>1, <1>2 DEF AttemptSound
<1> HIDE DEF a, wanted
<1>5. NoticeOf(a.job, u) \in NoticeType
  BY <1>3, NoticeOfJob
<1>6. /\ n \in AttemptType /\ n.todo = a.todo \ {u} /\ n.job = a.job
      /\ n.notice = IF wanted THEN NoticeOf(a.job, u) ELSE a.notice
      /\ n.step = IF wanted THEN "insert" ELSE "next"
  BY <1>2, <1>5 DEF AttemptType, Creating
<1> HIDE DEF n
<1>7. /\ attempt' \in [Worker -> AttemptType] /\ attempt'[w] = n
      /\ \A v \in Worker \ {w} : attempt'[v] = attempt[v]
  BY <1>1, <1>6 DEF NoticesInv, AttemptsInv
<1>8. ASSUME NEW b, b = n PROVE AttemptSound(b)'
  <2>1. CASE wanted
    BY <1>1, <1>3, <1>4, <1>5, <1>6, <1>8, <2>1 DEF AttemptSound, Making, Recorded
  <2>2. CASE ~wanted
    <3>1. Excused(b.job)'
      BY <1>1, <1>6, <1>8, <2>2 DEF Excused, wanted
    <3> QED BY <1>1, <1>3, <1>4, <1>6, <1>8, <2>2, <3>1 DEF AttemptSound, Making, Recorded
  <2> QED BY <2>1, <2>2
<1>9. AttemptsInv'
  BY <1>1, <1>7, <1>8, OthersSound DEF NoticesInv, Recorded
<1>10. ~Running(w, "enqueue")
  BY <1>1 DEF Running, a
<1>11. \A key : EmailOnItsWay(key) => EmailOnItsWay(key)'
  BY <1>1, <1>7, <1>10, OnItsWay DEF Recorded
<1>12. TablesInv'
  BY <1>1, <1>11 DEF NoticesInv, TablesInv, Delivered, Excused, Recorded
<1> QED BY <1>1, <1>9, <1>12 DEF NoticesInv, JobsInv, RecipientsInv, Recorded

LEMMA InsertNotificationNotices ==
  ASSUME NoticesInv, NEW w \in Worker, InsertNotification(w)
  PROVE  NoticesInv'
<1> DEFINE a == attempt[w]
<1>1. /\ a.step = "insert" /\ Move(w, "in_app")
      /\ notification' = notification \cup {a.notice}
      /\ UNCHANGED <<queued, completed, recipient, delivery, disabled,
                     ignored, stranded, overtaken>>
  BY DEF InsertNotification, Running
<1>2. a \in AttemptType /\ AttemptSound(a) /\ attempt \in [Worker -> AttemptType]
  BY DEF NoticesInv, AttemptsInv
<1>3. "in_app" \in Creating
  BY DEF Creating
<1>4. /\ attempt' \in [Worker -> AttemptType]
      /\ \A v \in Worker \ {w} : attempt'[v] = attempt[v]
      /\ attempt'[w].step = "in_app" /\ attempt'[w].job = a.job
      /\ attempt'[w].todo = a.todo /\ attempt'[w].notice = a.notice
  BY <1>1, <1>2, <1>3, Moved
<1>5. a.notice \in NoticeType
  BY <1>1, <1>2 DEF AttemptSound, Making
<1>6. ASSUME NEW b, b = attempt'[w] PROVE AttemptSound(b)'
  <2>1. b.step = "in_app" /\ b.job = a.job /\ b.todo = a.todo /\ b.notice = a.notice
    BY <1>4, <1>6
  <2> HIDE DEF a
  <2> QED BY <1>1, <1>2, <2>1 DEF AttemptSound, Creating, Making, Recorded
<1>7. AttemptsInv'
  BY <1>1, <1>4, <1>6, OthersSound DEF NoticesInv, Recorded
<1>8. ~Running(w, "enqueue")
  BY <1>1 DEF Running
<1>9. \A key : EmailOnItsWay(key) => EmailOnItsWay(key)'
  BY <1>1, <1>4, <1>8, OnItsWay DEF Recorded
<1>10. TablesInv'
  BY <1>1, <1>5, <1>9 DEF NoticesInv, TablesInv, Delivered, Excused, Recorded
<1> QED BY <1>1, <1>7, <1>10 DEF NoticesInv, JobsInv, RecipientsInv, Recorded

LEMMA InsertDeliveryNotices ==
  ASSUME NoticesInv, NEW w \in Worker, NEW channel \in Channel, InsertDelivery(w, channel)
  PROVE  NoticesInv'
<1>0. PICK job, key : job = attempt[w].job /\ key = attempt[w].notice
  OBVIOUS
<1> DEFINE a == attempt[w]
           enabled == Enabled(key.user, key.category, channel)
           status == IF enabled THEN "queued" ELSE "skipped"
           next == IF channel = "in_app" THEN "email"
                   ELSE IF enabled /\ <<key, channel>> \notin DOMAIN delivery THEN "enqueue"
                   ELSE "next"
<1>1. /\ a.step = channel /\ Move(w, next) /\ delivery' = Inserted(key, channel, status)
      /\ UNCHANGED <<queued, completed, recipient, notification, disabled,
                     ignored, stranded, overtaken>>
  BY <1>0 DEF InsertDelivery, Running
<1>2. a \in AttemptType /\ AttemptSound(a) /\ attempt \in [Worker -> AttemptType]
  BY DEF NoticesInv, AttemptsInv
<1>3. next \in Creating /\ status \in {"queued", "skipped"}
  BY DEF Creating
<1>4. /\ attempt' \in [Worker -> AttemptType]
      /\ \A v \in Worker \ {w} : attempt'[v] = attempt[v]
      /\ attempt'[w].step = next /\ attempt'[w].job = job
      /\ attempt'[w].todo = a.todo /\ attempt'[w].notice = key
  BY <1>0, <1>1, <1>2, <1>3, Moved
<1>5. /\ key \in NoticeType /\ key \in notification
      /\ job \in Recorded /\ job.type \in {"account", "permission", "failure"}
      /\ \E u \in User : key = NoticeOf(job, u)
      /\ job.type # "failure" => a.todo = {} /\ key = NoticeOf(job, job.user)
      /\ channel = "email" => <<key, "in_app">> \in DOMAIN delivery
  BY <1>0, <1>1, <1>2 DEF AttemptSound, Making, Creating, Channel
<1>6. key.category = "account" => status = "queued"
  BY DEF Enabled, MandatoryChannels, Channel
<1>7. /\ channel \in {"in_app", "email"}
      /\ channel = "in_app" => next = "email"
      /\ channel = "email" => next \in {"enqueue", "next"}
      /\ channel = "email" /\ status = "queued" /\ <<key, channel>> \notin DOMAIN delivery
           => next = "enqueue"
  BY DEF Channel
<1> HIDE DEF next, status, enabled
<1>8. /\ DOMAIN delivery' = DOMAIN delivery \cup {<<key, channel>>}
      /\ \A d \in DOMAIN delivery : delivery'[d] = delivery[d]
      /\ <<key, channel>> \notin DOMAIN delivery => delivery'[<<key, channel>>] = status
      /\ delivery' \in [DOMAIN delivery' -> DeliveryStatus]
  BY <1>1, <1>3 DEF Inserted, NoticesInv, TablesInv, DeliveryStatus
<1>9. ASSUME NEW b, b = attempt'[w] PROVE AttemptSound(b)'
  <2>1. b.step = next /\ b.job = job /\ b.todo = a.todo /\ b.notice = key
    BY <1>4, <1>9
  <2>2. <<key, channel>> \in DOMAIN delivery' /\ DOMAIN delivery \subseteq DOMAIN delivery'
    BY <1>8
  <2> HIDE DEF a
  <2>3. CASE channel = "in_app"
    BY <1>1, <1>5, <1>7, <2>1, <2>2, <2>3 DEF AttemptSound, Creating, Making, Recorded
  <2>4. ASSUME channel = "email" PROVE AttemptSound(b)'
    <3>1. <<key, "in_app">> \in DOMAIN delivery' /\ <<key, "email">> \in DOMAIN delivery'
      BY <1>5, <2>2, <2>4
    <3>2. (job.type # "failure" => Delivered(NoticeOf(job, job.user)))'
      BY <1>1, <1>5, <3>1 DEF Delivered, Channel
    <3>3. CASE next = "next"
      BY <1>1, <1>5, <2>1, <3>1, <3>2, <3>3 DEF AttemptSound, Creating, Making, Recorded
    <3>4. CASE next = "enqueue"
      BY <1>1, <1>5, <2>1, <3>1, <3>4 DEF AttemptSound, Creating, Making, Recorded
    <3> QED BY <1>7, <2>4, <3>3, <3>4
  <2> QED BY <1>7, <2>3, <2>4
<1>10. AttemptsInv'
  BY <1>1, <1>4, <1>8, <1>9, OthersSound DEF NoticesInv, Recorded
<1>11. ~Running(w, "enqueue")
  BY <1>1, <1>7 DEF Running
<1>12. \A k : EmailOnItsWay(k) => EmailOnItsWay(k)'
  BY <1>1, <1>4, <1>11, OnItsWay DEF Recorded
<1>13. ASSUME NEW d \in DOMAIN delivery'
       PROVE  /\ d[1].category = "account" => delivery'[d] # "skipped"
              /\ d[2] = "email" /\ delivery'[d] = "queued" => EmailOnItsWay(d[1])'
  <2>1. CASE d \in DOMAIN delivery
    BY <1>8, <1>12, <2>1 DEF NoticesInv, TablesInv
  <2>2. ASSUME d \notin DOMAIN delivery
        PROVE  /\ d[1].category = "account" => delivery'[d] # "skipped"
               /\ d[2] = "email" /\ delivery'[d] = "queued" => EmailOnItsWay(d[1])'
    <3>1. /\ d = <<key, channel>> /\ d[1] = key /\ d[2] = channel /\ delivery'[d] = status
          /\ <<key, channel>> \notin DOMAIN delivery
      BY <1>8, <2>2
    <3>2. channel = "email" /\ status = "queued" => Running(w, "enqueue")' /\ attempt'[w].notice = key
      BY <1>4, <1>7, <3>1 DEF Running
    <3>3. ASSUME channel = "email", status = "queued" PROVE EmailOnItsWay(key)'
      BY <3>2, <3>3 DEF EmailOnItsWay
    <3> QED BY <1>6, <3>1, <3>3 DEF EmailOnItsWay
  <2> QED BY <2>1, <2>2
<1>14. DOMAIN delivery' \subseteq notification' \X Channel
  BY <1>1, <1>5, <1>8 DEF NoticesInv, TablesInv
<1>15. TablesInv'
  BY <1>1, <1>8, <1>13, <1>14 DEF NoticesInv, TablesInv, Delivered, Excused, Recorded
<1> QED BY <1>1, <1>10, <1>15 DEF NoticesInv, JobsInv, RecipientsInv, Recorded

LEMMA EnqueueEmailNotices ==
  ASSUME NoticesInv, NEW w \in Worker, EnqueueEmail(w)
  PROVE  NoticesInv'
<1>0. PICK job, key : job = attempt[w].job /\ key = attempt[w].notice
  OBVIOUS
<1>1. /\ attempt[w].step = "enqueue" /\ Move(w, "next") /\ Enqueue({Email(key)})
      /\ UNCHANGED <<recipient, disabled, overtaken, notification, delivery,
                     ignored, stranded>>
  BY <1>0 DEF EnqueueEmail, Running, noticeVars
<1>2. /\ attempt[w] \in AttemptType /\ AttemptSound(attempt[w])
      /\ attempt \in [Worker -> AttemptType] /\ "next" \in Creating
  BY DEF NoticesInv, AttemptsInv, Creating
<1>3. /\ attempt' \in [Worker -> AttemptType]
      /\ \A v \in Worker \ {w} : attempt'[v] = attempt[v]
      /\ attempt'[w].step = "next" /\ attempt'[w].job = job
      /\ attempt'[w].todo = attempt[w].todo /\ attempt'[w].notice = key
  BY <1>0, <1>1, <1>2, Moved
<1>4. /\ key \in NoticeType /\ key \in notification
      /\ job \in Recorded /\ job.type \in {"account", "permission", "failure"}
      /\ job.type # "failure" => attempt[w].todo = {} /\ key = NoticeOf(job, job.user)
      /\ <<key, "in_app">> \in DOMAIN delivery /\ <<key, "email">> \in DOMAIN delivery
  BY <1>0, <1>1, <1>2 DEF AttemptSound, Making, Creating
<1>5. Recorded' = Recorded \cup {Email(key)} /\ completed' = completed
  BY <1>1, Enqueued DEF Email
<1>6. Email(key) \in JobType /\ Email(key).type = "email" /\ Email(key).notice = key
  BY <1>4 DEF Email, JobType, EmailJob
<1>7. ASSUME NEW b, b = attempt'[w] PROVE AttemptSound(b)'
  <2>1. b.step = "next" /\ b.job = job /\ b.todo = attempt[w].todo
    BY <1>3, <1>7
  <2>2. (job.type # "failure" => Delivered(NoticeOf(job, job.user)))'
    BY <1>1, <1>4 DEF Delivered, Channel
  <2> QED BY <1>4, <1>5, <2>1, <2>2 DEF AttemptSound, Creating, Making
<1>8. AttemptsInv'
  BY <1>1, <1>3, <1>5, <1>7, OthersSound DEF NoticesInv
<1>9. \A k : EmailOnItsWay(k) => EmailOnItsWay(k)'
  BY <1>0, <1>1, <1>3, <1>5, OnItsWay
<1>10. TablesInv'
  BY <1>1, <1>4, <1>5, <1>6, <1>9 DEF NoticesInv, TablesInv, Delivered, Excused
<1>12. JobsInv'
  BY <1>5, <1>6 DEF NoticesInv, JobsInv
<1> QED BY <1>1, <1>8, <1>10, <1>12 DEF NoticesInv, RecipientsInv

LEMMA EndCreateNotices ==
  ASSUME NoticesInv, NEW w \in Worker, EndCreate(w)
  PROVE  NoticesInv'
<1>0. PICK job : job = attempt[w].job
  OBVIOUS
<1>1. /\ attempt[w].step = "next" /\ attempt[w].todo = {} /\ Ran(job) /\ End(w)
      /\ UNCHANGED <<recipient, disabled, overtaken, notification, delivery,
                     ignored, stranded>>
  BY <1>0 DEF EndCreate, Running, noticeVars
<1>2. /\ AttemptSound(attempt[w]) /\ attempt \in [Worker -> AttemptType]
  BY DEF NoticesInv, AttemptsInv
<1>3. /\ attempt' \in [Worker -> AttemptType] /\ AttemptSound(Idle)'
      /\ attempt'[w].step = "idle" /\ attempt'[w] = Idle
      /\ \A v \in Worker \ {w} : attempt'[v] = attempt[v]
  BY <1>1, <1>2, Ended
<1>4. /\ job \in Recorded
      /\ job.type # "failure" => Excused(job) \/ Delivered(NoticeOf(job, job.user))
  BY <1>0, <1>1, <1>2 DEF AttemptSound, Creating
<1>5. Recorded' = Recorded /\ completed' \subseteq completed \cup {job}
  BY <1>1, <1>4, Finished
<1>6. AttemptsInv'
  BY <1>1, <1>3, <1>5, OthersSound DEF NoticesInv
<1>7. ~Running(w, "enqueue")
  BY <1>1 DEF Running
<1>8. \A k : EmailOnItsWay(k) => EmailOnItsWay(k)'
  BY <1>1, <1>3, <1>5, <1>7, OnItsWay
<1>9. \A k : Delivered(k) => Delivered(k)'
  BY <1>1 DEF Delivered
<1>10. ASSUME NEW k \in completed', k.type \in {"account", "permission"}, ~Excused(k)'
       PROVE  Delivered(NoticeOf(k, k.user))'
  BY <1>1, <1>4, <1>5, <1>9, <1>10 DEF NoticesInv, TablesInv, Excused
<1>11. TablesInv'
  BY <1>1, <1>5, <1>8, <1>10 DEF NoticesInv, TablesInv
<1> QED BY <1>1, <1>5, <1>6, <1>11 DEF NoticesInv, JobsInv, RecipientsInv

LEMMA StartEmailNotices ==
  ASSUME NoticesInv, NEW w \in Worker, NEW job \in queued, StartEmail(w, job)
  PROVE  NoticesInv'
<1> DEFINE key == job.notice
           d == <<key, "email">>
           n == [Idle EXCEPT !.step = "send", !.job = job, !.notice = key]
<1>1. /\ job \in Recorded /\ job.type = "email" /\ Running(w, "idle")
      /\ UNCHANGED <<recipient, notification, disabled, ignored, stranded, overtaken>>
  BY DEF StartEmail, Recorded
<1>2. /\ job \in JobType /\ key \in NoticeType /\ d \in DOMAIN delivery
  BY <1>1, JobKinds DEF NoticesInv, JobsInv, TablesInv
<1>3. CASE Ran(job) /\ UNCHANGED <<delivery, attempt>>
  <2>1. Recorded' = Recorded /\ completed' \subseteq completed \cup {job}
    BY <1>1, <1>3, Finished
  <2> QED BY <1>1, <1>3, <2>1, NoticesFrame DEF NoticesInv, RecipientsInv, JobsInv
<1>4. ASSUME delivery[d] \notin {"sent", "skipped"},
             delivery' = IF delivery[d] = "queued" THEN SetStatus(key, "processing") ELSE delivery,
             attempt' = [attempt EXCEPT ![w] = n], UNCHANGED outboxVars
      PROVE  NoticesInv'
  <2>1. n \in AttemptType /\ n.step = "send" /\ n.job = job /\ n.notice = key
    BY <1>2 DEF Idle, AttemptType
  <2>2. Recorded' = Recorded /\ completed' = completed
    BY <1>4 DEF outboxVars, Recorded
  <2> HIDE DEF n
  <2>3. /\ attempt' \in [Worker -> AttemptType] /\ attempt'[w] = n
        /\ \A v \in Worker \ {w} : attempt'[v] = attempt[v]
    BY <1>4, <2>1 DEF NoticesInv, AttemptsInv
  <2>4. /\ DOMAIN delivery' = DOMAIN delivery
        /\ \A e \in DOMAIN delivery : e # d => delivery'[e] = delivery[e]
        /\ delivery'[d] = IF delivery[d] = "queued" THEN "processing" ELSE delivery[d]
        /\ delivery' \in [DOMAIN delivery' -> DeliveryStatus]
    BY <1>2, <1>4 DEF SetStatus, NoticesInv, TablesInv, DeliveryStatus
  <2>5. ASSUME NEW b, b = n PROVE AttemptSound(b)'
    BY <1>1, <2>1, <2>2, <2>5 DEF AttemptSound, Creating, Making
  <2>6. AttemptsInv'
    BY <1>1, <2>2, <2>3, <2>4, <2>5, OthersSound DEF NoticesInv
  <2>7. ~Running(w, "enqueue")
    BY <1>1 DEF Running
  <2>8. \A k : EmailOnItsWay(k) => EmailOnItsWay(k)'
    BY <1>1, <2>2, <2>3, <2>7, OnItsWay
  <2>9. ASSUME NEW e \in DOMAIN delivery'
        PROVE  /\ e[1].category = "account" => delivery'[e] # "skipped"
               /\ e[2] = "email" /\ delivery'[e] = "queued" => EmailOnItsWay(e[1])'
    <3>1. CASE e = d
      BY <1>4, <2>4, <3>1
    <3>2. CASE e # d
      BY <2>4, <2>8, <3>2 DEF NoticesInv, TablesInv
    <3> QED BY <3>1, <3>2
  <2>10. TablesInv'
    BY <1>1, <2>2, <2>4, <2>9 DEF NoticesInv, TablesInv, Delivered, Excused
  <2> QED BY <1>1, <2>2, <2>6, <2>10 DEF NoticesInv, JobsInv, RecipientsInv
<1> QED BY <1>3, <1>4 DEF StartEmail

\* An attempt that sends says afterwards whether it did.
LEMMA SendingNotices ==
  ASSUME NoticesInv, NEW w \in Worker, Sent(w) \/ NotSent(w)
  PROVE  NoticesInv'
<1>0. PICK job, key : job = attempt[w].job /\ key = attempt[w].notice
  OBVIOUS
<1> DEFINE d == <<key, "email">>
<1>1. /\ attempt[w].step = "send" /\ End(w)
      /\ UNCHANGED <<recipient, notification, disabled, ignored, stranded, overtaken>>
  BY DEF Sent, NotSent, Running
<1>2. /\ AttemptSound(attempt[w]) /\ attempt \in [Worker -> AttemptType]
  BY DEF NoticesInv, AttemptsInv
<1>3. /\ attempt' \in [Worker -> AttemptType] /\ AttemptSound(Idle)'
      /\ attempt'[w].step = "idle" /\ attempt'[w] = Idle
      /\ \A v \in Worker \ {w} : attempt'[v] = attempt[v]
  BY <1>1, <1>2, Ended
<1>4. job \in Recorded /\ job \in JobType /\ job.type = "email" /\ job.notice = key
  BY <1>0, <1>1, <1>2 DEF AttemptSound, NoticesInv, JobsInv
<1>5. key \in NoticeType /\ d \in DOMAIN delivery
  BY <1>4, JobKinds DEF NoticesInv, TablesInv
<1>6. PICK status \in {"sent", "failed"} :
        /\ delivery' = SetStatus(key, status)
        /\ status = "sent" => Ran(job)
        /\ status = "failed" => UNCHANGED <<queued, completed>>
  BY <1>0 DEF Sent, NotSent
<1>7. /\ Recorded' = Recorded /\ completed' \subseteq completed \cup {job}
  BY <1>4, <1>6, Finished DEF Recorded
<1>8. /\ DOMAIN delivery' = DOMAIN delivery /\ delivery'[d] = status
      /\ \A e \in DOMAIN delivery : e # d => delivery'[e] = delivery[e]
      /\ delivery' \in [DOMAIN delivery' -> DeliveryStatus]
  BY <1>5, <1>6 DEF SetStatus, NoticesInv, TablesInv, DeliveryStatus
<1>9. AttemptsInv'
  BY <1>1, <1>3, <1>7, <1>8, OthersSound DEF NoticesInv
<1>10. ~Running(w, "enqueue")
  BY <1>1 DEF Running
<1>11. \A k : EmailOnItsWay(k) => EmailOnItsWay(k)'
  BY <1>1, <1>3, <1>7, <1>10, OnItsWay
<1>12. ASSUME NEW e \in DOMAIN delivery'
       PROVE  /\ e[1].category = "account" => delivery'[e] # "skipped"
              /\ e[2] = "email" /\ delivery'[e] = "queued" => EmailOnItsWay(e[1])'
  <2>1. CASE e = d
    BY <1>6, <1>8, <2>1
  <2>2. CASE e # d
    BY <1>8, <1>11, <2>2 DEF NoticesInv, TablesInv
  <2> QED BY <2>1, <2>2
<1>13. TablesInv'
  BY <1>1, <1>4, <1>7, <1>8, <1>12 DEF NoticesInv, TablesInv, Delivered, Excused
<1> QED BY <1>1, <1>7, <1>9, <1>13 DEF NoticesInv, JobsInv, RecipientsInv

LEMMA AbandonNotices ==
  ASSUME NoticesInv, NEW w \in Worker, Abandon(w)
  PROVE  NoticesInv'
<1>1. /\ End(w)
      /\ stranded' = IF Running(w, "enqueue") THEN stranded \cup {attempt[w].notice} ELSE stranded
      /\ UNCHANGED <<queued, completed, recipient, notification, delivery, disabled,
                     ignored, overtaken>>
  BY DEF Abandon
<1>2. attempt \in [Worker -> AttemptType]
  BY DEF NoticesInv, AttemptsInv
<1>3. /\ attempt' \in [Worker -> AttemptType] /\ AttemptSound(Idle)'
      /\ attempt'[w].step = "idle" /\ attempt'[w] = Idle
      /\ \A v \in Worker \ {w} : attempt'[v] = attempt[v]
  BY <1>1, <1>2, Ended
<1>4. Recorded' = Recorded
  BY <1>1 DEF Recorded
<1>5. AttemptsInv'
  BY <1>1, <1>3, <1>4, OthersSound DEF NoticesInv
<1>6. \A k : EmailOnItsWay(k) => EmailOnItsWay(k)'
  BY <1>1, <1>3, <1>4, OnItsWay
<1>7. TablesInv'
  BY <1>1, <1>4, <1>6 DEF NoticesInv, TablesInv, Delivered, Excused
<1> QED BY <1>1, <1>4, <1>5, <1>7 DEF NoticesInv, JobsInv, RecipientsInv

-----------------------------------------------------------------------------
\* The steps of the other services, and the synchronisations.

LEMMA EnqueueNotices ==
  ASSUME NoticesInv, NEW K \in SUBSET JobType, Enqueue(K) \/ EnqueueIfDurable(K),
         \A k \in K : k.type # "email",
         UNCHANGED <<recipient, notification, delivery, attempt, ignored, stranded>>
  PROVE  NoticesInv'
<1>1. /\ Recorded \subseteq Recorded' /\ Recorded' \subseteq Recorded \cup K
      /\ completed' = completed
  BY Enqueued DEF EnqueueIfDurable, outboxVars, Recorded
<1> QED BY <1>1, NoticesFrame DEF NoticesInv, JobsInv, RecipientsInv

LEMMA RanNotices ==
  ASSUME NoticesInv, NEW job \in queued, job.type \notin {"account", "permission"}, Ran(job),
         RecipientsInv', UNCHANGED <<notification, delivery, attempt, ignored, stranded>>
  PROVE  NoticesInv'
<1>1. Recorded' = Recorded /\ completed' \subseteq completed \cup {job}
  BY Finished DEF Recorded
<1> QED BY <1>1, NoticesFrame DEF NoticesInv, JobsInv

LEMMA StutterNotices ==
  ASSUME NoticesInv, UNCHANGED <<queued, completed, recipient, notification, delivery, attempt,
                                 ignored, stranded>>
  PROVE  NoticesInv'
BY NoticesFrame DEF NoticesInv, JobsInv, RecipientsInv, Recorded

\* The jobs a step of the grants enqueues.
GrantEffect(u) ==
  \E action \in {"grant", "revoke"}, changed \in SUBSET Permission, r \in Request, b \in BOOLEAN :
    EnqueueIfDurable(GrantJobs(u, action, changed, r, b))

LEMMA GrantEffects ==
  ASSUME GrantStep
  PROVE  /\ UNCHANGED <<recipient, attempt, noticeVars>>
         /\ (\E u \in User : GrantEffect(u)) \/ UNCHANGED <<queued, completed>>
<1>1. ASSUME NEW u \in User, NEW r \in Request, NEW view, NEW P \in SUBSET Permission,
             Grant(u, P, r, view)
      PROVE  GrantEffect(u) /\ UNCHANGED <<recipient, attempt, noticeVars>>
  <2> DEFINE changed == Missing(u, P) \ view
             b == CanReadJobs(view \cup P)
  <2>1. changed \in SUBSET Permission /\ b \in BOOLEAN
    BY DEF Missing, CanReadJobs
  <2>2. EnqueueIfDurable({PermissionChanged(u, "grant", p, r) : p \in changed}
                           \cup {Capability(u, b)})
    BY <1>1, Zenon DEF Grant, GrantPermissions, SetGrants
  <2> HIDE DEF b, changed
  <2> QED BY <1>1, <2>1, <2>2 DEF GrantEffect, GrantJobs, Grant, Granting
<1>2. ASSUME NEW u \in User, NEW r \in Request, NEW view, NEW p \in Permission, NEW actor,
             Revoke(actor, u, p, r, view)
      PROVE  GrantEffect(u) /\ UNCHANGED <<recipient, attempt, noticeVars>>
  <2> DEFINE changed == {p}
             b == CanReadJobs(view \ {p})
  <2>1. changed \in SUBSET Permission /\ b \in BOOLEAN
    BY DEF CanReadJobs
  <2>2. EnqueueIfDurable({PermissionChanged(u, "revoke", q, r) : q \in changed}
                           \cup {Capability(u, b)})
    BY <1>2, Zenon DEF Revoke, RevokePermission, SetGrants
  <2> HIDE DEF b, changed
  <2> QED BY <1>2, <2>1, <2>2 DEF GrantEffect, GrantJobs, Revoke, Granting
<1>3. ASSUME NEW p \in Permission, Delete(p)
      PROVE  UNCHANGED <<queued, completed, recipient, attempt, noticeVars>>
  BY <1>3 DEF Delete, DeletePermission, Granting, outboxVars
<1> QED BY <1>1, <1>2, <1>3 DEF GrantStep

LEMMA NoticesStep == AccountsInv /\ NoticesInv /\ [Next]_vars => NoticesInv'
<1> SUFFICES ASSUME AccountsInv, NoticesInv, [Next]_vars PROVE NoticesInv'
  OBVIOUS
<1>1. CASE AccountStep /\ UNCHANGED <<notificationVars, restOfGrants>>
  <2> USE <1>1 DEF notificationVars
  <2>1. ASSUME NEW c, Opens(c) PROVE NoticesInv'
    BY <2>1, StutterNotices DEF Opens, Change, ChangeUnlocked
  <2>2. ASSUME NEW c \in transactions, CommitChange(c) PROVE NoticesInv'
    <3>1. c \in ChangeType /\ EnqueueIfDurable(JobsOf(c.user, c.action, c.at, c.after))
      BY <2>2 DEF AccountsInv, CommitChange
    <3>2. /\ JobsOf(c.user, c.action, c.at, c.after) \in SUBSET JobType
          /\ \A k \in JobsOf(c.user, c.action, c.at, c.after) : k.type # "email"
      BY <3>1, AccountJobs
    <3> QED BY <3>1, <3>2, EnqueueNotices
  <2>3. ASSUME NEW c \in transactions, RollbackChange(c) PROVE NoticesInv'
    BY <2>3, StutterNotices DEF RollbackChange
  <2> QED BY <2>1, <2>2, <2>3, AccountStepOpens
<1>2. CASE GrantStep
  <2>1. ASSUME NEW u \in User, GrantEffect(u) PROVE NoticesInv'
    <3>1. PICK action \in {"grant", "revoke"}, changed \in SUBSET Permission, r \in Request,
               b \in BOOLEAN : EnqueueIfDurable(GrantJobs(u, action, changed, r, b))
      BY <2>1 DEF GrantEffect
    <3>2. /\ GrantJobs(u, action, changed, r, b) \in SUBSET JobType
          /\ \A k \in GrantJobs(u, action, changed, r, b) : k.type # "email"
      BY GrantJobsTyped
    <3> QED BY <1>2, <3>1, <3>2, GrantEffects, EnqueueNotices DEF noticeVars
  <2> QED BY <1>2, <2>1, GrantEffects, StutterNotices DEF noticeVars
<1>3. CASE NotificationStep
  <2>1. ASSUME NEW w \in Worker, NEW job \in queued, StartCreate(w, job) PROVE NoticesInv'
    BY <2>1, StartCreateNotices
  <2>2. ASSUME NEW w \in Worker, NEW job \in queued, StartEmail(w, job) PROVE NoticesInv'
    BY <2>2, StartEmailNotices
  <2>3. ASSUME NEW w \in Worker, NEW u \in User, ReadRecipient(w, u) PROVE NoticesInv'
    BY <2>3, ReadRecipientNotices
  <2>4. ASSUME NEW w \in Worker, NEW channel \in Channel, InsertDelivery(w, channel)
        PROVE  NoticesInv'
    BY <2>4, InsertDeliveryNotices
  <2>5. ASSUME NEW w \in Worker, InsertNotification(w) \/ EnqueueEmail(w) \/ EndCreate(w)
        PROVE  NoticesInv'
    BY <2>5, InsertNotificationNotices, EnqueueEmailNotices, EndCreateNotices
  <2>6. ASSUME NEW w \in Worker, Sent(w) \/ NotSent(w) \/ Abandon(w) PROVE NoticesInv'
    BY <2>6, SendingNotices, AbandonNotices
  <2>7. ASSUME NEW job \in queued, SyncRecipient(job) PROVE NoticesInv'
    <3>1. job.type = "recipient" /\ job \in RecipientJob
      BY <2>7, JobKinds DEF SyncRecipient, NoticesInv, JobsInv, Recorded
    <3>2. [active |-> job.active, can_read_jobs |-> FALSE, at |-> job.at] \in RecipientType
      BY <3>1, AccountsAssumption DEF RecipientJob, RecipientType
    <3>3. RecipientsInv'
      BY <2>7, <3>2 DEF SyncRecipient, NoticesInv, RecipientsInv
    <3> QED BY <2>7, <3>1, <3>3, RanNotices DEF SyncRecipient, noticeVars
  <2>8. ASSUME NEW u, NEW category, NEW channel, NEW enabled,
               UpdatePreference(u, category, channel, enabled)
        PROVE  NoticesInv'
    BY <2>8, StutterNotices DEF UpdatePreference, noticeVars
  <2> QED BY <1>3, <2>1, <2>2, <2>3, <2>4, <2>5, <2>6, <2>7, <2>8 DEF NotificationStep
<1>4. ASSUME NEW job \in queued, RunCapability(job) PROVE NoticesInv'
  <2>1. /\ job.type = "capability" /\ SyncCapability(job)
        /\ job \in CapabilityJob
    BY <1>4, JobKinds DEF RunCapability, NoticesInv, JobsInv, Recorded
  <2>2. /\ recipient' = IF recipient[job.user] = NULL THEN recipient
                        ELSE [recipient EXCEPT ![job.user].can_read_jobs = job.canReadJobs]
        /\ Ran(job) /\ UNCHANGED <<disabled, attempt, noticeVars>>
    BY <2>1 DEF SyncCapability
  <2>3. RecipientsInv'
    <3>1. ASSUME recipient[job.user] # NULL
          PROVE  [recipient[job.user] EXCEPT !.can_read_jobs = job.canReadJobs] \in RecipientType
      BY <2>1, <3>1 DEF CapabilityJob, NoticesInv, RecipientsInv, RecipientType
    <3> QED BY <2>2, <3>1 DEF NoticesInv, RecipientsInv
  <2> QED BY <2>1, <2>2, <2>3, RanNotices DEF noticeVars
<1>5. ASSUME NEW u \in User, RunInvitation(u) PROVE NoticesInv'
  <2>1. /\ Invitation(u) \in queued /\ (Ran(Invitation(u)) \/ Enqueue({JobFailure(u)}))
        /\ UNCHANGED <<recipient, notification, delivery, attempt, ignored, stranded>>
    BY <1>5 DEF RunInvitation, notificationVars
  <2>2. Invitation(u).type \notin {"account", "permission"}
    BY DEF Invitation
  <2>3. {JobFailure(u)} \in SUBSET JobType /\ \A k \in {JobFailure(u)} : k.type # "email"
    BY DEF JobFailure, JobType, NoticeJob, FailureJob
  <2>4. RecipientsInv'
    BY <2>1 DEF NoticesInv, RecipientsInv
  <2>5. CASE Ran(Invitation(u))
    BY <2>1, <2>2, <2>4, <2>5, RanNotices
  <2>6. CASE Enqueue({JobFailure(u)})
    BY <2>1, <2>3, <2>6, EnqueueNotices
  <2> QED BY <2>1, <2>5, <2>6
<1>6. CASE UNCHANGED vars
  BY <1>6, StutterNotices DEF vars
<1> QED BY <1>1, <1>2, <1>3, <1>4, <1>5, <1>6 DEF Next

LEMMA NoticesStart == Init => NoticesInv
<1> SUFFICES ASSUME Init PROVE NoticesInv
  OBVIOUS
<1>1. /\ queued = {} /\ completed = {} /\ notification = {} /\ delivery = <<>>
      /\ ignored = {} /\ stranded = {}
      /\ attempt = [w \in Worker |-> Idle]
  BY DEF Init, OutboxInit, NotificationsInit
<1>2. RecipientsInv
  <2>1. users \in [User -> RowType \cup {NULL}]
    BY NoticesAssumption DEF Init, AccountsInit
  <2>2. ASSUME NEW u \in User, users[u] # NULL
        PROVE  [active |-> ~users[u].deleted, can_read_jobs |-> FALSE, at |-> 0] \in RecipientType
    BY <2>1, <2>2 DEF RowType, RecipientType
  <2> QED BY <2>2 DEF Init, RecipientsInv
<1>3. AttemptsInv
  <2>1. Idle \in AttemptType /\ AttemptSound(Idle)
    BY DEF Idle, AttemptType, AttemptSound, Creating, Making
  <2> QED BY <1>1, <2>1 DEF AttemptsInv
<1>4. DOMAIN delivery = {} /\ delivery \in [DOMAIN delivery -> DeliveryStatus]
  BY <1>1
<1>5. JobsInv /\ TablesInv
  BY <1>1, <1>4 DEF JobsInv, TablesInv, Recorded
<1> QED BY <1>2, <1>3, <1>5 DEF NoticesInv

\* In every reachable state NoticesInv holds (NotificationService).
THEOREM NoticesHold == Spec => []NoticesInv
BY NoticesStart, NoticesStep, AccountsHold, PTL DEF Spec

\* The tables have their types: a delivery belongs to a notification, an email is
\* enqueued for a delivery (notification.service.ts, migration 0024).
THEOREM NoticeTypes == Spec => []NotificationsTypeOK
<1>1. NoticesInv => NotificationsTypeOK
  <2> SUFFICES ASSUME NoticesInv PROVE NotificationsTypeOK
    OBVIOUS
  <2>1. \A w \in Worker : attempt[w].step \in {"idle", "send"} \cup Creating
    BY DEF NoticesInv, AttemptsInv, AttemptType
  <2> QED BY <2>1 DEF NoticesInv, TablesInv, RecipientsInv, NotificationsTypeOK, Creating,
                      DeliveryStatus
<1> QED BY <1>1, NoticesHold, PTL

\* The types of both services together (UsersService, NotificationService).
THEOREM TablesTyped == Spec => []NoticesTypeOK
BY AccountTypes, NoticeTypes, PTL DEF NoticesTypeOK

\* However often its attempts are cut short, a completed job has made its
\* notification and both deliveries (NotificationService.create).
THEOREM CompletedIsComplete == Spec => []CompletedNoticeIsComplete
<1>1. NoticesInv => CompletedNoticeIsComplete
  <2> SUFFICES ASSUME NoticesInv, NEW job \in completed,
                      job.type \in {"account", "permission"}, ~Excused(job)
               PROVE  LET key == NoticeOf(job, job.user) IN
                      /\ key \in notification
                      /\ \A channel \in Channel :
                           /\ <<key, channel>> \in DOMAIN delivery
                           /\ job.type = "account" => delivery[<<key, channel>>] # "skipped"
                      /\ delivery[<<key, "email">>] = "queued" => EmailOnItsWay(key)
    BY DEF CompletedNoticeIsComplete, EmailOnItsWay
  <2>1. PICK key : key = NoticeOf(job, job.user)
    OBVIOUS
  <2>2. Delivered(key)
    BY <2>1 DEF NoticesInv, TablesInv
  <2>3. job.type = "account" => key.category = "account"
    BY <2>1 DEF NoticeOf
  <2>4. ASSUME NEW channel \in Channel, job.type = "account"
        PROVE  delivery[<<key, channel>>] # "skipped"
    BY <2>2, <2>3, <2>4 DEF Delivered, NoticesInv, TablesInv
  <2>5. delivery[<<key, "email">>] = "queued" => EmailOnItsWay(key)
    BY <2>2 DEF Delivered, NoticesInv, TablesInv, Channel
  <2> QED BY <2>1, <2>2, <2>4, <2>5 DEF Delivered
<1> QED BY <1>1, NoticesHold, PTL

-----------------------------------------------------------------------------
\* A step leaves the jobs of the other types alone.
SameJobs(type) ==
  \A k : k.type = type => (k \in queued' <=> k \in queued) /\ (k \in completed' <=> k \in completed)

LEMMA SameJobsIf ==
  ASSUME NEW type
  PROVE  /\ UNCHANGED <<queued, completed>> => SameJobs(type)
         /\ \A k : Ran(k) /\ k.type # type => SameJobs(type)
         /\ \A K : (Enqueue(K) \/ EnqueueIfDurable(K)) /\ (\A k \in K : k.type # type)
                  => SameJobs(type)
<1>1. UNCHANGED <<queued, completed>> => SameJobs(type)
  BY DEF SameJobs
<1>2. ASSUME NEW k, Ran(k), k.type # type PROVE SameJobs(type)
  BY <1>2 DEF Ran, Complete, Repeat, outboxVars, SameJobs
<1>3. ASSUME NEW K, Enqueue(K) \/ EnqueueIfDurable(K), \A k \in K : k.type # type
      PROVE  SameJobs(type)
  BY <1>3 DEF Enqueue, EnqueueIfDurable, outboxVars, SameJobs
<1> QED BY <1>1, <1>2, <1>3

LEMMA AccountStepJobs ==
  ASSUME AccountsInv, AccountStep
  PROVE  /\ SameJobs("capability")
         /\ \/ \E c : Opens(c) /\ UNCHANGED <<queued, completed>>
            \/ \E c \in transactions : RollbackChange(c) /\ UNCHANGED <<queued, completed>>
            \/ \E c \in transactions : CommitChange(c)
<1>1. ASSUME NEW c, Opens(c) PROVE UNCHANGED <<queued, completed>>
  BY <1>1 DEF Opens, Change, ChangeUnlocked
<1>2. ASSUME NEW c, RollbackChange(c) PROVE UNCHANGED <<queued, completed>>
  BY <1>2 DEF RollbackChange
<1>3. ASSUME NEW c \in transactions, CommitChange(c) PROVE SameJobs("capability")
  <2>1. c \in ChangeType /\ EnqueueIfDurable(JobsOf(c.user, c.action, c.at, c.after))
    BY <1>3 DEF AccountsInv, CommitChange
  <2>2. \A k \in JobsOf(c.user, c.action, c.at, c.after) : k.type # "capability"
    BY <2>1, AccountJobs
  <2> QED BY <2>1, <2>2, SameJobsIf
<1> QED BY <1>1, <1>2, <1>3, AccountStepOpens, SameJobsIf

LEMMA GrantStepJobs == GrantStep => SameJobs("recipient")
<1> SUFFICES ASSUME GrantStep PROVE SameJobs("recipient")
  OBVIOUS
<1>1. ASSUME NEW u \in User, GrantEffect(u) PROVE SameJobs("recipient")
  <2>1. PICK action \in {"grant", "revoke"}, changed \in SUBSET Permission, r \in Request,
             b \in BOOLEAN : EnqueueIfDurable(GrantJobs(u, action, changed, r, b))
    BY <1>1 DEF GrantEffect
  <2>2. \A k \in GrantJobs(u, action, changed, r, b) : k.type # "recipient"
    BY GrantJobsTyped
  <2> QED BY <2>1, <2>2, SameJobsIf
<1> QED BY <1>1, GrantEffects, SameJobsIf

LEMMA SyncRecipientJobs ==
  ASSUME NEW job, SyncRecipient(job)
  PROVE  SameJobs("capability")
BY SameJobsIf DEF SyncRecipient

LEMMA RunCapabilityJobs ==
  ASSUME NEW job, RunCapability(job)
  PROVE  SameJobs("recipient")
BY SameJobsIf DEF RunCapability, SyncCapability

LEMMA InvitationJobs ==
  ASSUME NEW u, RunInvitation(u)
  PROVE  SameJobs("recipient") /\ SameJobs("capability")
<1>1. Invitation(u).type = "invitation" /\ JobFailure(u).type = "failure"
  BY DEF Invitation, JobFailure
<1> QED BY <1>1, SameJobsIf DEF RunInvitation

\* The other steps of the notification service.
LEMMA WorkerJobs ==
  ASSUME NoticesInv, NotificationStep, ~\E job \in queued : SyncRecipient(job)
  PROVE  SameJobs("recipient") /\ SameJobs("capability") /\ UNCHANGED <<recipient, overtaken>>
<1> DEFINE Same == SameJobs("recipient") /\ SameJobs("capability")
<1>1. ASSUME NEW w \in Worker, EnqueueEmail(w) PROVE Same
  <2>1. PICK k : k = Email(attempt[w].notice)
    OBVIOUS
  <2>2. Enqueue({k}) /\ k.type = "email"
    BY <1>1, <2>1 DEF EnqueueEmail, Email
  <2> QED BY <2>2, SameJobsIf
<1>2. ASSUME NEW w \in Worker, EndCreate(w) \/ Sent(w) PROVE Same
  <2>1. PICK k : k = attempt[w].job
    OBVIOUS
  <2>2. AttemptSound(attempt[w]) /\ attempt[w].step \in {"next", "send"} /\ Ran(k)
    BY <1>2, <2>1 DEF NoticesInv, AttemptsInv, EndCreate, Sent, Running
  <2>3. k.type \notin {"recipient", "capability"}
    BY <2>1, <2>2 DEF AttemptSound, Creating
  <2> QED BY <2>2, <2>3, SameJobsIf
<1>3. ASSUME NEW w \in Worker, NEW job \in queued, StartCreate(w, job) \/ StartEmail(w, job)
      PROVE  Same
  BY <1>3, SameJobsIf DEF StartCreate, StartEmail, outboxVars
<1>4. ASSUME NEW w \in Worker, \/ \E u \in User : ReadRecipient(w, u)
                               \/ \E channel \in Channel : InsertDelivery(w, channel)
                               \/ InsertNotification(w) \/ NotSent(w) \/ Abandon(w)
      PROVE  Same
  BY <1>4, SameJobsIf DEF ReadRecipient, InsertDelivery, InsertNotification, NotSent, Abandon
<1>5. ASSUME NEW u, NEW category, NEW channel, NEW enabled,
             UpdatePreference(u, category, channel, enabled)
      PROVE  Same
  BY <1>5, SameJobsIf DEF UpdatePreference
<1>6. UNCHANGED <<recipient, overtaken>>
  BY DEF NotificationStep, StartCreate, StartEmail, ReadRecipient, InsertDelivery,
         InsertNotification, EnqueueEmail, EndCreate, Sent, NotSent, Abandon, UpdatePreference
<1> QED BY <1>1, <1>2, <1>3, <1>4, <1>5, <1>6 DEF NotificationStep

-----------------------------------------------------------------------------
\* Who is told of the failure of a job.

LEMMA GrantedFrame ==
  ASSUME GrantedInv, UNCHANGED <<permission_user, overlapped, granted>>,
         \A k \in Recorded' : k \in Recorded \/ k.type # "capability",
         \A u \in User : recipient'[u] # NULL /\ recipient'[u].can_read_jobs =>
           \/ recipient[u] # NULL /\ recipient[u].can_read_jobs
           \/ Capability(u, TRUE) \in Recorded
  PROVE  GrantedInv'
<1>1. ASSUME NEW u \in User, WasGranted(u)' PROVE u \in granted
  <2>1. Capability(u, TRUE).type = "capability"
    BY DEF Capability
  <2>2. Capability(u, TRUE)' = Capability(u, TRUE)
    BY DEF Capability
  <2> QED BY <1>1, <2>1, <2>2 DEF WasGranted, GrantedInv, CanReadJobs
<1> QED BY <1>1 DEF GrantedInv

\* A change of the grants: the capability it enqueues was read from grants
\* that were, or are.
LEMMA GrantGranted ==
  ASSUME GrantedInv, NEW u \in User, NEW P, NEW action, NEW changed, NEW r, NEW seen,
         CanReadJobs(seen) => CanReadJobs(P) \/ CanReadJobs(permission_user[u])
                                             \/ CanReadJobs(overlapped[u]),
         SetGrants(u, P, action, changed, r, seen),
         overlapped' = permission_user, recipient' = recipient,
         granted' = granted \cup {v \in User : CanReadJobs(permission_user'[v])}
  PROVE  GrantedInv'
<1> DEFINE b == CanReadJobs(seen)
<1>1. /\ permission_user' = [permission_user EXCEPT ![u] = P]
      /\ EnqueueIfDurable({PermissionChanged(u, action, p, r) : p \in changed}
                            \cup {Capability(u, b)})
  BY Zenon DEF SetGrants
<1>2. permission_user'[u] = P
  BY <1>1 DEF GrantedInv
<1>3. b => u \in granted'
  <2>1. CASE CanReadJobs(P)
    BY <1>2, <2>1
  <2>2. CASE CanReadJobs(permission_user[u]) \/ CanReadJobs(overlapped[u])
    BY <2>2 DEF GrantedInv, WasGranted
  <2> QED BY <2>1, <2>2
<1> HIDE DEF b
<1>4. \A k \in Recorded' : k \in Recorded \/ k.type = "permission" \/ k = Capability(u, b)
  <2>1. \A p \in changed : PermissionChanged(u, action, p, r).type = "permission"
    BY DEF PermissionChanged
  <2> QED BY <1>1, <2>1, Enqueued DEF EnqueueIfDurable, outboxVars, Recorded
<1>5. ASSUME NEW v \in User, Capability(v, TRUE) \in Recorded' PROVE v \in granted'
  <2>1. Capability(v, TRUE).type = "capability"
    BY DEF Capability
  <2>2. Capability(v, TRUE) = Capability(u, b) => v = u /\ b
    BY DEF Capability
  <2>3. Capability(v, TRUE) \in Recorded => v \in granted
    BY DEF GrantedInv, WasGranted
  <2> QED BY <1>3, <1>4, <1>5, <2>1, <2>2, <2>3
<1>6. ASSUME NEW v \in User, WasGranted(v)' PROVE v \in granted'
  <2>1. CASE CanReadJobs(permission_user'[v])
    BY <2>1
  <2>2. CASE CanReadJobs(permission_user[v])
    BY <2>2 DEF GrantedInv, WasGranted
  <2>3. CASE recipient[v] # NULL /\ recipient[v].can_read_jobs
    BY <2>3 DEF GrantedInv, WasGranted
  <2>4. Capability(v, TRUE)' = Capability(v, TRUE)
    BY DEF Capability
  <2> QED BY <1>5, <1>6, <2>1, <2>2, <2>3, <2>4 DEF WasGranted, CanReadJobs
<1>7. permission_user' = [v \in User |-> permission_user'[v]]
  BY <1>1 DEF GrantedInv
<1> QED BY <1>6, <1>7 DEF GrantedInv

LEMMA GrantStepGranted ==
  ASSUME GrantedInv, GrantStep
  PROVE  GrantedInv' /\ granted \subseteq granted'
<1>1. ASSUME NEW u \in User, NEW r \in Request, NEW view \in {permission_user[u], overlapped[u]},
             NEW P \in SUBSET Permission, Grant(u, P, r, view)
      PROVE  GrantedInv'
  <2> DEFINE changed == Missing(u, P) \ view
             Q == permission_user[u] \cup changed
  <2>1. SetGrants(u, Q, "grant", changed, r, view \cup P)
    BY <1>1, Zenon DEF Grant, GrantPermissions
  <2>2. view \cup P \subseteq Q \cup permission_user[u] \cup overlapped[u]
    BY DEF Missing
  <2>3. CanReadJobs(view \cup P) => CanReadJobs(Q) \/ CanReadJobs(permission_user[u])
                                                  \/ CanReadJobs(overlapped[u])
    BY <2>2 DEF CanReadJobs
  <2>4. /\ overlapped' = permission_user /\ recipient' = recipient
        /\ granted' = granted \cup {v \in User : CanReadJobs(permission_user'[v])}
    BY <1>1 DEF Grant, Granting
  <2> HIDE DEF Q, changed
  <2> QED BY <2>1, <2>3, <2>4, GrantGranted
<1>2. ASSUME NEW u \in User, NEW r \in Request, NEW view \in {permission_user[u], overlapped[u]},
             NEW p \in Permission, NEW actor, Revoke(actor, u, p, r, view)
      PROVE  GrantedInv'
  <2> DEFINE changed == {p}
             Q == permission_user[u] \ {p}
  <2>1. SetGrants(u, Q, "revoke", changed, r, view \ {p})
    BY <1>2, Zenon DEF Revoke, RevokePermission
  <2>2. CanReadJobs(view \ {p}) => CanReadJobs(Q) \/ CanReadJobs(permission_user[u])
                                                 \/ CanReadJobs(overlapped[u])
    BY DEF CanReadJobs
  <2>3. /\ overlapped' = permission_user /\ recipient' = recipient
        /\ granted' = granted \cup {v \in User : CanReadJobs(permission_user'[v])}
    BY <1>2 DEF Revoke, Granting
  <2> HIDE DEF Q, changed
  <2> QED BY <2>1, <2>2, <2>3, GrantGranted
<1>3. ASSUME NEW p \in Permission, Delete(p) PROVE GrantedInv'
  <2>1. /\ permission_user' = [u \in User |-> permission_user[u] \ {p}]
        /\ overlapped' = permission_user /\ granted \subseteq granted'
        /\ UNCHANGED <<queued, completed, recipient>>
    BY <1>3 DEF Delete, DeletePermission, Granting, outboxVars
  <2>2. ASSUME NEW u \in User, WasGranted(u)' PROVE u \in granted'
    <3>1. CanReadJobs(permission_user'[u]) => CanReadJobs(permission_user[u])
      BY <2>1 DEF CanReadJobs
    <3>2. Capability(u, TRUE)' = Capability(u, TRUE)
      BY DEF Capability
    <3> QED BY <2>1, <2>2, <3>1, <3>2 DEF WasGranted, GrantedInv, CanReadJobs, Recorded
  <2> QED BY <2>1, <2>2 DEF GrantedInv
<1>4. granted \subseteq granted'
  BY GrantSteps DEF Granting
<1> QED BY <1>1, <1>2, <1>3, <1>4 DEF GrantStep

\* Only a change of the grants enqueues the synchronisation of a capability.
LEMMA OthersGrantNothing ==
  ASSUME AccountsInv, NoticesInv, [Next]_vars, ~GrantStep
  PROVE  /\ UNCHANGED <<permission_user, overlapped, granted>>
         /\ \A k \in Recorded' : k \in Recorded \/ k.type # "capability"
<1>1. CASE AccountStep /\ UNCHANGED restOfGrants
  BY <1>1, AccountStepJobs DEF restOfGrants, SameJobs, Recorded
<1>2. CASE NotificationStep /\ UNCHANGED restOfGrants
  BY <1>2, WorkerJobs, SyncRecipientJobs DEF restOfGrants, SameJobs, Recorded
<1>3. ASSUME NEW job \in queued, RunCapability(job)
      PROVE  Recorded' = Recorded /\ UNCHANGED restOfGrants
  BY <1>3, Finished DEF RunCapability, SyncCapability, Recorded
<1>4. ASSUME NEW u \in User, RunInvitation(u)
      PROVE  SameJobs("capability") /\ UNCHANGED restOfGrants
  BY <1>4, InvitationJobs DEF RunInvitation
<1>5. CASE UNCHANGED vars
  BY <1>5 DEF vars, Recorded
<1> QED BY <1>1, <1>2, <1>3, <1>4, <1>5 DEF Next, restOfGrants, SameJobs, Recorded

\* What the notification service comes to believe about operators.
LEMMA RecipientsGranted ==
  ASSUME NoticesInv, [Next]_vars, ~GrantStep
  PROVE  \A u \in User : recipient'[u] # NULL /\ recipient'[u].can_read_jobs =>
           \/ recipient[u] # NULL /\ recipient[u].can_read_jobs
           \/ Capability(u, TRUE) \in Recorded
<1>1. ASSUME NEW job \in queued, SyncRecipient(job), NEW u \in User,
             recipient'[u] # NULL, recipient'[u].can_read_jobs
      PROVE  recipient[u] # NULL /\ recipient[u].can_read_jobs
  <2>1. recipient' = [recipient EXCEPT ![job.user] =
                        [active |-> job.active, can_read_jobs |-> FALSE, at |-> job.at]]
    BY <1>1 DEF SyncRecipient
  <2> QED BY <1>1, <2>1 DEF NoticesInv, RecipientsInv
<1>2. ASSUME NEW job \in queued, RunCapability(job), NEW u \in User,
             recipient'[u] # NULL, recipient'[u].can_read_jobs
      PROVE  \/ recipient[u] # NULL /\ recipient[u].can_read_jobs
             \/ Capability(u, TRUE) \in Recorded
  <2>1. /\ recipient' = IF recipient[job.user] = NULL THEN recipient
                        ELSE [recipient EXCEPT ![job.user].can_read_jobs = job.canReadJobs]
        /\ job \in CapabilityJob /\ job \in Recorded
    BY <1>2, JobKinds DEF RunCapability, SyncCapability, NoticesInv, JobsInv, Recorded
  <2>2. CASE u # job.user \/ recipient[u] = NULL
    BY <1>2, <2>1, <2>2 DEF NoticesInv, RecipientsInv
  <2>3. CASE u = job.user /\ recipient[u] # NULL
    <3>1. recipient'[u] = [recipient[u] EXCEPT !.can_read_jobs = job.canReadJobs]
      BY <2>1, <2>3 DEF NoticesInv, RecipientsInv
    <3>2. recipient[u] \in RecipientType
      BY <2>3 DEF NoticesInv, RecipientsInv
    <3>3. job.canReadJobs = TRUE
      BY <1>2, <2>1, <3>1, <3>2 DEF RecipientType, CapabilityJob
    <3>4. job = Capability(u, TRUE)
      BY <2>1, <2>3, <3>3 DEF CapabilityJob, Capability
    <3> QED BY <2>1, <3>4
  <2> QED BY <2>2, <2>3
<1>3. ~(\E job \in queued : SyncRecipient(job) \/ RunCapability(job)) => UNCHANGED recipient
  <2> SUFFICES ASSUME ~(\E job \in queued : SyncRecipient(job) \/ RunCapability(job))
               PROVE  UNCHANGED recipient
    OBVIOUS
  <2>1. CASE NotificationStep
    BY <2>1 DEF NotificationStep, StartCreate, StartEmail, ReadRecipient, InsertDelivery,
                InsertNotification, EnqueueEmail, EndCreate, Sent, NotSent, Abandon,
                UpdatePreference
  <2>2. CASE AccountStep /\ UNCHANGED notificationVars
    BY <2>2 DEF notificationVars
  <2>3. ASSUME NEW u \in User, RunInvitation(u) PROVE UNCHANGED recipient
    BY <2>3 DEF RunInvitation, notificationVars
  <2> QED BY <2>1, <2>2, <2>3 DEF Next, vars
<1> QED BY <1>1, <1>2, <1>3

LEMMA GrantedStep ==
  ASSUME AccountsInv, NoticesInv, GrantedInv, [Next]_vars
  PROVE  GrantedInv' /\ granted \subseteq granted'
<1>1. CASE GrantStep
  BY <1>1, GrantStepGranted
<1>2. CASE ~GrantStep
  BY <1>2, OthersGrantNothing, RecipientsGranted, GrantedFrame
<1> QED BY <1>1, <1>2

LEMMA OperatorsOf ==
  ASSUME OperatorsInv, NEW w \in Worker, NEW a, a = attempt'[w], AttemptGranted(a)',
         \A v \in Worker \ {w} : attempt'[v] = attempt[v], granted \subseteq granted',
         \A key \in notification' :
           key \in notification \/ (key.category = "operational" => key.user \in granted)
  PROVE  OperatorsInv'
<1>1. ASSUME NEW b, AttemptGranted(b) PROVE AttemptGranted(b)'
  BY <1>1 DEF AttemptGranted
<1>2. ASSUME NEW v \in Worker, NEW b, b = attempt'[v] PROVE AttemptGranted(b)'
  BY <1>1, <1>2 DEF OperatorsInv
<1>3. FailuresToOperators'
  BY DEF OperatorsInv, FailuresToOperators
<1> QED BY <1>2, <1>3 DEF OperatorsInv

LEMMA OperatorsFrame ==
  ASSUME OperatorsInv, UNCHANGED <<attempt, notification>>, granted \subseteq granted'
  PROVE  OperatorsInv'
BY DEF OperatorsInv, AttemptGranted, FailuresToOperators

LEMMA WorkersOperators ==
  ASSUME NoticesInv, GrantedInv, OperatorsInv, NEW w \in Worker, UNCHANGED granted,
         \/ \E job \in queued : StartCreate(w, job) \/ StartEmail(w, job)
         \/ \E u \in User : ReadRecipient(w, u)
         \/ \E channel \in Channel : InsertDelivery(w, channel)
         \/ InsertNotification(w) \/ EnqueueEmail(w) \/ EndCreate(w)
         \/ Sent(w) \/ NotSent(w) \/ Abandon(w)
  PROVE  OperatorsInv'
<1>1. attempt \in [Worker -> AttemptType] /\ attempt[w] \in AttemptType
  BY DEF NoticesInv, AttemptsInv
<1>2. AttemptGranted(attempt[w])
  BY DEF OperatorsInv
<1>3. ASSUME NEW job \in queued, StartCreate(w, job) PROVE OperatorsInv'
  <2> DEFINE n == [Idle EXCEPT !.step = "next", !.job = job, !.todo = Audience(job)]
  <2>1. /\ attempt' = [attempt EXCEPT ![w] = n] /\ notification' = notification
        /\ n.step = "next" /\ n.job = job /\ n.todo = Audience(job)
    BY <1>3 DEF StartCreate, noticeVars, Idle
  <2> HIDE DEF n
  <2>2. job.type = "failure" => Audience(job) \subseteq granted
    BY DEF Audience, GrantedInv, WasGranted
  <2>3. ASSUME NEW a, a = n PROVE AttemptGranted(a)'
    BY <2>1, <2>2, <2>3 DEF AttemptGranted, Making
  <2>4. attempt'[w] = n /\ \A v \in Worker \ {w} : attempt'[v] = attempt[v]
    BY <1>1, <2>1
  <2> QED BY <2>1, <2>3, <2>4, OperatorsOf
<1>4. ASSUME NEW job \in queued, StartEmail(w, job) PROVE OperatorsInv'
  <2>1. CASE UNCHANGED attempt
    BY <1>4, <2>1, OperatorsFrame DEF StartEmail
  <2>2. CASE attempt' = [attempt EXCEPT ![w] = [Idle EXCEPT !.step = "send", !.job = job,
                                                            !.notice = job.notice]]
    <3>1. attempt'[w].step = "send" /\ \A v \in Worker \ {w} : attempt'[v] = attempt[v]
      BY <1>1, <2>2 DEF Idle
    <3>2. ASSUME NEW a, a = attempt'[w] PROVE AttemptGranted(a)'
      BY <3>1, <3>2 DEF AttemptGranted, Creating, Making
    <3>3. notification' = notification
      BY <1>4 DEF StartEmail
    <3> QED BY <3>1, <3>2, <3>3, OperatorsOf
  <2> QED BY <1>4, <2>1, <2>2 DEF StartEmail
<1>5. ASSUME NEW u \in User, ReadRecipient(w, u) PROVE OperatorsInv'
  <2>1. PICK old : old = attempt[w]
    OBVIOUS
  <2> DEFINE wanted == recipient[u] # NULL /\ (recipient[u].active \/ old.job.type = "account")
             n == [old EXCEPT !.todo = old.todo \ {u},
                              !.notice = IF wanted THEN NoticeOf(old.job, u) ELSE old.notice,
                              !.step = IF wanted THEN "insert" ELSE "next"]
  <2>2. /\ attempt' = [attempt EXCEPT ![w] = n] /\ notification' = notification
        /\ old.step = "next" /\ u \in old.todo
    BY <1>5, <2>1 DEF ReadRecipient, Running
  <2>3. /\ n.todo = old.todo \ {u} /\ n.job = old.job
        /\ n.notice = IF wanted THEN NoticeOf(old.job, u) ELSE old.notice
        /\ n.step = IF wanted THEN "insert" ELSE "next"
    BY <1>1, <2>1 DEF AttemptType
  <2> HIDE DEF n, wanted
  <2>4. old.job.type = "failure" => old.todo \subseteq granted
    BY <1>2, <2>1, <2>2 DEF AttemptGranted, Creating
  <2>5. /\ old.job \in JobType /\ old.job.type \in {"account", "permission", "failure"}
    BY <2>1, <2>2 DEF NoticesInv, AttemptsInv, AttemptSound, JobsInv, Creating
  <2>6. /\ NoticeOf(old.job, u).user = u
        /\ NoticeOf(old.job, u).category = "operational" => old.job.type = "failure"
    BY <2>5, NoticeOfJob
  <2>7. ASSUME NEW a, a = n PROVE AttemptGranted(a)'
    <3>1. a.step \in {"insert", "next"} /\ (a.step \in Making => wanted)
      BY <2>3, <2>7 DEF Making
    <3>2. a.job.type = "failure" => a.todo \subseteq granted
      BY <2>3, <2>4, <2>7
    <3>3. wanted /\ a.notice.category = "operational" => a.notice.user \in granted
      BY <2>2, <2>3, <2>4, <2>6, <2>7
    <3> QED BY <3>1, <3>2, <3>3 DEF AttemptGranted
  <2>8. attempt'[w] = n /\ \A v \in Worker \ {w} : attempt'[v] = attempt[v]
    BY <1>1, <2>2
  <2> QED BY <2>2, <2>7, <2>8, OperatorsOf
<1>6. ASSUME NEW step, Move(w, step), attempt[w].step \in Making, step \in Creating,
             step \in Making \/ step = "next",
             notification' \subseteq notification \cup {attempt[w].notice}
      PROVE  OperatorsInv'
  <2>1. PICK key : key = attempt[w].notice
    OBVIOUS
  <2>2. /\ attempt'[w].step = step /\ attempt'[w].job = attempt[w].job
        /\ attempt'[w].todo = attempt[w].todo /\ attempt'[w].notice = key
        /\ \A v \in Worker \ {w} : attempt'[v] = attempt[v]
    BY <1>1, <1>6, <2>1, Moved
  <2>3. key.category = "operational" => key.user \in granted
    BY <1>2, <1>6, <2>1 DEF AttemptGranted
  <2>4. attempt[w].job.type = "failure" => attempt[w].todo \subseteq granted
    BY <1>2, <1>6 DEF AttemptGranted, Making, Creating
  <2>5. ASSUME NEW a, a = attempt'[w] PROVE AttemptGranted(a)'
    BY <2>2, <2>3, <2>4, <2>5 DEF AttemptGranted
  <2> QED BY <1>6, <2>1, <2>2, <2>3, <2>5, OperatorsOf
<1>7. ASSUME End(w), UNCHANGED notification PROVE OperatorsInv'
  <2>1. /\ attempt'[w].step = "idle" /\ \A v \in Worker \ {w} : attempt'[v] = attempt[v]
    BY <1>1, <1>7, Ended
  <2>2. ASSUME NEW a, a = attempt'[w] PROVE AttemptGranted(a)'
    BY <2>1, <2>2 DEF AttemptGranted, Creating, Making
  <2> QED BY <1>7, <2>1, <2>2, OperatorsOf
<1>8. ASSUME NEW channel \in Channel, InsertDelivery(w, channel) PROVE OperatorsInv'
  <2>1. PICK step \in {"email", "enqueue", "next"} : Move(w, step)
    BY <1>8 DEF InsertDelivery
  <2>2. attempt[w].step \in Making /\ step \in Creating /\ (step \in Making \/ step = "next")
    BY <1>8 DEF InsertDelivery, Running, Making, Creating, Channel
  <2> QED BY <1>6, <1>8, <2>1, <2>2 DEF InsertDelivery
<1>9. ASSUME InsertNotification(w) \/ EnqueueEmail(w) PROVE OperatorsInv'
  <2>1. PICK step \in {"in_app", "next"} : Move(w, step)
    BY <1>9 DEF InsertNotification, EnqueueEmail
  <2>2. /\ attempt[w].step \in Making /\ step \in Creating /\ (step \in Making \/ step = "next")
        /\ notification' \subseteq notification \cup {attempt[w].notice}
    BY <1>9 DEF InsertNotification, EnqueueEmail, Running, Making, Creating, noticeVars
  <2> QED BY <1>6, <2>1, <2>2
<1>10. ASSUME EndCreate(w) \/ Sent(w) \/ NotSent(w) \/ Abandon(w) PROVE OperatorsInv'
  BY <1>7, <1>10 DEF EndCreate, Sent, NotSent, Abandon, noticeVars
<1> QED BY <1>3, <1>4, <1>5, <1>8, <1>9, <1>10

LEMMA OperatorsStep ==
  AccountsInv /\ NoticesInv /\ GrantedInv /\ OperatorsInv /\ [Next]_vars => OperatorsInv'
<1> SUFFICES ASSUME AccountsInv, NoticesInv, GrantedInv, OperatorsInv, [Next]_vars
             PROVE  OperatorsInv'
  OBVIOUS
<1>1. granted \subseteq granted'
  BY GrantedStep
<1>2. CASE UNCHANGED <<attempt, notification>>
  BY <1>1, <1>2, OperatorsFrame
<1>3. CASE NotificationStep /\ UNCHANGED restOfGrants
  BY <1>2, <1>3, WorkersOperators
    DEF NotificationStep, restOfGrants, SyncRecipient, UpdatePreference, noticeVars
<1>4. CASE GrantStep
  BY <1>2, <1>4, GrantEffects DEF noticeVars
<1> QED BY <1>2, <1>3, <1>4
     DEF Next, vars, notificationVars, noticeVars, RunCapability, SyncCapability, RunInvitation

\* Failures of jobs are told to users only who, at some time, were allowed to read
\* jobs (NotificationService.fanoutJobFailure).
THEOREM FailuresReachOperators == Spec => []FailuresToOperators
<1>1. Init => GrantedInv /\ OperatorsInv
  <2> SUFFICES ASSUME Init PROVE GrantedInv /\ OperatorsInv
    OBVIOUS
  <2>1. /\ permission_user = [u \in User |-> {}] /\ overlapped = permission_user
        /\ queued = {} /\ completed = {} /\ notification = {}
        /\ attempt = [w \in Worker |-> Idle]
    BY DEF Init, GrantsInit, OutboxInit, NotificationsInit
  <2>2. ASSUME NEW u \in User PROVE recipient[u] # NULL => ~recipient[u].can_read_jobs
    <3>1. recipient[u] = IF users[u] = NULL THEN NULL
                         ELSE [active |-> ~users[u].deleted, can_read_jobs |-> FALSE, at |-> 0]
      BY DEF Init
    <3> QED BY <3>1
  <2>3. GrantedInv
    BY <2>1, <2>2 DEF GrantedInv, WasGranted, CanReadJobs, Recorded
  <2>4. OperatorsInv
    BY <2>1 DEF OperatorsInv, AttemptGranted, FailuresToOperators, Idle, Creating, Making
  <2> QED BY <2>3, <2>4
<1>2. OperatorsInv => FailuresToOperators
  BY DEF OperatorsInv
<1>3. AccountsInv /\ NoticesInv /\ GrantedInv /\ [Next]_vars => GrantedInv'
  BY GrantedStep
<1> QED BY <1>1, <1>2, <1>3, OperatorsStep, AccountsHold, NoticesHold, PTL DEF Spec

-----------------------------------------------------------------------------
\* What is known of an account.

\* The user's row, recipient and jobs stay, but for jobs that are not the last.
LEMMA SyncedOn ==
  ASSUME NEW u \in User, ProfileSynced(u),
         u \in overtaken => u \in overtaken',
         users'[u] # NULL => users[u] # NULL /\ users'[u].deleted = users[u].deleted,
         \A k : k.type = "recipient" /\ k.user = u =>
           (k \in Recorded' => k \in Recorded) /\ (k \in queued => k \in queued'),
         recipient[u] # NULL =>
           /\ recipient'[u] # NULL /\ recipient'[u].active = recipient[u].active
           /\ recipient'[u].at = recipient[u].at
  PROVE  ProfileSynced(u)'
<1>1. \A at : NoLater(u, at) => NoLater(u, at)'
  BY DEF NoLater
<1> SUFFICES ASSUME u \notin overtaken', users'[u] # NULL PROVE ProfileSynced(u)'
  BY DEF ProfileSynced
<1>2. CASE \E k \in queued : /\ k.type = "recipient" /\ k.user = u
                             /\ k.active = ~users[u].deleted /\ NoLater(u, k.at)
  <2>1. PICK k \in queued : /\ k.type = "recipient" /\ k.user = u
                            /\ k.active = ~users[u].deleted /\ NoLater(u, k.at)
    BY <1>2
  <2>2. k \in queued' /\ NoLater(u, k.at)'
    BY <1>1, <2>1 DEF NoLater
  <2> QED BY <2>1, <2>2 DEF ProfileSynced
<1>3. CASE /\ recipient[u] # NULL /\ recipient[u].active = ~users[u].deleted
           /\ NoLater(u, recipient[u].at)
  <2>1. PICK at : at = recipient[u].at
    OBVIOUS
  <2>2. NoLater(u, at)' /\ recipient'[u].at = at
    BY <1>1, <1>3, <2>1
  <2> QED BY <1>3, <2>2 DEF ProfileSynced, NoLater
<1> QED BY <1>2, <1>3 DEF ProfileSynced

\* Steps that neither commit a change of an account nor synchronise one.
LEMMA ProfileFrame ==
  ASSUME ProfileInv, AccountsInv, NoticesInv, SameJobs("recipient"), UNCHANGED users,
         clock' \in Nat, clock <= clock',
         \A c \in transactions' : c \in transactions \/ c.at = clock + 1,
         \A u \in User : recipient'[u] = NULL <=> recipient[u] = NULL,
         \A u \in User : recipient[u] # NULL =>
           recipient'[u].active = recipient[u].active /\ recipient'[u].at = recipient[u].at,
         \A u \in User : u \in overtaken => u \in overtaken'
  PROVE  ProfileInv'
<1>1. \A k : k.type = "recipient" => /\ k \in Recorded' <=> k \in Recorded
                                     /\ k \in queued' <=> k \in queued
  BY DEF SameJobs, Recorded
<1>2. ASSUME NEW k \in Recorded', k.type = "recipient"
      PROVE  k.at <= clock' /\ \A c \in transactions' : c.user = k.user => k.at < c.at
  <2>1. k \in Recorded /\ k \in RecipientJob
    BY <1>1, <1>2, JobKinds DEF NoticesInv, JobsInv
  <2>2. k.at <= clock /\ \A c \in transactions : c.user = k.user => k.at < c.at
    BY <1>2, <2>1 DEF ProfileInv, ProfileJobsInv
  <2>3. k.at \in Int /\ clock \in Int
    BY <2>1, AccountsAssumption DEF RecipientJob, AccountsInv
  <2> QED BY <2>2, <2>3
<1>3. ASSUME NEW u \in User, recipient'[u] # NULL, recipient'[u].at # 0
      PROVE  [type |-> "recipient", user |-> u, at |-> recipient'[u].at,
              active |-> recipient'[u].active] \in Recorded'
  <2> DEFINE k == [type |-> "recipient", user |-> u, at |-> recipient[u].at,
                   active |-> recipient[u].active]
  <2>1. k \in Recorded
    BY <1>3 DEF ProfileInv, ProfileJobsInv
  <2>2. k.type = "recipient"
    OBVIOUS
  <2> HIDE DEF k
  <2>3. k \in Recorded'
    BY <1>1, <2>1, <2>2
  <2> QED BY <1>3, <2>3 DEF k
<1>4. ProfileJobsInv'
  BY <1>1, <1>2, <1>3 DEF ProfileInv, ProfileJobsInv
<1>5. ASSUME NEW u \in User, ProfileSynced(u) PROVE ProfileSynced(u)'
  BY <1>1, <1>5, SyncedOn
<1> QED BY <1>4, <1>5 DEF ProfileInv

\* A commit enqueues the synchronisation of what it leaves.
LEMMA CommitProfile ==
  ASSUME ProfileInv, AccountsInv, NoticesInv, NEW c \in transactions, CommitChange(c),
         UNCHANGED <<recipient, overtaken>>
  PROVE  ProfileInv'
<1> DEFINE K == JobsOf(c.user, c.action, c.at, c.after)
           j == RecipientSync(c.user, c.at, c.after)
<1>1. /\ c \in ChangeType /\ ChangeSound(c) /\ c.before = users[c.user] /\ c.user \in User
      /\ c.at <= clock /\ c.at \in Int
      /\ \A d \in transactions : d.user = c.user => d = c
  BY DEF AccountsInv, OpenSound, ChangeType
<1>2. /\ users' = [users EXCEPT ![c.user] = c.after] /\ transactions' = transactions \ {c}
      /\ clock' = clock /\ EnqueueIfDurable(K)
  BY DEF CommitChange
<1>3. /\ \A k \in K : k.type = "recipient" => k = j
      /\ j.type = "recipient" /\ j.user = c.user /\ j.at = c.at /\ j.active = ~c.after.deleted
  BY <1>1, AccountJobs DEF RecipientSync
<1>4. \A k \in Recorded : k.type = "recipient" /\ k.user = c.user => k.at < c.at /\ k.at \in Int
  BY JobKinds DEF ProfileInv, ProfileJobsInv, NoticesInv, JobsInv, RecipientJob
<1>5. j \in K \/ (c.before # NULL /\ c.after.deleted = c.before.deleted)
  <2>1. CASE c.action \in {"totp_require", "totp_unrequire"}
    BY <1>1, <2>1 DEF ChangeSound
  <2>2. CASE c.action = "create" \/ c.action = "update"
    BY <2>2, Transitions DEF JobsOf
  <2>3. CASE c.action \in DOMAIN TRANSITIONS
    <3>1. c.action # "create" /\ c.action # "update"
      BY <2>3, Transitions
    <3> QED BY <2>3, <3>1 DEF JobsOf
  <2> QED BY <1>1, <2>1, <2>2, <2>3 DEF ChangeType, ActionType
<1> HIDE DEF K, j
<1>6. /\ \A k : k \in Recorded' => k \in Recorded \/ k \in K
      /\ \A k : k \in queued => k \in queued'
      /\ \A k : k \in Recorded => k \in Recorded'
      /\ DurableJobs => \A k : k \in K => k \in Recorded' /\ (k \in Recorded \/ k \in queued')
  BY <1>2 DEF EnqueueIfDurable, Enqueue, outboxVars, Recorded
<1>7. ProfileJobsInv'
  <2>1. ASSUME NEW k \in Recorded', k.type = "recipient"
        PROVE  k.at <= clock' /\ \A d \in transactions' : d.user = k.user => k.at < d.at
    BY <1>1, <1>2, <1>3, <1>6, <2>1 DEF ProfileInv, ProfileJobsInv
  <2>2. ASSUME NEW k \in Recorded', NEW l \in Recorded', k.type = "recipient",
               l.type = "recipient", k.user = l.user, k.at = l.at
        PROVE  k = l
    <3>1. (k \in Recorded \/ k = j) /\ (l \in Recorded \/ l = j)
      BY <1>3, <1>6, <2>2
    <3>2. CASE k \in Recorded /\ l \in Recorded
      BY <2>2, <3>2 DEF ProfileInv, ProfileJobsInv
    <3>3. ~(k = j /\ l \in Recorded) /\ ~(l = j /\ k \in Recorded)
      BY <1>1, <1>3, <1>4, <2>2
    <3> QED BY <3>1, <3>2, <3>3
  <2> QED BY <1>6, <2>1, <2>2 DEF ProfileInv, ProfileJobsInv
<1>8. ASSUME DurableJobs, NEW u \in User PROVE ProfileSynced(u)'
  <2>1. CASE u # c.user
    <3>1. users'[u] = users[u]
      BY <1>2, <2>1 DEF AccountsInv
    <3>2. \A k \in Recorded' : k.type = "recipient" /\ k.user = u => k \in Recorded
      BY <1>3, <1>6, <2>1
    <3> QED BY <1>6, <1>8, <3>1, <3>2, SyncedOn DEF ProfileInv
  <2>2. CASE u = c.user /\ j \in K
    <3>1. j \in queued' /\ users'[u].deleted = c.after.deleted
      BY <1>1, <1>2, <1>3, <1>4, <1>6, <1>8, <2>2 DEF AccountsInv
    <3>2. \A k \in Recorded' : k.type = "recipient" /\ k.user = u => k.at <= j.at
      BY <1>1, <1>3, <1>4, <1>6, <2>2
    <3>3. PICK k : k = j
      OBVIOUS
    <3>4. /\ k \in queued' /\ k.type = "recipient" /\ k.user = u
          /\ k.active = ~users'[u].deleted /\ NoLater(u, k.at)'
      BY <1>3, <2>2, <3>1, <3>2, <3>3 DEF NoLater
    <3> QED BY <3>4 DEF ProfileSynced
  <2>3. CASE u = c.user /\ j \notin K
    <3>1. users[u] # NULL /\ users'[u].deleted = users[u].deleted
      BY <1>1, <1>2, <1>5, <2>3 DEF AccountsInv
    <3>2. \A k \in Recorded' : k.type = "recipient" /\ k.user = u => k \in Recorded
      BY <1>3, <1>6, <2>3
    <3> QED BY <1>6, <1>8, <3>1, <3>2, SyncedOn DEF ProfileInv
  <2> QED BY <2>1, <2>2, <2>3
<1> QED BY <1>7, <1>8 DEF ProfileInv

\* A synchronisation that was overtaken is noted; the last one says what is true.
LEMMA SyncProfile ==
  ASSUME ProfileInv, AccountsInv, NoticesInv, NEW job \in queued, SyncRecipient(job),
         UNCHANGED <<users, transactions, clock>>
  PROVE  ProfileInv'
<1> DEFINE u == job.user
           r == [active |-> job.active, can_read_jobs |-> FALSE, at |-> job.at]
           late == recipient[u] # NULL /\ recipient[u].at > job.at
<1>1. /\ job \in Recorded /\ job.type = "recipient" /\ job \in RecipientJob /\ u \in User
      /\ job.at \in Nat
  BY JobKinds, AccountsAssumption
     DEF SyncRecipient, NoticesInv, JobsInv, Recorded, RecipientJob
<1>2. /\ recipient' = [recipient EXCEPT ![u] = r] /\ Ran(job)
      /\ overtaken \subseteq overtaken' /\ (late => u \in overtaken')
  BY DEF SyncRecipient
<1>3. Recorded' = Recorded /\ queued' \subseteq queued /\ queued \subseteq queued' \cup {job}
  BY <1>1, <1>2, Finished
<1>4. r \in RecipientType /\ r.active = job.active /\ r.at = job.at
  BY <1>1 DEF RecipientJob, RecipientType
<1> HIDE DEF r
<1>5. /\ recipient'[u] = r /\ r # NULL
      /\ \A v \in User : v # u => recipient'[v] = recipient[v]
  BY <1>1, <1>2, <1>4, NotificationsAssumption DEF NoticesInv, RecipientsInv
<1>6. ProfileJobsInv'
  <2>1. job = [type |-> "recipient", user |-> u, at |-> r.at, active |-> r.active]
    BY <1>1, <1>4 DEF RecipientJob
  <2>2. ASSUME NEW v \in User, recipient'[v] # NULL, recipient'[v].at # 0
        PROVE  [type |-> "recipient", user |-> v, at |-> recipient'[v].at,
                active |-> recipient'[v].active] \in Recorded
    <3>1. CASE v = u
      BY <1>1, <1>5, <2>1, <3>1
    <3>2. CASE v # u
      BY <1>5, <2>2, <3>2 DEF ProfileInv, ProfileJobsInv
    <3> QED BY <3>1, <3>2
  <2> QED BY <1>3, <2>2 DEF ProfileInv, ProfileJobsInv
<1>7. ASSUME DurableJobs, NEW v \in User, v # u PROVE ProfileSynced(v)'
  <2>1. \A k : k.type = "recipient" /\ k.user = v =>
           (k \in Recorded' => k \in Recorded) /\ (k \in queued => k \in queued')
    BY <1>3, <1>7
  <2> QED BY <1>2, <1>5, <1>7, <2>1, SyncedOn DEF ProfileInv
<1>8. ASSUME DurableJobs PROVE ProfileSynced(u)'
  <2> SUFFICES ASSUME u \notin overtaken', users[u] # NULL PROVE ProfileSynced(u)'
    BY DEF ProfileSynced
  <2>1. \/ \E k \in queued : /\ k.type = "recipient" /\ k.user = u
                             /\ k.active = ~users[u].deleted /\ NoLater(u, k.at)
        \/ /\ recipient[u] # NULL /\ recipient[u].active = ~users[u].deleted
           /\ NoLater(u, recipient[u].at)
    BY <1>1, <1>2, <1>8 DEF ProfileInv, ProfileSynced
  <2>2. \A at : NoLater(u, at) => NoLater(u, at)'
    BY <1>3 DEF NoLater
  <2>3. ASSUME job.active = ~users[u].deleted, NoLater(u, job.at) PROVE ProfileSynced(u)'
    <3>1. PICK at : at = job.at
      OBVIOUS
    <3>2. NoLater(u, at)' /\ recipient'[u].at = at
      BY <1>4, <1>5, <2>2, <2>3, <3>1
    <3> QED BY <1>4, <1>5, <2>3, <3>2 DEF ProfileSynced, NoLater
  <2>4. ASSUME NEW k \in queued, k # job, k.type = "recipient", k.user = u,
               k.active = ~users[u].deleted, NoLater(u, k.at)
        PROVE  ProfileSynced(u)'
    <3>1. k \in queued' /\ NoLater(u, k.at)'
      BY <1>3, <2>2, <2>4 DEF NoLater
    <3> QED BY <2>4, <3>1 DEF ProfileSynced
  <2>5. ASSUME recipient[u] # NULL, recipient[u].active = ~users[u].deleted,
               NoLater(u, recipient[u].at)
        PROVE  job.active = ~users[u].deleted /\ NoLater(u, job.at)
    <3>1. recipient[u] \in RecipientType /\ recipient[u].at \in Nat /\ job.at # 0
      BY <1>1, <2>5 DEF NoticesInv, RecipientsInv, RecipientType, RecipientJob
    <3>2. recipient[u].at = job.at
      BY <1>1, <1>2, <2>5, <3>1 DEF NoLater
    <3> DEFINE k == [type |-> "recipient", user |-> u, at |-> recipient[u].at,
                     active |-> recipient[u].active]
    <3>3. k \in Recorded /\ k.type = "recipient" /\ k.user = u /\ k.at = job.at
          /\ k.active = recipient[u].active
      BY <1>1, <2>5, <3>1, <3>2 DEF ProfileInv, ProfileJobsInv
    <3> HIDE DEF k
    <3>4. k = job
      BY <1>1, <3>3 DEF ProfileInv, ProfileJobsInv
    <3> QED BY <2>5, <3>2, <3>3, <3>4
  <2> QED BY <2>1, <2>3, <2>4, <2>5
<1> QED BY <1>6, <1>7, <1>8 DEF ProfileInv

LEMMA ProfileStep ==
  AccountsInv /\ NoticesInv /\ ProfileInv /\ [Next]_vars => ProfileInv'
<1> SUFFICES ASSUME AccountsInv, NoticesInv, ProfileInv, [Next]_vars PROVE ProfileInv'
  OBVIOUS
<1>0. clock \in Nat
  BY AccountsAssumption DEF AccountsInv
<1>1. CASE UNCHANGED vars
  BY <1>0, <1>1, ProfileFrame, SameJobsIf DEF vars
<1>2. CASE AccountStep /\ UNCHANGED notificationVars
  <2> USE <1>2 DEF notificationVars
  <2>1. ASSUME NEW c, Opens(c), UNCHANGED <<queued, completed>> PROVE ProfileInv'
    <3>1. PICK d : d = [user |-> c.user, action |-> c.action, at |-> clock + 1,
                        before |-> c.before, after |-> c.after]
      OBVIOUS
    <3>2. /\ clock' = clock + 1 /\ transactions' = transactions \cup {d} /\ users' = users
          /\ d.at = clock + 1
      BY <2>1, <3>1 DEF Opens, Change, ChangeUnlocked
    <3> QED BY <1>0, <2>1, <3>2, ProfileFrame, SameJobsIf
  <2>2. ASSUME NEW c \in transactions, RollbackChange(c), UNCHANGED <<queued, completed>>
        PROVE  ProfileInv'
    <3>1. /\ clock' = clock /\ users' = users /\ transactions' \subseteq transactions
      BY <2>2 DEF RollbackChange
    <3> QED BY <1>0, <2>2, <3>1, ProfileFrame, SameJobsIf
  <2>3. ASSUME NEW c \in transactions, CommitChange(c) PROVE ProfileInv'
    BY <2>3, CommitProfile
  <2> QED BY <2>1, <2>2, <2>3, AccountStepJobs
<1>3. CASE GrantStep
  <2>1. SameJobs("recipient") /\ UNCHANGED recipient
    BY <1>3, GrantStepJobs, GrantEffects
  <2>2. clock' = clock + 1 /\ UNCHANGED <<users, transactions>> /\ overtaken \subseteq overtaken'
    BY <1>3, GrantSteps DEF Granting
  <2> QED BY <1>0, <2>1, <2>2, ProfileFrame
<1>4. CASE NotificationStep /\ UNCHANGED accountVars
  <2>1. ASSUME NEW job \in queued, SyncRecipient(job) PROVE ProfileInv'
    BY <1>4, <2>1, SyncProfile DEF accountVars
  <2>2. CASE ~\E job \in queued : SyncRecipient(job)
    BY <1>0, <1>4, <2>2, WorkerJobs, ProfileFrame DEF accountVars
  <2> QED BY <2>1, <2>2
<1>5. ASSUME NEW job \in queued, RunCapability(job) PROVE ProfileInv'
  <2>1. SameJobs("recipient") /\ UNCHANGED accountVars /\ job \in CapabilityJob
    BY <1>5, RunCapabilityJobs, JobKinds DEF RunCapability, NoticesInv, JobsInv, Recorded
  <2>2. recipient' = IF recipient[job.user] = NULL THEN recipient
                     ELSE [recipient EXCEPT ![job.user].can_read_jobs = job.canReadJobs]
    BY <1>5 DEF RunCapability, SyncCapability
  <2>3. \A v \in User : v \in overtaken => v \in overtaken'
    BY <1>5 DEF RunCapability, SyncCapability
  <2>4. ASSUME recipient[job.user] # NULL
        PROVE  /\ [recipient[job.user] EXCEPT !.can_read_jobs = job.canReadJobs] \in RecipientType
               /\ [recipient[job.user] EXCEPT !.can_read_jobs = job.canReadJobs].active
                    = recipient[job.user].active
               /\ [recipient[job.user] EXCEPT !.can_read_jobs = job.canReadJobs].at
                    = recipient[job.user].at
    BY <2>1, <2>4 DEF CapabilityJob, NoticesInv, RecipientsInv, RecipientType
  <2>5. ASSUME NEW v \in User
        PROVE  /\ recipient'[v] = NULL <=> recipient[v] = NULL
               /\ recipient[v] # NULL => /\ recipient'[v].active = recipient[v].active
                                         /\ recipient'[v].at = recipient[v].at
    BY <2>2, <2>4, NotificationsAssumption DEF NoticesInv, RecipientsInv
  <2> QED BY <1>0, <2>1, <2>3, <2>5, ProfileFrame DEF accountVars
<1>6. ASSUME NEW u \in User, RunInvitation(u) PROVE ProfileInv'
  BY <1>0, <1>6, InvitationJobs, ProfileFrame DEF RunInvitation, accountVars, notificationVars
<1> QED BY <1>1, <1>2, <1>3, <1>4, <1>5, <1>6 DEF Next

\* What the notification service believes about an account is what the user service
\* last committed, once no synchronisation is left to run, unless one overtook another
\* (UsersService.enqueueRecipientSync, NotificationService.syncRecipient).
THEOREM RecipientsFollow == ASSUME DurableJobs PROVE Spec => []RecipientFollowsAccount
<1>1. Init => ProfileInv
  <2> SUFFICES ASSUME Init PROVE ProfileInv
    OBVIOUS
  <2>1. queued = {} /\ completed = {} /\ Recorded = {}
    BY DEF Init, OutboxInit, Recorded
  <2>2. ASSUME NEW u \in User, users[u] # NULL
        PROVE  /\ recipient[u].active = ~users[u].deleted /\ recipient[u].at = 0
               /\ recipient[u] # NULL
    <3> DEFINE r == [active |-> ~users[u].deleted, can_read_jobs |-> FALSE, at |-> 0]
    <3>1. recipient[u] = r
      BY <2>2 DEF Init
    <3>2. users \in [User -> RowType \cup {NULL}]
      BY NoticesAssumption DEF Init, AccountsInit
    <3>3. r \in RecipientType
      BY <2>2, <3>2 DEF RecipientType, RowType
    <3>4. r.active = ~users[u].deleted /\ r.at = 0
      OBVIOUS
    <3> HIDE DEF r
    <3> QED BY <3>1, <3>3, <3>4, NotificationsAssumption
  <2>3. \A u \in User : users[u] = NULL => recipient[u] = NULL
    BY DEF Init
  <2> QED BY <2>1, <2>2, <2>3 DEF ProfileInv, ProfileJobsInv, ProfileSynced, NoLater
<1>2. ProfileInv => RecipientFollowsAccount
  BY DEF ProfileInv, ProfileSynced, RecipientFollowsAccount, Synchronised, Current
<1> QED BY <1>1, <1>2, ProfileStep, AccountsHold, NoticesHold, PTL DEF Spec
=============================================================================
