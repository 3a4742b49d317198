--------------------------- MODULE Notifications ---------------------------
(***************************************************************************)
(* The notification service: the worker that runs the jobs of the other    *)
(* services, and the preferences its users set.  A handler is a sequence   *)
(* of statements without a transaction, so a crash or another handler may  *)
(* come between any two; an attempt that does not come to its end leaves   *)
(* its job to be run again.  What no other statement can tell apart is one *)
(* step here: reading a preference and inserting the delivery, and         *)
(* enqueueing the email and noting its job on the delivery.                *)
(***************************************************************************)
EXTENDS Outbox, Naturals

CONSTANTS
  Worker,           \* attempts that may be running at the same time
  Setting,          \* <<category, channel>>: the preferences users change
  OccurredAtOf(_)   \* occurredAt of a permission job, in milliseconds

\* A row of recipient_projection; at is its source_updated_at.
RecipientType == [active : BOOLEAN, can_read_jobs : BOOLEAN, at : Nat]

ASSUME NotificationsAssumption == NULL \notin RecipientType

VARIABLES
  recipient,     \* by user: the row of recipient_projection, or NULL
  notification,  \* notification: the idempotency keys of its rows
  delivery,      \* notification_delivery: <<key, channel>> -> status
  disabled,      \* preferences set to false: <<user, category, channel>>
  attempt,       \* by worker: the running handler
  ignored,       \* history: <<job, why>> of the attempts that made no notification
  stranded,      \* history: keys whose email was queued but not enqueued
  overtaken      \* history: users a later profile of whom was overwritten

noticeVars == <<notification, delivery, ignored, stranded>>
notificationVars == <<recipient, notification, delivery, disabled, attempt,
                      ignored, stranded, overtaken>>

-----------------------------------------------------------------------------
\* The registry.  A notification type is named by its category here.
Channel == {"in_app", "email"}
MandatoryChannels ==
  [account |-> {"in_app", "email"}, access |-> {"in_app"}, operational |-> {}]

\* isMandatory, by which updatePreference and effectivePreference decide; it
\* does not agree with the registry about account notifications in app.
IsMandatory(category, channel) ==
  <<category, channel>> \in {<<"access", "in_app">>, <<"account", "email">>}

\* Mutation of Enabled: the registry is not asked.
EnabledByPreference(u, category, channel) ==
  IsMandatory(category, channel) \/ <<u, category, channel>> \notin disabled

Enabled(u, category, channel) ==
  \/ channel \in MandatoryChannels[category]
  \/ IsMandatory(category, channel)
  \/ <<u, category, channel>> \notin disabled

Email(notice) == [type |-> "email", notice |-> notice]
JobFailure(id) == [type |-> "failure", id |-> id]

\* idempotencyKey of the notification a job makes for a user.
NoticeOf(job, u) ==
  CASE job.type = "account" -> [user |-> u, category |-> "account", at |-> job.at]
    [] job.type = "permission" -> [user |-> u, category |-> "access", at |-> OccurredAtOf(job)]
    [] job.type = "failure" -> [user |-> u, category |-> "operational", at |-> job.id]

Idle == [step |-> "idle", job |-> NULL, todo |-> {}, notice |-> NULL]

Running(w, step) == attempt[w].step = step
Move(w, step) == attempt' = [attempt EXCEPT ![w].step = step]
End(w) == attempt' = [attempt EXCEPT ![w] = Idle]

\* INSERT of a delivery, which does nothing when the row is there, and UPDATE.
Inserted(key, channel, status) ==
  [d \in DOMAIN delivery \cup {<<key, channel>>} |->
     IF d \in DOMAIN delivery THEN delivery[d] ELSE status]
SetStatus(key, status) == [delivery EXCEPT ![<<key, "email">>] = status]

-----------------------------------------------------------------------------
\* syncRecipient.  The user service sends no canReadJobs: false is written.
SyncRecipient(job) ==
  LET u == job.user IN
  /\ job.type = "recipient"
  /\ recipient' = [recipient EXCEPT ![u] =
                     [active |-> job.active, can_read_jobs |-> FALSE, at |-> job.at]]
  /\ overtaken' = IF recipient[u] # NULL /\ recipient[u].at > job.at
                  THEN overtaken \cup {u} ELSE overtaken
  /\ Ran(job)
  /\ UNCHANGED <<disabled, attempt, noticeVars>>

\* syncRecipientCapability updates the row if there is one.
SyncCapability(job) ==
  LET u == job.user IN
  /\ job.type = "capability"
  /\ recipient' = IF recipient[u] = NULL THEN recipient
                  ELSE [recipient EXCEPT ![u].can_read_jobs = job.canReadJobs]
  /\ Ran(job)
  /\ UNCHANGED <<disabled, attempt, overtaken, noticeVars>>

-----------------------------------------------------------------------------
\* Mutation of Audience: every active user is told of a failure.
AudienceActive(job) ==
  IF job.type = "failure" THEN {u \in User : recipient[u] # NULL /\ recipient[u].active}
  ELSE {job.user}

\* Whom a job notifies: fanoutJobFailure reads the operators.
Audience(job) ==
  IF job.type = "failure"
  THEN {u \in User : recipient[u] # NULL /\ recipient[u].active /\ recipient[u].can_read_jobs}
  ELSE {job.user}

\* A worker starts a job that creates notifications.
StartCreate(w, job) ==
  /\ Running(w, "idle")
  /\ job.type \in {"account", "permission", "failure"}
  /\ attempt' = [attempt EXCEPT ![w] = [Idle EXCEPT !.step = "next", !.job = job,
                                                    !.todo = Audience(job)]]
  /\ UNCHANGED <<queued, completed, recipient, disabled, overtaken, noticeVars>>

\* create reads the recipient: an unknown one, and an inactive one unless the
\* notification is about the account, gets none.
ReadRecipient(w, u) ==
  LET job == attempt[w].job
      wanted == recipient[u] # NULL /\ (recipient[u].active \/ job.type = "account") IN
  /\ Running(w, "next") /\ u \in attempt[w].todo
  /\ attempt' = [attempt EXCEPT ![w].todo = @ \ {u},
                   ![w].notice = IF wanted THEN NoticeOf(job, u) ELSE @,
                   ![w].step = IF wanted THEN "insert" ELSE "next"]
  /\ ignored' = IF wanted THEN ignored
                ELSE ignored \cup {<<job, IF recipient[u] = NULL THEN "unknown" ELSE "inactive">>}
  /\ UNCHANGED <<queued, completed, recipient, notification, delivery, disabled,
                 stranded, overtaken>>

\* Mutation of InsertNotification: the insertion is not waited for, and fails.
InsertNotificationUnawaited(w) ==
  /\ Running(w, "insert")
  /\ Move(w, "in_app")
  /\ UNCHANGED <<queued, completed, recipient, notification, delivery, disabled,
                 ignored, stranded, overtaken>>

\* INSERT ... ON CONFLICT (idempotency_key) DO UPDATE, which changes nothing.
InsertNotification(w) ==
  /\ Running(w, "insert")
  /\ notification' = notification \cup {attempt[w].notice}
  /\ Move(w, "in_app")
  /\ UNCHANGED <<queued, completed, recipient, delivery, disabled,
                 ignored, stranded, overtaken>>

\* The delivery of a channel; a new one by email is enqueued as well.
InsertDelivery(w, channel) ==
  LET key == attempt[w].notice
      enabled == Enabled(key.user, key.category, channel) IN
  /\ Running(w, channel)
  /\ delivery' = Inserted(key, channel, IF enabled THEN "queued" ELSE "skipped")
  /\ Move(w, IF channel = "in_app" THEN "email"
             ELSE IF enabled /\ <<key, channel>> \notin DOMAIN delivery THEN "enqueue"
             ELSE "next")
  /\ UNCHANGED <<queued, completed, recipient, notification, disabled,
                 ignored, stranded, overtaken>>

EnqueueEmail(w) ==
  /\ Running(w, "enqueue")
  /\ Enqueue({Email(attempt[w].notice)})
  /\ Move(w, "next")
  /\ UNCHANGED <<recipient, disabled, overtaken, noticeVars>>

\* Everybody was notified.
EndCreate(w) ==
  /\ Running(w, "next") /\ attempt[w].todo = {}
  /\ Ran(attempt[w].job)
  /\ End(w)
  /\ UNCHANGED <<recipient, disabled, overtaken, noticeVars>>

-----------------------------------------------------------------------------
\* sendEmail looks at the delivery: a sent one is not sent again.
StartEmail(w, job) ==
  LET key == job.notice  status == delivery[<<key, "email">>] IN
  /\ job.type = "email"
  /\ Running(w, "idle")
  /\ \/ /\ status \in {"sent", "skipped"}
        /\ Ran(job)
        /\ UNCHANGED <<delivery, attempt>>
     \/ /\ status \notin {"sent", "skipped"}
        /\ delivery' = IF status = "queued" THEN SetStatus(key, "processing") ELSE delivery
        /\ attempt' = [attempt EXCEPT ![w] = [Idle EXCEPT !.step = "send", !.job = job,
                                                          !.notice = key]]
        /\ UNCHANGED outboxVars
  /\ UNCHANGED <<recipient, notification, disabled, ignored, stranded, overtaken>>

\* The mailer took the email, and the delivery says so.
Sent(w) ==
  /\ Running(w, "send")
  /\ delivery' = SetStatus(attempt[w].notice, "sent")
  /\ Ran(attempt[w].job)
  /\ End(w)
  /\ UNCHANGED <<recipient, notification, disabled, ignored, stranded, overtaken>>

\* The mailer refused it: the handler throws, and the job is run again.
NotSent(w) ==
  /\ Running(w, "send")
  /\ delivery' = SetStatus(attempt[w].notice, "failed")
  /\ End(w)
  /\ UNCHANGED <<queued, completed, recipient, notification, disabled,
                 ignored, stranded, overtaken>>

\* The worker dies, or a statement fails.  Between the mailer's answer and the
\* note of it this leaves an email that was sent and will be sent again.
Abandon(w) ==
  /\ ~Running(w, "idle")
  /\ stranded' = IF Running(w, "enqueue") THEN stranded \cup {attempt[w].notice} ELSE stranded
  /\ End(w)
  /\ UNCHANGED <<queued, completed, recipient, notification, delivery, disabled,
                 ignored, overtaken>>

\* updatePreference: what is mandatory cannot be disabled.
UpdatePreference(u, category, channel, enabled) ==
  /\ IsMandatory(category, channel) => enabled
  /\ disabled' = IF enabled THEN disabled \ {<<u, category, channel>>}
                 ELSE disabled \cup {<<u, category, channel>>}
  /\ UNCHANGED <<queued, completed, recipient, attempt, overtaken, noticeVars>>

NotificationsInit ==
  /\ notification = {} /\ delivery = <<>> /\ disabled = {}
  /\ attempt = [w \in Worker |-> Idle]
  /\ ignored = {} /\ stranded = {} /\ overtaken = {}

NotificationStep ==
  \/ \E w \in Worker :
       \/ \E job \in queued : StartCreate(w, job) \/ StartEmail(w, job)
       \/ \E u \in User : ReadRecipient(w, u)
       \/ \E channel \in Channel : InsertDelivery(w, channel)
       \/ InsertNotification(w) \/ EnqueueEmail(w) \/ EndCreate(w)
       \/ Sent(w) \/ NotSent(w) \/ Abandon(w)
  \/ \E job \in queued : SyncRecipient(job)
  \/ \E u \in User, setting \in Setting, enabled \in BOOLEAN :
       UpdatePreference(u, setting[1], setting[2], enabled)

-----------------------------------------------------------------------------
\* Types of the tables: a delivery belongs to a notification, an email is
\* enqueued for a delivery (notification.service.ts, migration 0024).
NotificationsTypeOK ==
  /\ recipient \in [User -> RecipientType \cup {NULL}]
  /\ DOMAIN delivery \subseteq notification \X Channel
  /\ \A d \in DOMAIN delivery :
       delivery[d] \in {"queued", "processing", "sent", "skipped", "failed"}
  /\ \A job \in Recorded : job.type = "email" => <<job.notice, "email">> \in DOMAIN delivery
  /\ \A w \in Worker :
       attempt[w].step \in {"idle", "next", "insert", "in_app", "email", "enqueue", "send"}

\* create ended without a notification for it: there was no row of its recipient,
\* or, unless it is about the account, an inactive one.
Excused(job) == \/ <<job, "unknown">> \in ignored
                \/ job.type # "account" /\ <<job, "inactive">> \in ignored

\* However often its attempts are cut short, a job that is completed and not
\* excused has made its notification and both deliveries; about an account both
\* channels are used whatever the preferences say and even if its recipient is
\* inactive, and the email of a queued delivery is enqueued, unless an attempt
\* died just before (NotificationService.create).
CompletedNoticeIsComplete ==
  \A job \in completed :
    job.type \in {"account", "permission"} /\ ~Excused(job) =>
      LET key == NoticeOf(job, job.user) IN
      /\ key \in notification
      /\ \A channel \in Channel :
           /\ <<key, channel>> \in DOMAIN delivery
           /\ job.type = "account" => delivery[<<key, channel>>] # "skipped"
      /\ delivery[<<key, "email">>] = "queued" =>
           \/ Email(key) \in Recorded
           \/ key \in stranded
           \/ \E w \in Worker : Running(w, "enqueue") /\ attempt[w].notice = key

\* What the specification says of the excuses.  "A missing projection is
\* retryable as `recipient_not_ready`" (docs/specs/0012, AC-10): no job is
\* completed for want of its recipient's row (NotificationService.create).
UnknownIsRetried ==
  \A job \in completed :
    job.type \in {"account", "permission"} /\ <<job, "unknown">> \in ignored
      => NoticeOf(job, job.user) \in notification

\* "Disabled or inactive recipients produce `skipped`" (docs/specs/0012, AC-9): a
\* completed job about an inactive recipient has left deliveries that say so
\* (NotificationService.create).
InactiveIsSkipped ==
  \A job \in completed :
    job.type \in {"account", "permission"} /\ <<job, "inactive">> \in ignored
      => \A channel \in Channel : <<NoticeOf(job, job.user), channel>> \in DOMAIN delivery

\* "Provider failures retry under the job policy and become `failed` when attempts
\* are exhausted" (docs/specs/0012, Delivery flow): a delivery is not failed when
\* its job was completed, that is, when the provider took the email
\* (NotificationService.sendEmail, two attempts of one job).
FailedWasNotSent ==
  \A job \in completed :
    job.type = "email" => delivery[<<job.notice, "email">>] # "failed"

\* "The email handler loads the delivery, projection, and effective preference
\* again immediately before sending" (docs/specs/0012, Delivery flow): no attempt
\* starts to send what the user has disabled meanwhile, or, unless it is about
\* the account, to a recipient who is inactive (NotificationService.sendEmail).
EmailStillWanted ==
  [][\A w \in Worker : ~Running(w, "send") /\ Running(w, "send")' =>
       LET key == attempt'[w].notice IN
       /\ Enabled(key.user, key.category, "email")
       /\ key.category = "account" \/ recipient[key.user].active]_notificationVars
=============================================================================
