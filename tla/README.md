# Verification of monobungsya

TLA+ modules, TLC configurations and TLAPS proofs for the parts of this
repository that keep shared state: the durable job runtime (`packages/jobs`,
the `jobs` schema and the `jobs` service), which every other service hands its
reliable work to; the user and access services, whose changes reach the
notification service through it; the permission caches of the access service
and the gateway; signing in with a second factor; and the migration runner.
Paths below are relative to `src/`.

1. Inventory of the system
2. The modules and how they correspond to the code
3. The runs, their bounds, and what they show
4. Fairness
5. Where the code and its documents disagree
6. What is proved, and how
7. What is only model-checked
8. What is not modelled, and why

## 1. Inventory

| Component | State | Operations | Hard behaviour | What makes it correct | Modules |
|---|---|---|---|---|---|
| Durable job queue: `packages/database/migrations/jobs/0016…0022` | tables `job`, `job_attempt`, `job_retry_request` | enqueue, claim, heartbeat, complete, fail, release, reap, cleanup, manual retry, each one PL/pgSQL function | competing workers, stale holders of a lease, clocks that differ, retention against everything else | leases, budgets and attempt histories agree; ended jobs do not change; a repeated retry request finds its job | `JobQueue`, `JobLifecycle` |
| Job runtime and worker: `packages/jobs/src/index.ts` | per process: `active`, `controllers`, `activeByType`, `stopping`, `forcedShutdown`, heartbeat timers | `runOnce`, `process`, heartbeat, `notifyTerminalFailure`, `shutdown` | promises that overlap with timers, lost answers, a job that returns to the process that lost it, stop and crash | a result lands on the attempt that produced it; every job ends; counts kept by hand do not drift; stop leaves nothing behind | `JobWorker` |
| Job scheduler: `packages/jobs/src/scheduler.ts`, `0020_…` | table `job_schedule`; ticks in progress | synchronise, disable, claim, emit, complete | ticks overlap, fail halfway, outlive their lease; ids are process ids; definitions change | no occurrence lost, none made twice, no schedule stuck | `JobScheduler` |
| Jobs service: `apps/services/jobs` | timers, `ready` | scheduler tick with reaper, retention tick, operator routes | its own clock; overlapping intervals | as above | `JobQueue` |
| User service: `apps/services/user` | `"user".users`, its audit entries | create, update, six status actions, second-factor requirement | two administrators, the audit entry on a connection of its own, jobs in the transaction | only allowed transitions; a gapless audit trail; an undo restores what was | `UserAccounts` |
| Access service: `apps/services/access` | permissions, grants; a cache with a TTL | create, update, delete, grant, revoke, look up, publish | cache filled while an invalidation passes, events lost, keys of jobs used up | a revoked grant is gone in bounded time; staleness has a known cause | `AccessGrants`, `PermissionCaches` |
| Gateway: `apps/gateway/erp` | permission cache with a TTL | forward, look up, invalidate on event | the same race over the network | as above | `PermissionCaches` |
| Notification service: `apps/services/notification` | recipients, notifications, deliveries, preferences | `syncRecipient`, `syncRecipientCapability`, `create`, `fanoutJobFailure`, `sendEmail`, preferences | sync jobs out of order, retries after partial effects, handlers without a transaction | the projection converges; a completed job is complete; a delivery's status is true | `Notifications`, `AccountNotices` |
| Authentication service: `apps/services/auth` | login tokens, sessions, MFA challenges, TOTP credentials, recovery codes, passkeys, rate limits | issue and verify a link, passkey assertion, second factor, enrolment, administrative reset, cleanup | the same token twice, reads before a transaction, a row lock on a row that is not there, resets between two steps | nothing is spent twice; no session past a second factor; guesses and resets hold | `TotpFactor`, `SignIn` |
| Migration runner: `packages/database` | tracking tables, the advisory lock | migrate, down, reset, seed, seed reset | two runners, releases that differ, a command that dies halfway, scopes migrated alone | a file is applied on exactly the schema its release expects | `DatabaseRunner` |
| Logger: `packages/logger` | yearly audit partitions | insert, create a missing partition | concurrent creation | no audit record lost | |
| Logs service: `apps/services/logs` | none of its own | queries | none | none | |
| Messaging: `packages/messaging` | a NATS connection | publish, subscribe | at most once | nothing relies on delivery | |
| acl, config, contracts, elysia, errors, angular-sdk | none | pure helpers, generated code | none | none | |
| Web, Tauri, MCP, scripts, infra | none shared | user interface, packaging | none | none | |

The services meet in PostgreSQL. A service enqueues a job with
`jobs.enqueue_job` in the transaction of its own change; a worker of the target
service claims it, runs a local handler and reports back with one call; the
jobs service reaps expired leases, emits scheduled jobs and deletes old rows.
NATS only carries wake-up and invalidation events. All code changes the queue's
tables through these functions (the jobs service also reads them for its
operator routes), which is why each function is one action below.

`PROJECT.json` lists the hazards of this code at their lines, with the
properties that would notice them going wrong.

## 2. Modules

| Module | Models | Builds on |
|---|---|---|
| `JobLifecycle` | what the runtime promises of a job, without tables, locks or clocks | |
| `JobQueue` | the three tables and the functions that change them | refines `JobLifecycle` |
| `JobWorker` | `DurableJobWorker` processes at work on the queue | EXTENDS `JobQueue` |
| `JobScheduler` | one row of `job_schedule` and overlapping scheduler ticks | |
| `Outbox` | the durable queue as the services see it: enqueued with a change, run at least once, in any order | |
| `UserAccounts` | the user service's rows, transactions and audit entries | EXTENDS `Outbox` |
| `AccessGrants` | permissions and grants, and the jobs their changes leave | EXTENDS `Outbox` |
| `Notifications` | the notification service's handlers, statement by statement | EXTENDS `Outbox` |
| `AccountNotices` | accounts, grants and notifications together | EXTENDS the three before |
| `PermissionCaches` | both permission caches, lookups in progress, and the events | EXTENDS `AccessGrants` |
| `TotpFactor` | credentials, recovery codes and what it means to accept a factor | |
| `SignIn` | first factors, challenges, sessions, enrolment and reset | EXTENDS `TotpFactor` |
| `DatabaseRunner` | the commands of `cli.ts` on one database | |
| `…Proofs` | theorems about the module of that name; `JobQueueHistoryProofs` goes on where `JobQueueProofs` ends | EXTENDS it |
| `MC…` | constants for TLC | EXTENDS it |

Operators whose comment says "Mutation of …" are wrong variants of the operator
that follows them. No specification uses them: they stand for plausible bugs
and show that each property notices one.

### JobQueue

`job[j]`, `job_attempt[j][n]` and `job_retry_request` are the tables. A call
whose WHERE clause matches nothing returns `false` and changes nothing, so it
is a stuttering step.

* Identities (`JobId`) are uuids and are never reused: `absent` has not been
  given out, `deleted` was removed by retention.
* Time is relative to the database clock: `run_in = run_at - now`,
  `lease_left = lease_expires_at - now`, `age = now - updated_at` of an ended
  row. `Tick` passes a unit. Each value is cut off where no comparison can
  distinguish it any more (`run_in` at 0, `lease_left` at `LeaseFloor`, `age`
  at `AgeCeiling`), so time itself needs no bound.
* `ReapExpiredJobs` and `CleanupTerminalJobs` take a skew between `-MaxSkew`
  and `MaxSkew`: `recoverExpired` and `cleanupTick` pass `new Date()` of the
  jobs service, while heartbeats and claims use the database clock.
* `manual_retry_job` derives a key by appending `:manual:<header>` to the
  source's key. `retries` is the list of headers appended so far; the
  truncation to 200 characters is not modelled.
* `ClaimBatches` keeps the priority order of a claim and leaves the order by
  `run_at` and `created_at` open; a full retention batch may take any old rows.
  Both allow more than the code does.

`ImplementsLifecycle` maps a row to its state, its attempts and its contract's
budget and checks the queue against `JobLifecycle!Spec`.

### JobWorker

A task is one run of `process(job)`, named by job and attempt. The code knows
it only by the job's id, in `active` and `controllers`; the model keeps both
maps for that reason, because a second claim overwrites the entry of the first
and either run deletes it. `activeByType` is a third map, counted up and down by
hand; the model keeps its count as the code does (`Start`, `Finish`), and that
it is the number of runs is what `TypeLimitRespected` says. A row whose contract
the process does not know is limited by the process's concurrency (`Limit`).

| Code | Actions |
|---|---|
| `runOnce` up to `await claim` / after it | `Poll` / `Receive`, `Start` |
| `process`: handler, `complete`, `fail`, notification, `finally` | `HandlerEnds`, `CompleteCall`, `FailCall`, `FailReturns`, `Finish` |
| heartbeat timer | `Heartbeat` |
| overflow over the type's limit | `ReleaseOverflow` |
| `shutdown`: snapshot, drained, timeout, releases, resolved | `Stop`, `Drained`, `ForceShutdown`, `ReleaseActive`, `Forced` |
| `process.exit`, a kill, a new start | `Exit`, `Crash`, `Restart` |
| producers, the reaper, time | `Environment` |

A call of the database may fail, and a claim or a `fail` may take effect and
lose its answer. (`complete`, `heartbeat` and `release` may do so too; the code
goes on the same way whatever they answer there, so the model has no extra
step for it.) All keys are of one job type. Retention and the operator
are left to the runs of `JobQueue`: a worker cannot see them, because neither
touches a row that a worker could still report on.

### JobScheduler

One row, and a set of ticks. `ClaimDue` is `claim_due_schedules` and
`materialize` up to its first `await`; each `EmitOccurrence` is one
`enqueueJob`, represented by its key; `CompleteSchedule` ends the tick, whose
`catch` is `TickFails`. `Synchronize` and `DisableMissing` belong to an
instance that starts while others run. A cron expression is the set of times it
stands for (cron-parser is external). Scheduler ids are
`jobs-<pid>`, so two runs may share one: two ticks of one process, which
`setInterval` starts whether or not the last has ended, or two containers. The
lock, the lease and the ids are kept; the loop over several due rows is not,
as a tick treats them one by one and independently. A completion that takes
effect and loses its answer differs from a normal one in telemetry only.
`since` is a history variable of the property.

### Outbox, UserAccounts, AccessGrants

A service sees of the queue that a key is taken once (`Enqueue`) and that a job
stays until a worker reports it completed (`Ran`: completed, or to be run
again). `JobQueue` is the same in detail. A job is its idempotency key.

A change of a user (`Change`, called by `CreateUser`, `UpdateUser`,
`ApplyStatusAction`, `SetTotpRequirement`) is everything from the row lock to
the audit entry: until then nothing is visible and a failure leaves nothing.
The entry is written by `ActivityLog` on a connection of its own, so it is
there before `CommitChange` and stays after `RollbackChange`. `JobsOf` names
the jobs each change enqueues. `updated_at` is the start of the transaction and
goes into the keys; here it is the number of the change.

`AccessGrants` has one action per operation that changes grants
(`copyPermissions` is `GrantPermissions`). A transaction reads the user's
grants without a lock; the argument `view` is what it reads besides its own
changes, which may be the grants before an overlapping transaction (`overlapped`
in `AccountNotices`). What it sees decides the capability it announces.

### Notifications and AccountNotices

A handler is a sequence of statements without a transaction: `StartCreate`,
`ReadRecipient`, `InsertNotification`, `InsertDelivery` per channel,
`EnqueueEmail`, `EndCreate`, and `StartEmail`, `Sent`, `NotSent`. `Abandon`
ends an attempt between any two; its job is run again from the start. The
templates, the metadata and the SMTP dialogue are left out; a notification is
its key.

`AccountNotices` composes the three services. `RunInvitation` is the auth
service's worker, which completes the invitation or fails it for good, which
enqueues the notification of the failure. Three history variables record what
its properties speak of or except, each of which is something the code does:

* `ignored`: jobs for which `create` returned normally because the projection
  does not know the recipient or knows an inactive one
  (`notification.service.ts:241`). Both disagree with the specification: section
  5, "Unknown recipients" and "Inactive recipients";
* `stranded`: an attempt died between the delivery and `enqueueEmail`; the
  repeated attempt finds the delivery and enqueues nothing;
* `overtaken`: users of whom an older change was synchronised after a newer one
  (section 5, `AccountNotices_projection`).

### PermissionCaches

A slot is a request of a gateway followed down to the database and back:
`GatewayMiss`, then `AccessHit` or `AccessMiss`, `Read`, `AccessStore`, then
`GatewayStore`; `Fail` gives it up anywhere. Between any two of them grants
change, events arrive (`Invalidate`) or are lost (`Lose`), and processes
restart. A change commits, is then published by its instance (`Publish`, which
also clears that instance's own cache, and no other), and is heard by the
gateways. `messaging.publish` comes first and may throw on a connection that is
closed or draining, and a lost answer to COMMIT never leads to it: then nobody
is told, and the instance's own cache stays as it is (`PublishThrows`).
Times are relative (`left`, `wait`, `since`) and pass with `Tick`.
`raced` is history: it marks entries the protocol of events cannot remove.

### TotpFactor and SignIn

Every transaction that holds the rows it read is one step. Three are not, and
are two steps each: a first factor reads the second one's state without a lock
(`FirstFactor`, `Complete`); an enrolment that finds no row has nothing to
lock (`Enroll`, `InsertEnrollment`: `SELECT … FOR UPDATE` locks no absent row);
and the code that confirms an enrolment is checked against a secret read before
the transaction (`CheckCode`, `Confirm`; a wrong code is `MistypeConfirmation`
and writes nothing). `enrolling` and `confirming` hold any number of insertions
and confirmations, of one user too. `Verify` is `verifyChallenge` with
both purposes of a challenge, `Disable` and `RegenerateRecoveryCodes` spend a
factor too, `Reset` is the administrator's, `SetActive` and `SetRequired` come
from the user service, `Cleanup` is the scheduled job.

Expiry may happen at any time (`LapseToken`, `LapseChallenge`, `EndSession`),
which covers every clock. A rejected passkey assertion uses its challenge up
like an expired one. A batch has one recovery code, since codes of a batch are
used one by one. `CheckCode` tries a request without a cookie and one with that of
any challenge that is good to enrol; with another cookie the confirmation is
refused whatever happens.

### DatabaseRunner

A runner is a process with one command of `cli.ts`. `Refuse` is a refusal
before the lock; `TryLock` is the poll that gets it and `TimeOut` the deadline.
The command is chosen with the lock, as nothing of it shows before. A file's
effect and its tracking row are one transaction, so the row stands for both;
`PlanMigrations`, `PlanSeeds` and `PlanRollback` are the checks and the list of
pending files, each of `Apply`, `ApplySeed` and `RollBack` is one file. `Fail` is any check or
statement that throws, `Crash` the end of the process or its session. A
runner's `Release` says which files it has and what they contain (a checksum);
it does not change while the runner runs. `newer` orders the rows as
`ORDER BY applied_at DESC, id DESC` does.

The confirmation and `DATABASE_RESET_ALLOWED` that a reset needs are refusals
that change nothing; a dry run is read-only; the catalog's query either finds
nothing (`Validated`) or fails (`Fail`). The retired role seed writes its row
without running the file.

## 3. Runs

| Run | Instance | Properties | Distinct states |
|---|---|---|---|
| `JobQueue_workers` | 3 identities, 2 keys (budgets 2 and 1, two priorities), 3 workers of 2 services, 1 retry header, skew ±1 | `TypeOK`, `RetryRequestsLinked`, `LeaseMatchesStatus`, `AttemptBudget`, `AttemptLedger`, `TerminalImmutable`, `AttemptsAppendOnly`, `ImplementsLifecycle` | 91 735 |
| `JobWorker_serial` | 2 processes with own ids and one slot, 1 job of 2 attempts, skew ±1, 1 stop or crash | `WorkerTypeOK`, `CompletedByItsAttempt`, `NotifiedOnlyIfFailed` | 54 360 |
| `JobWorker_shared` | 2 processes under one id, two slots, one build without the contract, 1 incident | `CompletedByItsHolder`, `NotifiedOnlyIfEnded`, `TypeLimitRespected`, `EveryJobEnds` | 24 134 |
| `JobScheduler_overlap` | 3 ticks, two under one id, 6 occurrences, catch-up limit 2, lease 1 | `SchedulerTypeOK`, `LatestOccurrencesEmitted`, `ScheduleSettles` | 28 308 |
| `PermissionCaches_races` | 1 gateway with 2 requests, 2 instances, 1 user, both TTLs and the latency 1 | `CachesTypeOK`, `StalenessBounded`, `StalenessExplained` | 1 283 679 |
| `AccountNotices_changes` | 1 user, 1 permission, 2 changes of account or grants, 1 worker | `NoticesTypeOK`, `AuditTrailFaithful`, `UndoRestoresStatus`, `CompletedNoticeIsComplete`, `RecipientFollowsAccount`, `FailuresToOperators` | 915 766 |
| `SignIn_factors` | 1 user, 1 login token, 1 passkey challenge, 1 secret, 2 batches, 2 confirmations at once, 2 time steps, 2 wrong codes, 1 reset | `SignInTypeOK`, `NothingSpentTwice`, `GuessesBounded`, `ResetCutsOff` | 1 976 368 |
| `SignIn_enrolments` | the same with 2 secrets, 1 confirmation at a time, 1 time step, 1 wrong code | `NothingSpentTwice`, `SecondFactorEnforced` | 1 453 932 |
| `DatabaseRunner_commands` | 5 commands (1 of an older release, 1 in production), 3 migrations of 2 scopes, 2 seeds | `RunnerTypeOK`, `BatchIsOneCommand`, `AppliedInOrder`, `SeededOnItsSchema` | 85 310 |
| `JobWorker_notify`, `SignIn_unproved`, `AccountNotices_projection` | the smallest instance that shows the case | `FailureIsNotified`, `FactorIsItsOwners`, `ProjectionIsCurrent`: violated, section 5 | |

Nine more configurations are beside the runs, each for a statement of the
documents that TLC shows to be false of the code: `JobWorker_reclaim`,
`JobWorker_stop`, `JobScheduler_redefine`, `SignIn_replaced`,
`SignIn_uncounted`, `AccountNotices_unready`, `AccountNotices_inactive`,
`AccountNotices_resent` and `AccountNotices_unwanted` (`tlc -config X.cfg MCM.tla`,
section 5).

Why these bounds are enough for the cases that matter:

* Queue: three rows under two keys let a key be freed by retention and taken
  again while another row runs, let a claim take a batch of two, and hold a
  source, its retry and the retry's retry. Two attempts are the least with a
  retry; the budget of one makes the first failure terminal. A worker of
  another service is there to fail to claim.
* Worker: one job of two attempts gives a worker everything it can confuse: its
  own old run with a new one. Two processes are needed for the job to move, one
  incident for a stop or a crash to interrupt it at any point. A lease of one
  unit lets every call be late.
* Scheduler: six occurrences are three times the catch-up limit, so occurrences
  are skipped; three ticks let a stale completion hit the claim of a tick with
  the same id while a third process waits. `MaxOccurrenceScan` is above the
  horizon: the one registered schedule is daily, and 10 000 missed occurrences
  are 27 years.
* Caches: two requests of one gateway let one store what it read before the
  other's event; two instances let one change what the other has cached. With
  a latency of 1, two requests reach the worst age, `GatewayStaleness`: the
  bound is the least that holds.
* Notices: two changes are an action and its undo, a change that overtakes
  another, or a grant with its revocation, besides a user who starts suspended;
  every attempt may be cut short at every statement, any number of times. That
  jobs of several users do not touch each other is proved for any number.
* Sign-in: two first factors may be on their way at once, with two challenges
  and sessions. `SignIn_factors` has two confirmations beside them; two steps
  with their neighbours are four codes of a secret, and with a limit of two
  wrong codes the first must not close a challenge and the second must.
  `SignIn_enrolments` has a second secret, so that a credential is enrolled,
  confirmed, replaced by an enrolment that began earlier, given up and confirmed
  again between a first factor's reading and its commit. Both together are
  beyond TLC; the proofs of section 6 have no bound on either.
* Runner: five commands are enough to migrate, roll back one scope, migrate
  another and seed, with one more in between. The older release lacks the third
  file and has another second one.

Bounds that are part of a guard: `MaxIncidents` (stops and crashes), `Horizon`
and the condition of `ClaimDue` and `TickFails` that lost answers and failures
end one lease before it, `MaxChanges`, `MaxSecrets`, `MaxBatches`, `MaxStep`,
`MaxResets`, and `MaxLatency` (an answer is on its way for a bounded time; the
code sets no such bound, its HTTP clients do). `MaxAttempts` and the times to
live are settings of the code. The sets `JobId` and `Runner` bound how many
jobs are created and how many commands run.

Symmetry is used for `JobQueue`, `PermissionCaches` (instances, requests),
`SignIn` (confirmations on their way) and
`DatabaseRunner` (the three runners with equal releases and environment), whose
properties treat these identities alike and which are checked for safety only;
nothing orders identities there. Deadlock is checked except where the cfg says
otherwise: there the instance really ends, the commands of `DatabaseRunner`
first of all.

## 4. Fairness

`WorkerFairness` assumes that time passes, that the jobs service's interval
keeps calling the reaper (`setInterval(scheduleTick)`, whose errors are caught),
and that each process eventually does what its event loop has queued: its poll
timer is rearmed after every `runOnce`, promises settle, handlers return or
throw, a process that has stopped exits and is started again. It assumes
nothing of heartbeats, stops, crashes and failing calls. `Exit` and `Restart`
are the container runtime's, as is the assumption that handlers end; neither
has a timeout in the code, and without them no job is promised to end.

`FairSpec` of `JobScheduler` assumes time, and that each run's ticks go on: the
interval starts them for as long as an instance runs and their calls are
answered or fail. It assumes nothing of synchronisation; `ScheduleSettles`
speaks of schedules that stay enabled.

`UserAccounts`, `AccessGrants`, `Notifications`, `PermissionCaches`, `SignIn`
and `DatabaseRunner` have safety properties only and assume no fairness. What
should happen in the end is stated there as what holds once no job is left to
run (`RecipientFollowsAccount`), and that jobs do run is `EveryJobEnds`.

## 5. Where code and documents disagree

Three runs expect a violation:

* **`JobWorker_notify`** (`FailureIsNotified`). Only a worker whose `fail` call
  returned reports a terminal failure, in a call of its own. A job failed by
  the reaper or by a release is not reported. Spec 0012 `index.md:192` promises a
  committed `notification.create` job for every terminal failure.
* **`SignIn_unproved`** (`FactorIsItsOwners`). `confirmEnrollment` checks the
  code against a secret read before its transaction (`totp.service.ts:107`),
  which confirms whatever unconfirmed secret it finds. Another enrolment in
  between is confirmed without a code of it ever having been shown; spec 0009
  `index.md:22` has a valid code activate 2FA. `SignIn_replaced.cfg` shows the
  property's other half to be false (`ConfirmedUntilGivenUp`): `saveEnrollment`
  locks the row it finds (`totp.repository.ts:108`), two enrolments that find none
  both go on, one is confirmed, and `ON CONFLICT DO UPDATE` of the other takes
  the confirmation away, though by `index.md:26` a plain click without proof never
  disables 2FA.
* **`AccountNotices_projection`** (`ProjectionIsCurrent`). Spec 0012 `index.md:208`
  has the projection current, the job read capability included, when the jobs
  of a change have completed. `deletePermission` (`access.service.ts:133`)
  enqueues no capability job, so a user keeps `can_read_jobs` without the
  permission; that is the shortest trace. There are three more causes:
  `syncRecipient` writes `can_read_jobs = false` whatever the grants
  (`input.canReadJobs ?? false`, which the user service never sends); the key of
  a capability job is the user and the boolean (`access.service.ts:387`), so a
  grant after a revocation after a grant sends nothing; and jobs of one user run
  in any order and carry no version that `syncRecipient` compares
  (`notification.service.ts:211`), so the older of two changes may win. Without
  overtaking the active state is current: `RecipientFollowsAccount`.

The other configurations beside the runs show further ones, each violated:

* **Claiming back** (`JobWorker_reclaim`, `CompletedByItsAttempt`). A process with
  free slots can lose a lease (a slow heartbeat is enough) and claim the same
  job back. `complete_job` knows the job and the worker but no attempt, so the
  first run's result completes the second attempt, whose handler is still
  running. Spec 0012 `index.md:121` says the result is recorded while the worker
  still owned the lease. The serial run shows that one slot per process and
  distinct ids exclude the case; the services run with neither.
* **Stopping** (`JobWorker_stop`, `StopReleasesLeases`). `shutdown()` looks at
  `active` once (`packages/jobs/src/index.ts:643`). A claim that is still awaited
  is in no map: `stop()` resolves, and the rows stay locked until the reaper
  comes. `0012-durable-job-runtime.md:95` promises that unfinished leases are
  released.
* **Redefining a schedule** (`JobScheduler_redefine`, `LatestOccurrencesEmitted`).
  If an instance with a changed cron expression starts while a tick is in
  progress, the tick's completion overwrites the new definition's `next_run_at`
  with a time computed from the old one, and the occurrences before it never get
  a job. `index.md:184` promises a job for each scheduled time after an
  idempotent synchronisation.
* **Wrong confirmation codes** (`SignIn_uncounted`, `AttemptsEndChallenge`). A wrong
  code that is to confirm an enrolment is not counted, though a challenge
  admitted the request (`totp.service.ts:109`), and that route is not rate
  limited. Spec 0009 `index.md:25` allows five code attempts per challenge.
  `GuessesBounded` is about challenges to sign in.
* **Unknown recipients** (`AccountNotices_unready`, `UnknownIsRetried`). A
  notification for a recipient that is not in the projection yet is dropped and
  its job completed (`notification.service.ts:241`). Spec 0012 `index.md:208`
  makes it retryable as `recipient_not_ready`.
* **Inactive recipients** (`AccountNotices_inactive`, `InactiveIsSkipped`). The same
  for an inactive recipient, where `index.md:204` has deliveries that are
  `skipped`. `CompletedNoticeIsComplete` excepts these two cases and no other
  recipient.
* **Two senders** (`AccountNotices_resent`, `FailedWasNotSent`). A worker that lost
  its lease is still sending when another one sends the same email. If the
  provider refuses the second, `failed` overwrites `sent` without a look at the
  row (`notification.service.ts:455`) although the job is completed.
  `0012-notification-center.md:103` has `failed` for exhausted attempts.
* **Unwanted emails** (`AccountNotices_unwanted`, `EmailStillWanted`). `sendEmail`
  reads the delivery only (`notification.service.ts:430`): an email is sent after
  its user turned it off, or after the account became inactive.
  `0012-notification-center.md:102` has projection and preference read again
  immediately before sending.

Others were met while modelling and have no configuration:

* **Staleness.** `docs/specs/0008-permission-acl/index.md:158` and `:188` bound
  the staleness of a permission at 60 seconds. The gateway's 60 seconds start
  when it stores an answer that may come from the access service's cache, which
  holds it for 300 seconds: `StalenessBounded` gives the sum of both and of the
  time answers are on their way, and no smaller bound holds.
* **Publication.** Spec 0008 `index.md:30` (AC-10) has an event published on every
  grant, revocation and change of the catalogue. It is published after the
  commit (`access.service.ts:326`), so a crash, a lost answer to COMMIT or a
  connection that throws leaves a change without one, and in the last two cases
  the instance that made the change answers from its own stale cache for up to
  its time to live (`PublishThrows`).
* **Fixtures in production.** `runner.ts:113` refuses `--set fixtures` only.
  `db:seed` without `--set`, and `reset --seed`, apply every set; spec 0002
  `index.md:141` says fixture seeds must be rejected for production, and
  `index.md:153` that a reset applies reference seeds.
* **Scopes.** `assertScopeDependencies` counts pending files of the same scope,
  so a scope with two pending migrations cannot be migrated with `--service`.
* **A retired seed.** On a new database `user.role` is gone before seeds run:
  the first user seed is always skipped, and what it inserts is missing.
* **Preferences.** `isMandatory` (`notification.service.ts:493`) disagrees with
  the registry about in-app account notifications (spec 0012 `index.md:200`):
  the preference can be switched off and the notification is made all the same.
* **Audit.** An entry of a change that was rolled back stays.
* **Sessions.** In its last eight hours a session is touched with an idle
  expiry equal to the absolute one, which the table's CHECK refuses
  (`auth.repository.ts:279`, migration `auth/0008:40`).

## 6. Proofs

Eight modules prove the safety properties that the passing runs check, all of
them, for every value of the constants. The assumptions are the named ASSUMEs
of the modules, which TLC evaluates in every run of them: types and
disjointness of the constants, leases and budgets that are positive, contracts
with an attempt to spend, finitely many rows. Some theorems have a hypothesis
of their own:

* `RecipientsFollow`: `DurableJobs`. Without it nothing is synchronised.
* `NoOccurrencePassedOver`: `OneDefinition` (the schedule keeps its cron
  expression; `JobScheduler_redefine.cfg` shows a counterexample with two) and
  `ScanSuffices` (no more occurrences than `MaxOccurrenceScan`, or the scan of
  `materialize` stops before the latest ones, `scheduler.ts:214`).
* `AttemptsAreTheirOwn` and `NotificationsAreTrue`: `OneSlotEach`, one slot per
  process and distinct identities. **This is not how the services are deployed**:
  the default concurrency is 5, and `<service>-<pid>` is the same in two
  containers. They are kept in `JobWorkerProofs` because they say what a
  deployment would have to change, and are not among the results of
  `PROJECT.json`. What holds of the code as it is deployed is `CompletionsAreHeld`,
  `NoticesComeAfterTheEnd` and `TypeLimitsHold`, for any number of slots and
  identities shared or not.

| Module | Theorems | Invariant |
|---|---|---|
| `JobQueueProofs` | `TypeCorrect`, `LeaseCorrect`, `BudgetCorrect`, `LedgerCorrect` | `QueueInvariant` |
| `JobQueueHistoryProofs` | `RequestsAreLinked`, `TerminalStays`, `AttemptsStay`, and the refinement `QueueImplementsLifecycle` | `HistoryHolds` |
| `JobWorkerProofs` | the refinement `WorkersUseQueue`, `WorkersKeepLifecycle`, `WorkerTypes`, `CompletionsAreHeld`, `NoticesComeAfterTheEnd`, `TypeLimitsHold`; under `OneSlotEach` `AttemptsAreTheirOwn`, `NotificationsAreTrue` | `WorkersHold`, and `SlotsHold` |
| `JobSchedulerProofs` | `RowAndTicksTyped`, `NoOccurrencePassedOver` | `SchedulerHolds` |
| `PermissionCachesProofs` | `TypesHold`, `StalenessIsBounded`, `StalenessIsExplained` | `InvHolds` |
| `AccountNoticesProofs` | `TablesTyped`, `TrailIsFaithful`, `UndoRestores`, `CompletedIsComplete`, `RecipientsFollow`, `FailuresReachOperators` | `AccountsHold`, `NoticesHold` |
| `SignInProofs` | `TypesHold`, `NothingIsSpentTwice`, `SecondFactorIsEnforced`, `GuessesAreBounded`, `ResetsCutOff` | `InvHolds` |
| `DatabaseRunnerProofs` | `RunnerTypes`, `BatchesHold`, `MigrationsInOrder`, `SeedsOnSchema` | `RunnerHolds` |

**JobQueue.** The properties are not inductive one by one. The ledger says that
the open attempt is the last one, which needs the budget (or the claim would
write outside the table) and the types; the budget of a waiting row needs what
release and the reaper decide from `attempt_count`; the lease's properties need
that a row has a key exactly while it exists. `QueueInv` is their conjunction,
stated per job: `Sound(row, attempts)`. A function of the queue changes rows
independently and in five ways only (`NoRowSound`, `NewRowSound`,
`ClaimedSound`, `UnlockedSound`, `TimedSound`, lemmas about values without
primes); each action has a lemma that names the change it makes to each row.

`JobQueueHistoryProofs` adds what two rows and two states have to do with each
other. All of it rests on one lemma, `StepChanges`: in any step a job is kept,
claimed, ended, inserted or removed. A retry's key is its source's with one more
header, and retention takes a request with either of its rows, which is why
requests stay linked. The refinement maps each of the five changes to a step of
`JobLifecycle` or a stutter.

**JobWorker.** `WorkersUseQueue` says that a step of a process is a step of the
queue or leaves it alone, so the queue's theorems hold at work and their
invariant may be used (`QueueStep`). `WorkerInv` follows a task from the row of
a claim: a row that was claimed has no task yet and its attempt is counted
(`PolledSound`), so that starting it overwrites nothing; no two processes wait
for one row (`PolledOnce`); a task that is about to call `complete_job` has a
result (`TaskSound`). Each action is shown to be `Ordinary`, which says what it
may do to tasks, processes and jobs, or is a poll or the start of its rows, and
the invariant is shown of these three only (`StepKinds`).

For the two properties that need `OneSlotEach`, `SerialInv` adds `SlotSound`:
what a process has in hand is one attempt, listed in `active`; a lock it holds
is that attempt's; and if the attempt is the last one, the job is locked by the
process, waits, or failed. So a completion finds its own attempt, and when
`fail_job` answers `false` on a last attempt the job has already failed, which
is why `notifyTerminalFailure` may judge by the attempt's number. The pid as
identity (`<service>-<pid>`) does not give distinct identities to containers;
the theorems say what depends on it.

**JobScheduler.** `SchedulerInv` types the row and the ticks: a tick emits no more
than the catch-up limit and nothing later than its claim. `EmissionInv` says
that a tick still has to emit all that is missing of the time it was claimed at.
Therefore it does not matter whose claim a stale completion ends: any tick may
move the row past the occurrences of its own claim. The lemmas say what
`nextOccurrence` and `materialize` return (`NextOccurrence`, `DueOccurrences`,
`MaterializeSound`) and that a claim covers what is below the row's next run
(`ClaimCovers`).

**PermissionCaches.** An answer is followed on its way. `Sound` bounds, at each
stop of a request, how long ago the grants may have changed if the answer
differs: as long as it has waited, and for an answer out of the access
service's cache one time to live more. `EntrySound` says the same of an entry
by the time it has left. An answer not marked as raced is the truth while it is
on its way, and in a cache until a change is announced.

**AccountNotices.** The services touch each other through the queue only, so
the invariant is a conjunction of parts, each about the tables of one service
and the jobs of one type, and `SameJobs` says that a step leaves the jobs of a
type alone. An open transaction starts from the row there is (`OpenSound`),
which needs the lock; what an attempt has still to do is known at each of its
statements (`AttemptSound`). That the projection follows the account needs that
profile jobs are numbered by their changes and that one is enqueued by the last.

**SignIn.** Everything that was accepted is used up in the tables: `SpentSound`
says how, kind by kind, and what may be accepted is not used up. For a TOTP
code this takes `SecretsInv`: no two credentials, enrolled or to be inserted,
share a secret. `FlowsInv` says that what a first factor has read of the second
one is still so, or the flow is marked as overtaken.

**DatabaseRunner.** What a runner finds out when it makes its plan must stay
true until its last file: `Applying`, `Seeding` and `Rolling` say what that is.
Nobody else works while it holds the lock (`Others`), so each action is shown
to keep it for the runner that acts. For a scope `DependenciesMet` leaves
nothing older out of the plan; a batch number is above all in the table
(`FreshBatch`), so rows that have it are the runner's own (`Own`).

## 7. Only model-checked

The liveness properties: `EveryJobEnds` of `JobWorker` and `ScheduleSettles` of
`JobScheduler`. They rest on fairness and ENABLED, which TLAPS cannot prove
about. The properties of the violated runs and configurations are false of the
code; what they say of smaller systems is in the hypotheses of section 6.
That an action is what the code does is read off the source, not proved.

## 8. What is not modelled

In the parts above:

* payloads, their validation and redaction, telemetry, the audit record of a
  manual retry, the retry delay's formula and jitter (a small set of delays);
* roles: `assert_worker_target` and `assert_jobs_runtime` are guards on the
  service, the producer's privileges are not;
* workers of several job types (the per-type limit is modelled for one type),
  the wake-up by NATS (a poll may come at any time anyway), and the branch for
  a missing handler, which `assertReadyForTarget` excludes at startup;
* clock skew between scheduler instances, and the parsing of cron expressions;
* in the auth service rate limits, registration, renaming and counters of
  passkeys, the sliding expiry of sessions and security notifications; that
  `reset` and `verifyChallenge` take their row locks in opposite orders, which
  PostgreSQL resolves by aborting one;
* in the notification service `markRead`, the lists, and the cleanup that
  deletes notifications after their retention; two permissions changed in one
  millisecond have one key and are one notification there too (`OccurredAtOf`);
* the event an invitation publishes when durable jobs are off, which no
  receiver keeps;
* the contents of migrations and seeds, the parsing of CSV, and locks of the
  database other than the runner's.

Not modelled at all: the creation of audit partitions (one idempotent
statement), the logs service (queries), the messaging package (a wrapper; its
at-most-once delivery is in `PermissionCaches`), forwarding and header signing
in the gateway, the shared helpers, the generated SDK, the front ends, scripts
and infrastructure. They keep no state that two actors share. Most of the lines
of the repository are of this kind (routes, user interface, generated clients,
tests), which is why the models stand for a small share of its lines and for
most of its shared state. What would be worth adding next are passkeys and
their counters, rate limits, and the session's expiry.
