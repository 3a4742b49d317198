---------------------------- MODULE JobScheduler ----------------------------
(***************************************************************************)
(* The scheduler of the jobs service (class DurableJobScheduler) and one   *)
(* row of jobs.job_schedule.  Every interval each instance of the service  *)
(* starts a tick: it claims the row if it is due, creates one job per      *)
(* missed occurrence with a call each, and completes the row with the time *)
(* of the next occurrence.  Ticks are started by setInterval whether the   *)
(* last one has ended or not, so ticks of one instance run side by side,   *)
(* like those of several instances; an instance is known to the row only   *)
(* by its scheduler id "jobs-<pid>".                                       *)
(*                                                                         *)
(* Time is counted in units of the schedules' grid up to the bound         *)
(* Horizon.  A cron expression is the set of the times it stands for.      *)
(***************************************************************************)
EXTENDS Integers, FiniteSets, FiniteSetsExt

CONSTANTS
  TickRun,           \* ticks that may be in progress at once
  IdOf,              \* TickRun -> scheduler id
  Cron,              \* cron expressions the registered contract may have
  Occurs,            \* Cron -> the times of its occurrences
  CatchUpLimit,      \* JOB_SCHEDULE_CATCH_UP_LIMIT
  MaxOccurrenceScan, \* MAX_OCCURRENCE_SCAN
  ScheduleLease,     \* p_lease_ms of claim_due_schedules
  Horizon,           \* bound: time stops here
  NULL

\* Every expression has an occurrence after the horizon, as a cron expression
\* never ends.
ASSUME SchedulerAssumption ==
  /\ NULL \notin Int
  /\ NULL \notin {IdOf[r] : r \in TickRun} \cup Cron
  /\ DOMAIN IdOf = TickRun
  /\ Horizon \in Nat
  /\ Occurs \in [Cron -> SUBSET Nat]
  /\ \A c \in Cron : \E t \in Occurs[c] : t > Horizon
  /\ CatchUpLimit \in Nat \ {0}
  /\ MaxOccurrenceScan \in Nat \ {0}
  /\ ScheduleLease \in Nat \ {0}

VARIABLES
  schedule,  \* the row of jobs.job_schedule
  tick,      \* by run: the tick in progress
  created,   \* planned times with a job: the keys 'schedule:<code>:<time>'
  now,       \* time
  since      \* history: when the row last took over a definition

vars == <<schedule, tick, created, now, since>>

-----------------------------------------------------------------------------
Idle == [phase |-> "idle", cron |-> NULL, now |-> 0, todo |-> {}, last |-> NULL]

nextOccurrence(cron, t) == Min({o \in Occurs[cron] : o > t})

\* The first n and the last n of a set of times.
Earliest(n, S) == {t \in S : Cardinality({u \in S : u < t}) < n}
Latest(n, S) == {t \in S : Cardinality({u \in S : u > t}) < n}

\* Mutation of dueOccurrences: the bound is tested after the occurrence is added.
DueAndNext(cron, first, t) ==
  Earliest(MaxOccurrenceScan, {o \in Occurs[cron] : first <= o /\ o <= t + 1})

dueOccurrences(cron, first, t) ==
  Earliest(MaxOccurrenceScan, {o \in Occurs[cron] : first <= o /\ o <= t})

\* due.slice(-catchUpLimit)
Emitted(due) == Latest(CatchUpLimit, due)

\* A tick up to its first await: what it will emit, and the last run it will
\* record.  due is empty when a stale completion has left the row an earlier
\* definition's next run.
Materialize(row, t) ==
  LET due == dueOccurrences(row.cron, row.next_run_at, t) IN
  [phase |-> "emitting", cron |-> row.cron, now |-> t, todo |-> Emitted(due),
   last |-> IF due # {} THEN Max(due)
            ELSE IF row.last_run_at # NULL THEN row.last_run_at ELSE t]
-----------------------------------------------------------------------------
\* The first start of the service: sync_job_schedule inserts the row.
Init ==
  /\ \E cron \in Cron :
       schedule = [cron |-> cron, enabled |-> TRUE,
                   next_run_at |-> nextOccurrence(cron, 0), last_run_at |-> NULL,
                   locked_by |-> NULL, lease_expires_at |-> NULL]
  /\ tick = [r \in TickRun |-> Idle]
  /\ created = {}
  /\ now = 0
  /\ since = 0

\* synchronize at the start of an instance whose registry has the schedule: the
\* next run is kept unless the definition changed.  The lock is not looked at.
Synchronize(cron, enabled) ==
  LET changed == schedule.cron # cron IN
  /\ schedule' = [schedule EXCEPT
       !.cron = cron, !.enabled = enabled,
       !.next_run_at = IF changed THEN nextOccurrence(cron, now) ELSE @]
  /\ since' = IF changed THEN now ELSE since
  /\ UNCHANGED <<tick, created, now>>

\* disable_missing_job_schedules at the start of an instance without it.
DisableMissing ==
  /\ schedule' = [schedule EXCEPT !.enabled = FALSE]
  /\ UNCHANGED <<tick, created, now, since>>

Due ==
  /\ schedule.enabled
  /\ schedule.next_run_at <= now

Claimable ==
  schedule.lease_expires_at # NULL => schedule.lease_expires_at < now

\* Mutation of ClaimDue: a row that is locked is never taken over.
ClaimUnlocked(r) ==
  /\ tick[r].phase = "idle"
  /\ Due
  /\ schedule.lease_expires_at = NULL
  /\ schedule' = [schedule EXCEPT !.locked_by = IdOf[r],
                                  !.lease_expires_at = now + ScheduleLease]
  /\ tick' = [tick EXCEPT ![r] = Materialize(schedule, now)]
  /\ UNCHANGED <<created, now, since>>

\* claim_due_schedules, and materialize up to its first await.  An answer that
\* is lost leaves the row locked (bound: not so late that the lease would outlast
\* the horizon).
ClaimDue(r) ==
  /\ tick[r].phase = "idle"
  /\ Due
  /\ Claimable
  /\ schedule' = [schedule EXCEPT !.locked_by = IdOf[r],
                                  !.lease_expires_at = now + ScheduleLease]
  /\ \/ tick' = [tick EXCEPT ![r] = Materialize(schedule, now)]
     \/ now + ScheduleLease < Horizon /\ UNCHANGED tick
  /\ UNCHANGED <<created, now, since>>

\* One enqueueJob of materialize's loop; a key that is taken creates nothing.
EmitOccurrence(r) ==
  /\ tick[r].phase = "emitting"
  /\ tick[r].todo # {}
  /\ LET planned == Min(tick[r].todo) IN
       /\ created' = created \cup {planned}
       /\ tick' = [tick EXCEPT ![r].todo = @ \ {planned}]
  /\ UNCHANGED <<schedule, now, since>>

\* Mutation of CompleteSchedule: the next run is computed from the time the call
\* is made.
CompleteLate(r) ==
  /\ tick[r].phase = "emitting"
  /\ tick[r].todo = {}
  /\ schedule' =
       IF schedule.locked_by = IdOf[r]
       THEN [schedule EXCEPT
               !.last_run_at = tick[r].last,
               !.next_run_at = nextOccurrence(tick[r].cron, now),
               !.locked_by = NULL, !.lease_expires_at = NULL]
       ELSE schedule
  /\ tick' = [tick EXCEPT ![r] = Idle]
  /\ UNCHANGED <<created, now, since>>

\* complete_job_schedule: its answer false is ignored.
CompleteSchedule(r) ==
  /\ tick[r].phase = "emitting"
  /\ tick[r].todo = {}
  /\ schedule' =
       IF schedule.locked_by = IdOf[r]
       THEN [schedule EXCEPT
               !.last_run_at = tick[r].last,
               !.next_run_at = nextOccurrence(tick[r].cron, tick[r].now),
               !.locked_by = NULL, !.lease_expires_at = NULL]
       ELSE schedule
  /\ tick' = [tick EXCEPT ![r] = Idle]
  /\ UNCHANGED <<created, now, since>>

\* A call of the tick fails, or its process dies: the row stays locked.  Bound:
\* not so late that the lease would outlast the horizon.
TickFails(r) ==
  /\ tick[r].phase = "emitting"
  /\ tick[r].now + ScheduleLease < Horizon
  /\ tick' = [tick EXCEPT ![r] = Idle]
  /\ UNCHANGED <<schedule, created, now, since>>

Pass ==
  /\ now < Horizon
  /\ now' = now + 1
  /\ UNCHANGED <<schedule, tick, created, since>>

TickStep(r) == ClaimDue(r) \/ EmitOccurrence(r) \/ CompleteSchedule(r)

Next ==
  \/ \E cron \in Cron, enabled \in BOOLEAN : Synchronize(cron, enabled)
  \/ DisableMissing
  \/ \E r \in TickRun : TickStep(r) \/ TickFails(r)
  \/ Pass

Spec == Init /\ [][Next]_vars

\* setInterval starts ticks for as long as an instance runs, and the calls of a
\* tick are answered or fail.  Nothing is assumed about Synchronize.
FairSpec == Spec /\ WF_vars(Pass) /\ \A r \in TickRun : WF_vars(TickStep(r))
-----------------------------------------------------------------------------
\* The columns of the row keep their types, a lock has a lease, and a tick that
\* has been claimed emits at most the catch-up limit of times that have come
\* (claim_due_schedules, materialize).
SchedulerTypeOK ==
  /\ now \in 0 .. Horizon
  /\ since \in 0 .. now
  /\ schedule.cron \in Cron
  /\ schedule.enabled \in BOOLEAN
  /\ \E c \in Cron : schedule.next_run_at \in Occurs[c]
  /\ schedule.last_run_at = NULL \/ schedule.last_run_at \in 1 .. now
  /\ (schedule.locked_by = NULL) <=> (schedule.lease_expires_at = NULL)
  /\ schedule.locked_by # NULL =>
       /\ schedule.locked_by \in {IdOf[r] : r \in TickRun}
       /\ schedule.lease_expires_at <= now + ScheduleLease
  /\ created \subseteq 1 .. now
  /\ \A r \in TickRun : tick[r] = Idle \/
       /\ tick[r].phase = "emitting"
       /\ tick[r].now \in 0 .. now
       /\ tick[r].todo \subseteq Occurs[tick[r].cron] \cap (1 .. tick[r].now)
       /\ Cardinality(tick[r].todo) <= CatchUpLimit
       /\ tick[r].last \in 1 .. tick[r].now

\* The row never moves past an occurrence without its job: of the occurrences of
\* its definition between the moment it took the definition over and its next
\* run, the latest ones, as many as the catch-up limit allows, have a job; older
\* ones may have been skipped.  It must survive ticks that fail halfway, that
\* outlive their lease, and that complete a later tick's claim because their
\* instances have the same id (materialize, complete_job_schedule).
LatestOccurrencesEmitted ==
  Latest(CatchUpLimit, {t \in Occurs[schedule.cron] :
                          since < t /\ t < schedule.next_run_at})
    \subseteq created

\* A schedule that stays enabled is never stuck behind a dead tick's lock or thrown
\* back for ever by overlapping ticks: in the end the row is past the horizon
\* and unlocked, and stays so (claim_due_schedules).
ScheduleSettles ==
  <>[]schedule.enabled =>
    <>[](schedule.next_run_at > Horizon /\ schedule.locked_by = NULL)
=============================================================================
