------------------------------ MODULE JobQueue ------------------------------
(***************************************************************************)
(* The durable queue of packages/jobs: the tables jobs.job,                *)
(* jobs.job_attempt and jobs.job_retry_request and the PL/pgSQL functions  *)
(* that are the only way to change them.  Every function runs in one       *)
(* statement of one transaction, so each is one action.  A call whose      *)
(* WHERE clause matches no row returns false and changes nothing: it is a  *)
(* stuttering step and has no action here.                                 *)
(*                                                                         *)
(* Times are kept relative to the database clock, which makes the state    *)
(* space finite without bounding time: run_in is run_at - now (0 once the  *)
(* row is due), lease_left is lease_expires_at - now and age is            *)
(* now - updated_at of a terminal row (nothing reads it in other rows).    *)
(* Each is cut off where no comparison can tell it from a later value.     *)
(* Tick is one unit of database time.  The jobs service passes its own     *)
(* process clock to the reaper and to retention; it may differ from the    *)
(* database clock by up to MaxSkew units either way.                       *)
(***************************************************************************)
EXTENDS Integers, Sequences, FiniteSets

CONSTANTS
  JobId,         \* identities a row can have (uuidv7, never reused)
  Key,           \* the (source_service, type, idempotency_key) triples of producers
  RetryKey,      \* Idempotency-Key headers of the operator's retry requests
  Worker,        \* worker identities, e.g. "notification-<pid>"
  Service,       \* target services
  NULL,          \* SQL's NULL
  TargetOf,      \* Key -> Service: the contract's target_service
  PriorityOf,    \* Key -> priority
  MaxAttemptsOf, \* Key -> max_attempts
  ServiceOf,     \* Worker -> Service: jobs.worker_service
  MaxAttempts,   \* the largest max_attempts a contract declares
  ClaimLimit,    \* the largest p_limit of a claim (the worker's concurrency)
  Lease,         \* p_lease_ms, in units of time
  RunDelay,      \* run_at - now a producer may ask for
  RetryDelay,    \* retry_at - now that retryDelayMs may compute
  MaxSkew,       \* |process clock - database clock| of the jobs service
  Retention,     \* JOB_RETENTION_DAYS, in units of time
  CleanupBatch   \* p_batch_size of a retention pass

\* Configuration of the queue, checked by TLC and assumed by the proofs.
ASSUME ConstantsAssumption ==
  /\ NULL \notin Int
  /\ NULL \notin JobId \cup Key \cup Worker
  /\ MaxAttempts \in Nat \ {0}
  /\ TargetOf \in [Key -> Service]
  /\ PriorityOf \in [Key -> Int]
  /\ MaxAttemptsOf \in [Key -> 1..MaxAttempts]
  /\ ServiceOf \in [Worker -> Service]
  /\ ClaimLimit \in Nat \ {0}
  /\ Lease \in Nat \ {0}
  /\ RunDelay \subseteq Nat
  /\ RetryDelay \subseteq Nat
  /\ MaxSkew \in Nat
  /\ Retention \in Nat
  /\ CleanupBatch \in Nat \ {0}

VARIABLES
  job,               \* jobs.job
  job_attempt,       \* jobs.job_attempt, by job and attempt_number
  job_retry_request  \* jobs.job_retry_request

vars == <<job, job_attempt, job_retry_request>>

-----------------------------------------------------------------------------
AttemptNo == 1..MaxAttempts

Live == {"queued", "running", "retry_wait"}
Terminal == {"completed", "failed"}

\* The row of an identity that has not been given to a job yet, and the row
\* retention removed: identities are never given out twice.
NoRow(status) ==
  [status |-> status, key |-> NULL, retries |-> <<>>, attempt_count |-> 0,
   locked_by |-> NULL, lease_left |-> NULL, run_in |-> 0, age |-> 0,
   retry_of |-> NULL]

\* A freshly inserted row: the column defaults of jobs.job.
NewRow(key, retries, run_in, retry_of) ==
  [status |-> "queued", key |-> key, retries |-> retries, attempt_count |-> 0,
   locked_by |-> NULL, lease_left |-> NULL, run_in |-> run_in, age |-> 0,
   retry_of |-> retry_of]

NoAttempt == [worker_id |-> NULL, outcome |-> "none"]

Exists(j) == job[j].status \in Live \cup Terminal
Fresh(j) == job[j].status = "absent"

\* UNIQUE (source_service, type, idempotency_key).  The key of an operator's
\* retry is the key of its source with ':manual:<Idempotency-Key>' appended,
\* so a key is a producer's key and the retries that were appended to it.
KeyFree(key, retries) ==
  \A j \in JobId : Exists(j) => ~(job[j].key = key /\ job[j].retries = retries)

AttemptsLeft(j) == job[j].attempt_count < MaxAttemptsOf[job[j].key]

\* Mutation of HeldBy: without locked_by = p_worker_id.
HeldByAnyone(j, w) ==
  /\ job[j].status = "running"
  /\ TargetOf[job[j].key] = ServiceOf[w]

\* The WHERE clause of complete_job, fail_job and release_job, and their call
\* of assert_worker_target.
HeldBy(j, w) ==
  /\ job[j].status = "running"
  /\ job[j].locked_by = w
  /\ TargetOf[job[j].key] = ServiceOf[w]

\* Mutation of Unlocked: lease_expires_at is not reset.
UnlockedKeepingLease(j, status, run_in, age) ==
  [job[j] EXCEPT !.status = status, !.run_in = run_in, !.age = age,
                 !.locked_by = NULL]

\* The row after it leaves the running state; age 0 is updated_at = now.
Unlocked(j, status, run_in, age) ==
  [job[j] EXCEPT !.status = status, !.run_in = run_in, !.age = age,
                 !.locked_by = NULL, !.lease_left = NULL]

\* UPDATE jobs.job_attempt ... WHERE attempt_number = attempt_count
Close(j, outcome) ==
  [job_attempt[j] EXCEPT ![job[j].attempt_count].outcome = outcome]
-----------------------------------------------------------------------------
Init ==
  /\ job = [j \in JobId |-> NoRow("absent")]
  /\ job_attempt = [j \in JobId |-> [n \in AttemptNo |-> NoAttempt]]
  /\ job_retry_request = {}

\* Mutation of EnqueueJob: ON CONFLICT DO UPDATE queues the old row again.
EnqueueRevives(key, delay) ==
  /\ \E j \in JobId :
       /\ Fresh(j) \/ (Exists(j) /\ job[j].key = key /\ job[j].retries = <<>>)
       /\ job' = [job EXCEPT ![j] = NewRow(key, <<>>, delay, NULL)]
  /\ UNCHANGED <<job_attempt, job_retry_request>>

\* enqueue_job.  ON CONFLICT DO NOTHING: a key that is taken changes nothing.
EnqueueJob(key, delay) ==
  /\ KeyFree(key, <<>>)
  /\ \E j \in JobId :
       /\ Fresh(j)
       /\ job' = [job EXCEPT ![j] = NewRow(key, <<>>, delay, NULL)]
  /\ UNCHANGED <<job_attempt, job_retry_request>>

Claimable(w) ==
  {j \in JobId : /\ job[j].status \in {"queued", "retry_wait"}
                 /\ TargetOf[job[j].key] = ServiceOf[w]
                 /\ job[j].run_in <= 0}

\* ORDER BY priority DESC ... LIMIT: the first rows by priority.  The order of
\* rows of equal priority (run_at, created_at) is left open.
ClaimBatches(w, limit) ==
  {S \in SUBSET Claimable(w) :
     /\ Cardinality(S) <= limit
     /\ Cardinality(S) < limit => S = Claimable(w)
     /\ \A i \in S, c \in Claimable(w) \ S :
          PriorityOf[job[c].key] <= PriorityOf[job[i].key]}

\* claim_jobs.  SKIP LOCKED only ever skips rows another claim is taking, which
\* is the claims running one after the other.
ClaimBatch(w, S) ==
  /\ S # {}
  /\ job' = [j \in JobId |->
       IF j \in S
       THEN [job[j] EXCEPT !.status = "running", !.locked_by = w,
                           !.attempt_count = @ + 1, !.lease_left = Lease]
       ELSE job[j]]
  /\ job_attempt' = [j \in JobId |->
       IF j \in S
       THEN [job_attempt[j] EXCEPT ![job[j].attempt_count + 1] =
               [worker_id |-> w, outcome |-> "open"]]
       ELSE job_attempt[j]]
  /\ UNCHANGED job_retry_request

ClaimJobs(w, limit) == \E S \in ClaimBatches(w, limit) : ClaimBatch(w, S)

\* Mutation of HeartbeatJob: the lease is prolonged instead of set anew.
HeartbeatProlongs(j, w) ==
  /\ HeldBy(j, w)
  /\ job[j].lease_left > 0
  /\ job' = [job EXCEPT ![j].lease_left = @ + Lease]
  /\ UNCHANGED <<job_attempt, job_retry_request>>

\* heartbeat_job: only a lease that has not expired is renewed.
HeartbeatJob(j, w) ==
  /\ HeldBy(j, w)
  /\ job[j].lease_left > 0
  /\ job' = [job EXCEPT ![j].lease_left = Lease]
  /\ UNCHANGED <<job_attempt, job_retry_request>>

\* complete_job: the lock is checked, the lease is not.
CompleteJob(j, w) ==
  /\ HeldBy(j, w)
  /\ job' = [job EXCEPT ![j] = Unlocked(j, "completed", job[j].run_in, 0)]
  /\ job_attempt' = [job_attempt EXCEPT ![j] = Close(j, "completed")]
  /\ UNCHANGED job_retry_request

\* fail_job; DurableJobRuntime.fail computes retry_at from retryDelayMs.
FailJob(j, w, retryable, delay) ==
  /\ HeldBy(j, w)
  /\ IF retryable /\ AttemptsLeft(j)
     THEN /\ job' = [job EXCEPT ![j] = Unlocked(j, "retry_wait", delay, 0)]
          /\ job_attempt' = [job_attempt EXCEPT ![j] = Close(j, "retry")]
     ELSE /\ job' = [job EXCEPT ![j] = Unlocked(j, "failed", job[j].run_in, 0)]
          /\ job_attempt' = [job_attempt EXCEPT ![j] = Close(j, "failed")]
  /\ UNCHANGED job_retry_request

\* Mutation of ReleaseJob: a released job always waits for a retry.
ReleaseRequeues(j, w) ==
  /\ HeldBy(j, w)
  /\ job' = [job EXCEPT ![j] = Unlocked(j, "retry_wait", 0, 0)]
  /\ job_attempt' = [job_attempt EXCEPT ![j] = Close(j, "abandoned")]
  /\ UNCHANGED job_retry_request

\* Mutation of ReleaseJob: the attempt is given back to the budget.
ReleaseUncounts(j, w) ==
  /\ HeldBy(j, w)
  /\ job' = [job EXCEPT ![j] = [Unlocked(j, "retry_wait", 0, 0)
                                 EXCEPT !.attempt_count = @ - 1]]
  /\ job_attempt' = [job_attempt EXCEPT ![j] = Close(j, "abandoned")]
  /\ UNCHANGED job_retry_request

\* release_job: the attempt was counted by the claim and stays counted.
ReleaseJob(j, w) ==
  /\ HeldBy(j, w)
  /\ IF AttemptsLeft(j)
     THEN /\ job' = [job EXCEPT ![j] = Unlocked(j, "retry_wait", 0, 0)]
          /\ job_attempt' = [job_attempt EXCEPT ![j] = Close(j, "abandoned")]
     ELSE /\ job' = [job EXCEPT ![j] = Unlocked(j, "failed", job[j].run_in, 0)]
          /\ job_attempt' = [job_attempt EXCEPT ![j] = Close(j, "failed")]
  /\ UNCHANGED job_retry_request

\* The rows reap_expired_jobs(now + skew) updates.
Expired(skew) ==
  {j \in JobId : job[j].status = "running" /\ job[j].lease_left < skew}

\* p_now + 0 as a run_in: a run_at in the past is due like one of now.
DueAt(skew) == IF skew < 0 THEN 0 ELSE skew

\* Mutation of ReapExpiredJobs: the attempt rows are left open.
ReapLeavesAttempts(skew) ==
  /\ Expired(skew) # {}
  /\ job' = [j \in JobId |->
       CASE j \notin Expired(skew) -> job[j]
         [] j \in Expired(skew) /\ AttemptsLeft(j) ->
              Unlocked(j, "retry_wait", DueAt(skew), 0)
         [] OTHER -> Unlocked(j, "failed", job[j].run_in, -skew)]
  /\ UNCHANGED <<job_attempt, job_retry_request>>

\* Mutation of ReapExpiredJobs: only jobs with attempts left are recovered.
ReapRetryableOnly(skew) ==
  LET expired == {j \in Expired(skew) : AttemptsLeft(j)} IN
  /\ expired # {}
  /\ job' = [j \in JobId |->
       IF j \in expired THEN Unlocked(j, "retry_wait", DueAt(skew), 0) ELSE job[j]]
  /\ job_attempt' = [j \in JobId |->
       IF j \in expired THEN Close(j, "abandoned") ELSE job_attempt[j]]
  /\ UNCHANGED job_retry_request

\* reap_expired_jobs, called by every tick of the jobs service.
ReapExpiredJobs(skew) ==
  /\ Expired(skew) # {}
  /\ job' = [j \in JobId |->
       CASE j \notin Expired(skew) -> job[j]
         [] j \in Expired(skew) /\ AttemptsLeft(j) ->
              Unlocked(j, "retry_wait", DueAt(skew), 0)
         [] OTHER -> Unlocked(j, "failed", job[j].run_in, -skew)]
  /\ job_attempt' = [j \in JobId |->
       CASE j \notin Expired(skew) -> job_attempt[j]
         [] j \in Expired(skew) /\ AttemptsLeft(j) -> Close(j, "abandoned")
         [] OTHER -> Close(j, "failed")]
  /\ UNCHANGED job_retry_request

\* Mutation of CleanupTerminalJobs: without the cascade to retry requests.
CleanupKeepsRequests(skew) ==
  \E S \in SUBSET {j \in JobId : /\ job[j].status \in Terminal
                                 /\ job[j].age > Retention - skew} :
    /\ S # {}
    /\ Cardinality(S) <= CleanupBatch
    /\ job' = [j \in JobId |-> IF j \in S THEN NoRow("deleted") ELSE job[j]]
    /\ job_attempt' = [j \in JobId |->
         IF j \in S THEN [n \in AttemptNo |-> NoAttempt] ELSE job_attempt[j]]
    /\ UNCHANGED job_retry_request

\* cleanup_terminal_jobs(now + skew - Retention, CleanupBatch); attempts and
\* retry requests go with the row (ON DELETE CASCADE).  Which rows a full batch
\* takes (the oldest that are not locked) is left open.
CleanupTerminalJobs(skew) ==
  \E S \in SUBSET {j \in JobId : /\ job[j].status \in Terminal
                                 /\ job[j].age > Retention - skew} :
    /\ S # {}
    /\ Cardinality(S) <= CleanupBatch
    /\ job' = [j \in JobId |-> IF j \in S THEN NoRow("deleted") ELSE job[j]]
    /\ job_attempt' = [j \in JobId |->
         IF j \in S THEN [n \in AttemptNo |-> NoAttempt] ELSE job_attempt[j]]
    /\ job_retry_request' =
         {r \in job_retry_request :
            r.source_job_id \notin S /\ r.new_job_id \notin S}

\* Mutation of ManualRetryJob: the failed row itself is queued again.
RetryInPlace(source, header) ==
  /\ job[source].status = "failed"
  /\ job' = [job EXCEPT ![source].status = "queued", ![source].attempt_count = 0]
  /\ UNCHANGED <<job_attempt, job_retry_request>>

\* manual_retry_job.  A request that is known returns its job, and a derived key
\* that is taken raises: neither changes anything.
ManualRetryJob(source, header) ==
  /\ job[source].status = "failed"
  /\ \A r \in job_retry_request : r.idempotency_key # header
  /\ KeyFree(job[source].key, Append(job[source].retries, header))
  /\ \E j \in JobId :
       /\ Fresh(j)
       /\ job' = [job EXCEPT ![j] = NewRow(job[source].key,
                    Append(job[source].retries, header), 0, source)]
       /\ job_retry_request' = job_retry_request \cup
            {[source_job_id |-> source, idempotency_key |-> header,
              new_job_id |-> j]}
  /\ UNCHANGED job_attempt

LeaseFloor == -(MaxSkew + 1)
AgeCeiling == Retention + MaxSkew + 1

Tick ==
  /\ job' = [j \in JobId |->
       [job[j] EXCEPT
          !.run_in = IF @ > 0 THEN @ - 1 ELSE @,
          !.lease_left = IF job[j].status = "running" /\ @ > LeaseFloor
                         THEN @ - 1 ELSE @,
          !.age = IF job[j].status \in Terminal /\ @ < AgeCeiling
                  THEN @ + 1 ELSE @]]
  /\ UNCHANGED <<job_attempt, job_retry_request>>

Skew == -MaxSkew..MaxSkew

Next ==
  \/ \E key \in Key, delay \in RunDelay : EnqueueJob(key, delay)
  \/ \E w \in Worker, limit \in 1..ClaimLimit : ClaimJobs(w, limit)
  \/ \E j \in JobId, w \in Worker : HeartbeatJob(j, w)
  \/ \E j \in JobId, w \in Worker : CompleteJob(j, w)
  \/ \E j \in JobId, w \in Worker, retryable \in BOOLEAN, delay \in RetryDelay :
       FailJob(j, w, retryable, delay)
  \/ \E j \in JobId, w \in Worker : ReleaseJob(j, w)
  \/ \E skew \in Skew : ReapExpiredJobs(skew)
  \/ \E skew \in Skew : CleanupTerminalJobs(skew)
  \/ \E source \in JobId, header \in RetryKey : ManualRetryJob(source, header)
  \/ Tick

Spec == Init /\ [][Next]_vars
-----------------------------------------------------------------------------
Row ==
  [status : {"absent", "deleted"} \cup Live \cup Terminal,
   key : Key \cup {NULL}, retries : Seq(RetryKey),
   attempt_count : 0..MaxAttempts, locked_by : Worker \cup {NULL},
   lease_left : (LeaseFloor..Lease) \cup {NULL}, run_in : Nat,
   age : -MaxSkew..AgeCeiling, retry_of : JobId \cup {NULL}]

Settled == {"retry", "abandoned"}

AttemptRow ==
  [worker_id : Worker \cup {NULL},
   outcome : {"none", "open", "completed", "failed"} \cup Settled]

RetryRequest ==
  [source_job_id : JobId, idempotency_key : RetryKey, new_job_id : JobId]

\* Every row has the columns' types and CHECK constraints, and a key exactly when
\* it exists.
TypeOK ==
  /\ job \in [JobId -> Row]
  /\ \A j \in JobId : Exists(j) <=> job[j].key # NULL
  /\ job_attempt \in [JobId -> [AttemptNo -> AttemptRow]]
  /\ job_retry_request \subseteq RetryRequest

\* A lock and a lease are on a row exactly while it is running, whichever of
\* complete, fail, release and the reaper ended the attempt; and the worker that
\* holds it belongs to the job's target service.
LeaseMatchesStatus ==
  \A j \in JobId :
    /\ job[j].status = "running" <=> job[j].locked_by # NULL
    /\ job[j].status = "running" <=> job[j].lease_left # NULL
    /\ job[j].status = "running" =>
         TargetOf[job[j].key] = ServiceOf[job[j].locked_by]

\* max_attempts bounds the attempts of a job over any mix of handler failures,
\* shutdown releases and lost leases: a row that can be claimed has an attempt
\* left, and a job that was never claimed is still queued.
AttemptBudget ==
  \A j \in JobId :
    LET n == job[j].attempt_count IN
    /\ Exists(j) => n <= MaxAttemptsOf[job[j].key]
    /\ job[j].status = "retry_wait" => AttemptsLeft(j)
    /\ n = 0 <=> job[j].status \in {"absent", "deleted", "queued"}

\* jobs.job_attempt tells the history of the job: one row per claim, every row
\* but the last settled without ending the job, the last one open exactly while
\* the job runs (and held by the worker that locks the job), and otherwise closed
\* with the outcome that put the job in its present state.
AttemptLedger ==
  \A j \in JobId, n \in AttemptNo :
    LET a == job_attempt[j][n]
        last == job[j].attempt_count
        s == job[j].status
    IN /\ n > last => a = NoAttempt
       /\ n < last => a.outcome \in Settled
       /\ n = last =>
            /\ s = "running" <=> a.outcome = "open"
            /\ s = "running" => a.worker_id = job[j].locked_by
            /\ s = "retry_wait" => a.outcome \in Settled
            /\ s \in Terminal => a.outcome = s

\* An operator's request, while it is remembered, names a failed source that
\* still exists and the one job that was made from it, so repeating the header
\* returns that job; no header and no job stands in two requests.
RetryRequestsLinked ==
  /\ \A r \in job_retry_request :
       /\ job[r.source_job_id].status = "failed"
       /\ Exists(r.new_job_id)
       /\ job[r.new_job_id].retry_of = r.source_job_id
       /\ job[r.new_job_id].key = job[r.source_job_id].key
       /\ job[r.new_job_id].retries =
            Append(job[r.source_job_id].retries, r.idempotency_key)
  /\ \A r, q \in job_retry_request :
       \/ r.idempotency_key = q.idempotency_key
       \/ r.new_job_id = q.new_job_id
       => r = q

\* "The original row remains immutable": a terminal row and its attempts change
\* in no way until retention removes them, whatever stale worker, reaper or
\* operator still calls; and nothing comes back under an identity once removed.
TerminalImmutable ==
  [][\A j \in JobId :
       /\ job[j].status \in Terminal /\ job'[j].status # "deleted" =>
            /\ job'[j] = [job[j] EXCEPT !.age = job'[j].age]
            /\ job_attempt'[j] = job_attempt[j]
       /\ job[j].status = "deleted" => job'[j].status = "deleted"]_vars

\* The attempt history is append only: a closed attempt keeps its worker and its
\* outcome for as long as the job exists, and an attempt is opened only by the
\* step that counts it.
AttemptsAppendOnly ==
  [][\A j \in JobId, n \in AttemptNo :
       /\ /\ job_attempt[j][n].outcome \notin {"none", "open"}
          /\ job'[j].status # "deleted"
          => job_attempt'[j][n] = job_attempt[j][n]
       /\ job_attempt[j][n].outcome = "none" /\ job_attempt'[j][n].outcome # "none"
          => job'[j].attempt_count = n /\ job[j].attempt_count = n - 1]_vars

\* The queue implements the abstract life of a job: no interleaving of its
\* functions takes a job along an edge the state model does not have, resurrects
\* an ended job or attempts it beyond its budget.
Lifecycle == INSTANCE JobLifecycle WITH
  Job <- JobId,
  MaxBudget <- MaxAttempts,
  lifecycle <- [j \in JobId |->
    [state |-> IF job[j].status = "deleted" THEN "forgotten" ELSE job[j].status,
     attempts |-> job[j].attempt_count,
     budget |-> IF Exists(j) THEN MaxAttemptsOf[job[j].key] ELSE 0]]

ImplementsLifecycle == Lifecycle!Spec
=============================================================================
