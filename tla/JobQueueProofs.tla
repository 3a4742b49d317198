--------------------------- MODULE JobQueueProofs ---------------------------
(***************************************************************************)
(* Proofs about JobQueue for every value of its constants.                 *)
(*                                                                         *)
(* What the queue keeps of a job is a row and its attempts, and every      *)
(* function of the queue changes them job by job.  The inductive invariant *)
(* is therefore a predicate of one row and its attempts (Sound), holding   *)
(* of every job; each change of a row is a lemma about values, and each    *)
(* action only shows which change it makes.                                *)
(***************************************************************************)
EXTENDS JobQueue, TLAPS

\* TypeOK, LeaseMatchesStatus and AttemptBudget, of one row.
RowSound(r) ==
  /\ r \in Row
  /\ r.status \in Live \cup Terminal <=> r.key # NULL
  /\ r.status = "running" <=> r.locked_by # NULL
  /\ r.status = "running" <=> r.lease_left # NULL
  /\ r.status = "running" => TargetOf[r.key] = ServiceOf[r.locked_by]
  /\ r.key # NULL => r.attempt_count <= MaxAttemptsOf[r.key]
  /\ r.status = "retry_wait" => r.attempt_count < MaxAttemptsOf[r.key]
  /\ r.attempt_count = 0 <=> r.status \in {"absent", "deleted", "queued"}

\* AttemptLedger, of one row and its attempts.
LedgerSound(r, attempts) ==
  /\ attempts \in [AttemptNo -> AttemptRow]
  /\ \A n \in AttemptNo :
       /\ n > r.attempt_count => attempts[n] = NoAttempt
       /\ n < r.attempt_count => attempts[n].outcome \in Settled
       /\ n = r.attempt_count =>
            /\ r.status = "running" <=> attempts[n].outcome = "open"
            /\ r.status = "running" => attempts[n].worker_id = r.locked_by
            /\ r.status = "retry_wait" => attempts[n].outcome \in Settled
            /\ r.status \in Terminal => attempts[n].outcome = r.status

Sound(r, attempts) == RowSound(r) /\ LedgerSound(r, attempts)

\* The inductive invariant.
QueueInv ==
  /\ job = [j \in JobId |-> job[j]]
  /\ job_attempt = [j \in JobId |-> job_attempt[j]]
  /\ \A j \in JobId : Sound(job[j], job_attempt[j])
  /\ job_retry_request \subseteq RetryRequest

-----------------------------------------------------------------------------
\* The changes of one row.

\* A row that stands for no job, and its empty history.
LEMMA NoRowSound ==
  ASSUME NEW status \in {"absent", "deleted"}
  PROVE  Sound(NoRow(status), [n \in AttemptNo |-> NoAttempt])
<1>1. NoRow(status) \in Row
  BY ConstantsAssumption DEF NoRow, Row, Live, Terminal, LeaseFloor, AgeCeiling
<1>2. RowSound(NoRow(status))
  BY <1>1, ConstantsAssumption DEF RowSound, NoRow, Live, Terminal
<1>3. LedgerSound(NoRow(status), [n \in AttemptNo |-> NoAttempt])
  BY ConstantsAssumption DEF LedgerSound, NoRow, NoAttempt, AttemptNo, AttemptRow
<1> QED BY <1>2, <1>3 DEF Sound

\* An inserted row takes over the empty history of a fresh identity.
LEMMA NewRowSound ==
  ASSUME NEW r, NEW attempts, Sound(r, attempts), r.status = "absent",
         NEW key \in Key, NEW retries \in Seq(RetryKey), NEW run_in \in Nat,
         NEW retry_of \in JobId \cup {NULL}
  PROVE  Sound(NewRow(key, retries, run_in, retry_of), attempts)
<1> DEFINE new == NewRow(key, retries, run_in, retry_of)
<1>1. new \in Row
  BY ConstantsAssumption DEF NewRow, Row, Live, Terminal, LeaseFloor, AgeCeiling
<1>2. RowSound(new)
  BY <1>1, ConstantsAssumption DEF RowSound, NewRow, Live, Terminal
<1>3. r.attempt_count = 0
  BY DEF Sound, RowSound
<1>4. new.attempt_count = 0 /\ new.status = "queued"
  BY DEF NewRow
<1>5. LedgerSound(new, attempts)
  BY <1>3, <1>4, ConstantsAssumption DEF Sound, LedgerSound, AttemptNo
<1> QED BY <1>2, <1>5 DEF Sound

\* claim_jobs: the claimed row of a worker of the job's target service.
LEMMA ClaimedSound ==
  ASSUME NEW r, NEW attempts, Sound(r, attempts), NEW w \in Worker,
         r.status \in {"queued", "retry_wait"}, TargetOf[r.key] = ServiceOf[w]
  PROVE  Sound([r EXCEPT !.status = "running", !.locked_by = w,
                         !.attempt_count = @ + 1, !.lease_left = Lease],
               [attempts EXCEPT ![r.attempt_count + 1] =
                  [worker_id |-> w, outcome |-> "open"]])
<1> DEFINE n == r.attempt_count
           c == [r EXCEPT !.status = "running", !.locked_by = w,
                          !.attempt_count = @ + 1, !.lease_left = Lease]
           a == [attempts EXCEPT ![n + 1] = [worker_id |-> w, outcome |-> "open"]]
<1>1. r \in Row /\ n \in 0..MaxAttempts /\ r.key \in Key
  BY DEF Sound, RowSound, Row, Live
<1>2. n < MaxAttemptsOf[r.key] /\ MaxAttemptsOf[r.key] \in 1..MaxAttempts
  <2>1. MaxAttemptsOf[r.key] \in 1..MaxAttempts
    BY <1>1, ConstantsAssumption
  <2>2. CASE r.status = "queued"
    <3>1. n = 0
      BY <2>2 DEF Sound, RowSound
    <3> QED BY <2>1, <3>1, ConstantsAssumption
  <2>3. CASE r.status = "retry_wait"
    BY <2>1, <2>3 DEF Sound, RowSound
  <2> QED BY <2>1, <2>2, <2>3
<1>3. n + 1 \in AttemptNo /\ n + 1 \in 0..MaxAttempts
  BY <1>1, <1>2, ConstantsAssumption DEF AttemptNo
<1>4. /\ c.status = "running" /\ c.locked_by = w /\ c.attempt_count = n + 1
      /\ c.lease_left = Lease /\ c.key = r.key
  BY <1>1 DEF Row
<1>5. c \in Row
  <2>1. Lease \in LeaseFloor..Lease
    BY ConstantsAssumption DEF LeaseFloor
  <2> QED BY <1>1, <1>3, <2>1 DEF Row, Live
<1>6. RowSound(c)
  <2>1. w # NULL /\ Lease # NULL /\ r.key # NULL
    BY <1>1, ConstantsAssumption
  <2>2. n + 1 <= MaxAttemptsOf[r.key] /\ n + 1 # 0
    BY <1>1, <1>2, ConstantsAssumption
  <2> HIDE DEF c, n
  <2> QED BY <1>4, <1>5, <2>1, <2>2 DEF RowSound, Live
<1>7. LedgerSound(c, a)
  <2>1. a \in [AttemptNo -> AttemptRow]
    BY <1>3 DEF Sound, LedgerSound, AttemptRow
  <2>2. a[n + 1] = [worker_id |-> w, outcome |-> "open"]
    BY <1>3 DEF Sound, LedgerSound
  <2>3. ASSUME NEW m \in AttemptNo, m # n + 1 PROVE a[m] = attempts[m]
    BY <2>3 DEF Sound, LedgerSound
  <2>4. ASSUME NEW m \in AttemptNo, m > n + 1 PROVE a[m] = NoAttempt
    BY <1>1, <2>3, <2>4 DEF Sound, LedgerSound, AttemptNo
  <2>5. ASSUME NEW m \in AttemptNo, m < n + 1 PROVE a[m].outcome \in Settled
    <3>1. a[m] = attempts[m]
      BY <1>1, <2>3, <2>5 DEF AttemptNo
    <3>2. CASE m < n
      BY <3>1, <3>2 DEF Sound, LedgerSound
    <3>3. CASE m = n
      <4>1. n # 0
        BY <3>3 DEF AttemptNo
      <4>2. r.status = "retry_wait"
        BY <4>1 DEF Sound, RowSound
      <4> QED BY <3>1, <3>3, <4>2 DEF Sound, LedgerSound
    <3> QED BY <1>1, <2>5, <3>2, <3>3 DEF AttemptNo
  <2> HIDE DEF a, c, n
  <2> QED BY <1>4, <2>1, <2>2, <2>4, <2>5 DEF LedgerSound, Terminal
<1> QED BY <1>6, <1>7 DEF Sound

\* complete_job, fail_job, release_job and the reaper: the attempt is closed
\* with an outcome that fits the status the row leaves the running state for.
LEMMA UnlockedSound ==
  ASSUME NEW r, NEW attempts, Sound(r, attempts), r.status = "running",
         NEW status, NEW outcome, NEW run_in \in Nat,
         NEW age \in -MaxSkew..AgeCeiling,
         \/ status \in Terminal /\ outcome = status
         \/ /\ status = "retry_wait" /\ outcome \in Settled
            /\ r.attempt_count < MaxAttemptsOf[r.key]
  PROVE  Sound([r EXCEPT !.status = status, !.run_in = run_in, !.age = age,
                         !.locked_by = NULL, !.lease_left = NULL],
               [attempts EXCEPT ![r.attempt_count].outcome = outcome])
<1> DEFINE n == r.attempt_count
           u == [r EXCEPT !.status = status, !.run_in = run_in, !.age = age,
                          !.locked_by = NULL, !.lease_left = NULL]
           a == [attempts EXCEPT ![n].outcome = outcome]
<1>1. r \in Row /\ n \in 0..MaxAttempts /\ r.key # NULL /\ n # 0
  BY DEF Sound, RowSound, Row, Live
<1>2. n \in AttemptNo
  BY <1>1, ConstantsAssumption DEF AttemptNo
<1>3. /\ u.status = status /\ u.locked_by = NULL /\ u.lease_left = NULL
      /\ u.key = r.key /\ u.attempt_count = n
  BY <1>1 DEF Row
<1>4. status \in {"retry_wait", "completed", "failed"}
  BY DEF Terminal
<1>5. u \in Row
  BY <1>1, <1>4 DEF Row, Live, Terminal
<1>6. RowSound(u)
  <2>1. n <= MaxAttemptsOf[r.key]
    BY <1>1 DEF Sound, RowSound
  <2>2. status = "retry_wait" => n < MaxAttemptsOf[r.key]
    BY DEF Terminal
  <2> HIDE DEF u, n
  <2> QED BY <1>1, <1>3, <1>4, <1>5, <2>1, <2>2 DEF RowSound, Live, Terminal
<1>7. LedgerSound(u, a)
  <2>1. attempts \in [AttemptNo -> AttemptRow]
    BY DEF Sound, LedgerSound
  <2>2. outcome \in {"completed", "failed"} \cup Settled
    BY DEF Terminal
  <2>3. [attempts[n] EXCEPT !.outcome = outcome] \in AttemptRow
    BY <1>2, <2>1, <2>2 DEF AttemptRow
  <2>4. a = [attempts EXCEPT ![n] = [attempts[n] EXCEPT !.outcome = outcome]]
    BY <1>2, <2>1
  <2>5. a \in [AttemptNo -> AttemptRow]
    BY <1>2, <2>1, <2>3, <2>4
  <2>6. a[n].outcome = outcome
    BY <1>2, <2>1, <2>4 DEF AttemptRow
  <2>7. ASSUME NEW m \in AttemptNo, m # n PROVE a[m] = attempts[m]
    BY <2>1, <2>4, <2>7
  <2>8. ASSUME NEW m \in AttemptNo, m > n PROVE a[m] = NoAttempt
    BY <1>1, <2>7, <2>8 DEF Sound, LedgerSound, AttemptNo
  <2>9. ASSUME NEW m \in AttemptNo, m < n PROVE a[m].outcome \in Settled
    BY <1>1, <2>7, <2>9 DEF Sound, LedgerSound, AttemptNo
  <2>10. outcome # "open"
    BY <2>2 DEF Settled
  <2> HIDE DEF a, u, n
  <2> QED BY <1>3, <1>4, <2>5, <2>6, <2>8, <2>9, <2>10 DEF LedgerSound, Terminal
<1> QED BY <1>6, <1>7 DEF Sound

\* heartbeat_job and the passing of time change no field that is compared.
LEMMA TimedSound ==
  ASSUME NEW r, NEW attempts, Sound(r, attempts),
         NEW run_in \in Nat, NEW age \in -MaxSkew..AgeCeiling,
         NEW lease_left \in (LeaseFloor..Lease) \cup {NULL},
         lease_left = NULL <=> r.lease_left = NULL
  PROVE  Sound([r EXCEPT !.run_in = run_in, !.lease_left = lease_left,
                         !.age = age], attempts)
<1> DEFINE t == [r EXCEPT !.run_in = run_in, !.lease_left = lease_left,
                          !.age = age]
<1>1. r \in Row
  BY DEF Sound, RowSound
<1>2. /\ t.status = r.status /\ t.locked_by = r.locked_by /\ t.key = r.key
      /\ t.attempt_count = r.attempt_count /\ t.lease_left = lease_left
  BY <1>1 DEF Row
<1>3. t \in Row
  BY <1>1 DEF Row
<1> HIDE DEF t
<1>4. RowSound(t)
  BY <1>2, <1>3 DEF Sound, RowSound
<1>5. LedgerSound(t, attempts)
  BY <1>2 DEF Sound, LedgerSound
<1> QED BY <1>4, <1>5 DEF Sound, t
-----------------------------------------------------------------------------
\* The initial state and the steps of the queue.

LEMMA InitInv == Init => QueueInv
<1> SUFFICES ASSUME Init PROVE QueueInv
  OBVIOUS
<1>1. \A j \in JobId :
        job[j] = NoRow("absent") /\ job_attempt[j] = [n \in AttemptNo |-> NoAttempt]
  BY DEF Init
<1> QED BY <1>1, NoRowSound DEF Init, QueueInv

LEMMA EnqueueInv ==
  ASSUME QueueInv, NEW key \in Key, NEW delay \in RunDelay, EnqueueJob(key, delay)
  PROVE  QueueInv'
<1>1. PICK k \in JobId :
        Fresh(k) /\ job' = [job EXCEPT ![k] = NewRow(key, <<>>, delay, NULL)]
  BY DEF EnqueueJob
<1>2. Sound(NewRow(key, <<>>, delay, NULL), job_attempt[k])
  <2>1. <<>> \in Seq(RetryKey) /\ delay \in Nat
    BY ConstantsAssumption
  <2> QED BY <1>1, <2>1, NewRowSound DEF QueueInv, Fresh
<1>3. \A j \in JobId : Sound(job'[j], job_attempt[j])
  BY <1>1, <1>2 DEF QueueInv
<1> QED BY <1>1, <1>3 DEF QueueInv, EnqueueJob

LEMMA ClaimInv ==
  ASSUME QueueInv, NEW w \in Worker, NEW limit \in 1..ClaimLimit,
         ClaimJobs(w, limit)
  PROVE  QueueInv'
<1>1. PICK S \in ClaimBatches(w, limit) : ClaimBatch(w, S)
  BY DEF ClaimJobs
<1>2. \A j \in S : /\ j \in JobId /\ job[j].status \in {"queued", "retry_wait"}
                   /\ TargetOf[job[j].key] = ServiceOf[w]
  BY DEF ClaimBatches, Claimable
<1>3. ASSUME NEW j \in JobId PROVE Sound(job'[j], job_attempt'[j])
  <2>1. CASE j \in S
    <3>1. /\ job'[j] = [job[j] EXCEPT !.status = "running", !.locked_by = w,
                                      !.attempt_count = @ + 1, !.lease_left = Lease]
          /\ job_attempt'[j] = [job_attempt[j] EXCEPT ![job[j].attempt_count + 1] =
                                  [worker_id |-> w, outcome |-> "open"]]
      BY <1>1, <2>1 DEF ClaimBatch
    <3>2. Sound([job[j] EXCEPT !.status = "running", !.locked_by = w,
                               !.attempt_count = @ + 1, !.lease_left = Lease],
                [job_attempt[j] EXCEPT ![job[j].attempt_count + 1] =
                   [worker_id |-> w, outcome |-> "open"]])
      <4>1. Sound(job[j], job_attempt[j])
        BY DEF QueueInv
      <4> QED BY <1>2, <2>1, <4>1, ClaimedSound
    <3> QED BY <3>1, <3>2
  <2>2. CASE j \notin S
    BY <1>1, <2>2 DEF ClaimBatch, QueueInv
  <2> QED BY <2>1, <2>2
<1> QED BY <1>1, <1>3 DEF QueueInv, ClaimBatch

LEMMA HeartbeatInv ==
  ASSUME QueueInv, NEW j \in JobId, NEW w \in Worker, HeartbeatJob(j, w)
  PROVE  QueueInv'
<1> DEFINE r == job[j]
<1>1. r.run_in \in Nat /\ r.age \in -MaxSkew..AgeCeiling /\ r \in Row
  BY DEF QueueInv, Sound, RowSound, Row
<1>2. r.lease_left # NULL
  BY DEF QueueInv, Sound, RowSound, HeartbeatJob, HeldBy
<1>3. Lease \in LeaseFloor..Lease /\ Lease # NULL
  BY ConstantsAssumption DEF LeaseFloor
<1>4. Sound([r EXCEPT !.run_in = r.run_in, !.lease_left = Lease, !.age = r.age],
            job_attempt[j])
  BY <1>1, <1>2, <1>3, TimedSound DEF QueueInv
<1>5. [r EXCEPT !.run_in = r.run_in, !.lease_left = Lease, !.age = r.age]
        = [r EXCEPT !.lease_left = Lease]
  BY <1>1 DEF Row
<1>6. job' = [job EXCEPT ![j] = [r EXCEPT !.lease_left = Lease]]
  BY DEF HeartbeatJob
<1>7. \A i \in JobId : Sound(job'[i], job_attempt[i])
  BY <1>4, <1>5, <1>6 DEF QueueInv
<1> QED BY <1>6, <1>7 DEF QueueInv, HeartbeatJob

\* The two halves of an ended attempt, as the actions write them.
LEMMA EndedSound ==
  ASSUME QueueInv, NEW j \in JobId, job[j].status = "running",
         NEW status, NEW outcome, NEW run_in \in Nat,
         NEW age \in -MaxSkew..AgeCeiling,
         \/ status \in Terminal /\ outcome = status
         \/ status = "retry_wait" /\ outcome \in Settled /\ AttemptsLeft(j)
  PROVE  Sound(Unlocked(j, status, run_in, age), Close(j, outcome))
<1>1. Sound(job[j], job_attempt[j])
  BY DEF QueueInv
<1>2. \/ status \in Terminal /\ outcome = status
      \/ /\ status = "retry_wait" /\ outcome \in Settled
         /\ job[j].attempt_count < MaxAttemptsOf[job[j].key]
  BY DEF AttemptsLeft
<1> QED BY <1>1, <1>2, UnlockedSound DEF Unlocked, Close

\* One ended attempt and nothing else.
LEMMA EndedInv ==
  ASSUME QueueInv, NEW j \in JobId, NEW r, NEW attempts, Sound(r, attempts),
         job' = [job EXCEPT ![j] = r],
         job_attempt' = [job_attempt EXCEPT ![j] = attempts],
         UNCHANGED job_retry_request
  PROVE  QueueInv'
<1>1. \A i \in JobId : Sound(job'[i], job_attempt'[i])
  BY DEF QueueInv
<1> QED BY <1>1 DEF QueueInv

\* updated_at = now is an age like any other.
LEMMA AgeZero == 0 \in -MaxSkew..AgeCeiling
BY ConstantsAssumption DEF AgeCeiling

\* The columns of a row of the queue that the actions compute with.
LEMMA Columns ==
  ASSUME QueueInv, NEW j \in JobId
  PROVE  /\ job[j] \in Row
         /\ job[j].run_in \in Nat
         /\ job[j].age \in -MaxSkew..AgeCeiling
         /\ job[j].lease_left \in (LeaseFloor..Lease) \cup {NULL}
         /\ job[j].status = "running" <=> job[j].lease_left # NULL
BY DEF QueueInv, Sound, RowSound, Row

LEMMA CompleteInv ==
  ASSUME QueueInv, NEW j \in JobId, NEW w \in Worker, CompleteJob(j, w)
  PROVE  QueueInv'
<1>1. Sound(Unlocked(j, "completed", job[j].run_in, 0), Close(j, "completed"))
  BY EndedSound, Columns, AgeZero DEF CompleteJob, HeldBy, Terminal
<1> QED BY <1>1, EndedInv DEF CompleteJob

LEMMA FailInv ==
  ASSUME QueueInv, NEW j \in JobId, NEW w \in Worker, NEW retryable \in BOOLEAN,
         NEW delay \in RetryDelay, FailJob(j, w, retryable, delay)
  PROVE  QueueInv'
<1>1. job[j].status = "running"
  BY DEF FailJob, HeldBy
<1>2. CASE retryable /\ AttemptsLeft(j)
  <2>1. Sound(Unlocked(j, "retry_wait", delay, 0), Close(j, "retry"))
    BY <1>1, <1>2, EndedSound, AgeZero, ConstantsAssumption DEF Settled
  <2> QED BY <1>2, <2>1, EndedInv DEF FailJob
<1>3. CASE ~(retryable /\ AttemptsLeft(j))
  <2>1. Sound(Unlocked(j, "failed", job[j].run_in, 0), Close(j, "failed"))
    BY <1>1, EndedSound, Columns, AgeZero DEF Terminal
  <2> QED BY <1>3, <2>1, EndedInv DEF FailJob
<1> QED BY <1>2, <1>3

LEMMA ReleaseInv ==
  ASSUME QueueInv, NEW j \in JobId, NEW w \in Worker, ReleaseJob(j, w)
  PROVE  QueueInv'
<1>1. job[j].status = "running"
  BY DEF ReleaseJob, HeldBy
<1>2. CASE AttemptsLeft(j)
  <2>1. Sound(Unlocked(j, "retry_wait", 0, 0), Close(j, "abandoned"))
    BY <1>1, <1>2, EndedSound, AgeZero DEF Settled
  <2> QED BY <1>2, <2>1, EndedInv DEF ReleaseJob
<1>3. CASE ~AttemptsLeft(j)
  <2>1. Sound(Unlocked(j, "failed", job[j].run_in, 0), Close(j, "failed"))
    BY <1>1, EndedSound, Columns, AgeZero DEF Terminal
  <2> QED BY <1>3, <2>1, EndedInv DEF ReleaseJob
<1> QED BY <1>2, <1>3

LEMMA ReapInv ==
  ASSUME QueueInv, NEW skew \in Skew, ReapExpiredJobs(skew)
  PROVE  QueueInv'
<1>1. DueAt(skew) \in Nat /\ -skew \in -MaxSkew..AgeCeiling
  BY ConstantsAssumption DEF DueAt, Skew, AgeCeiling
<1>2. ASSUME NEW j \in JobId PROVE Sound(job'[j], job_attempt'[j])
  <2>1. CASE j \notin Expired(skew)
    BY <2>1 DEF ReapExpiredJobs, QueueInv
  <2>2. CASE j \in Expired(skew) /\ AttemptsLeft(j)
    <3>1. Sound(Unlocked(j, "retry_wait", DueAt(skew), 0), Close(j, "abandoned"))
      BY <1>1, <2>2, EndedSound, AgeZero DEF Expired, Settled
    <3> QED BY <2>2, <3>1 DEF ReapExpiredJobs
  <2>3. CASE j \in Expired(skew) /\ ~AttemptsLeft(j)
    <3>1. Sound(Unlocked(j, "failed", job[j].run_in, -skew), Close(j, "failed"))
      BY <1>1, <2>3, EndedSound, Columns DEF Expired, Terminal
    <3> QED BY <2>3, <3>1 DEF ReapExpiredJobs
  <2> QED BY <2>1, <2>2, <2>3
<1> QED BY <1>2 DEF QueueInv, ReapExpiredJobs

LEMMA CleanupInv ==
  ASSUME QueueInv, NEW skew \in Skew, CleanupTerminalJobs(skew)
  PROVE  QueueInv'
<1>1. PICK S :
        /\ job' = [j \in JobId |-> IF j \in S THEN NoRow("deleted") ELSE job[j]]
        /\ job_attempt' = [j \in JobId |->
             IF j \in S THEN [n \in AttemptNo |-> NoAttempt] ELSE job_attempt[j]]
        /\ job_retry_request' \subseteq job_retry_request
  BY DEF CleanupTerminalJobs
<1>2. ASSUME NEW j \in JobId PROVE Sound(job'[j], job_attempt'[j])
  BY <1>1, NoRowSound DEF QueueInv
<1> QED BY <1>1, <1>2 DEF QueueInv

LEMMA ManualRetryInv ==
  ASSUME QueueInv, NEW source \in JobId, NEW header \in RetryKey,
         ManualRetryJob(source, header)
  PROVE  QueueInv'
<1> DEFINE new == NewRow(job[source].key, Append(job[source].retries, header),
                         0, source)
<1>1. PICK k \in JobId :
        /\ Fresh(k)
        /\ job' = [job EXCEPT ![k] = new]
        /\ job_retry_request' = job_retry_request \cup
             {[source_job_id |-> source, idempotency_key |-> header,
               new_job_id |-> k]}
  BY DEF ManualRetryJob
<1>2. job[source].key \in Key /\ Append(job[source].retries, header) \in Seq(RetryKey)
  BY DEF ManualRetryJob, QueueInv, Sound, RowSound, Row, Terminal
<1>3. Sound(new, job_attempt[k])
  BY <1>1, <1>2, NewRowSound DEF QueueInv, Fresh
<1>4. \A j \in JobId : Sound(job'[j], job_attempt[j])
  BY <1>1, <1>3 DEF QueueInv
<1> QED BY <1>1, <1>4 DEF QueueInv, ManualRetryJob, RetryRequest

LEMMA TickInv == ASSUME QueueInv, Tick PROVE QueueInv'
<1>1. ASSUME NEW j \in JobId PROVE Sound(job'[j], job_attempt[j])
  <2> DEFINE r == job[j]
             run_in == IF r.run_in > 0 THEN r.run_in - 1 ELSE r.run_in
             lease_left == IF r.status = "running" /\ r.lease_left > LeaseFloor
                           THEN r.lease_left - 1 ELSE r.lease_left
             age == IF r.status \in Terminal /\ r.age < AgeCeiling
                    THEN r.age + 1 ELSE r.age
  <2>1. run_in \in Nat
    BY Columns
  <2>2. age \in -MaxSkew..AgeCeiling
    BY Columns, ConstantsAssumption DEF AgeCeiling
  <2>3. lease_left \in (LeaseFloor..Lease) \cup {NULL}
    BY Columns, ConstantsAssumption DEF LeaseFloor
  <2>4. lease_left = NULL <=> r.lease_left = NULL
    BY Columns, ConstantsAssumption DEF LeaseFloor
  <2>5. job'[j] = [r EXCEPT !.run_in = run_in, !.lease_left = lease_left,
                            !.age = age]
    BY DEF Tick
  <2>6. Sound(r, job_attempt[j])
    BY DEF QueueInv
  <2>7. Sound([r EXCEPT !.run_in = run_in, !.lease_left = lease_left,
                        !.age = age], job_attempt[j])
    <3> HIDE DEF r, run_in, lease_left, age
    <3> QED BY <2>1, <2>2, <2>3, <2>4, <2>6, TimedSound
  <2> QED BY <2>5, <2>7
<1> QED BY <1>1 DEF Tick, QueueInv

-----------------------------------------------------------------------------
\* What the invariant says of the properties.

LEMMA StepInv == QueueInv /\ [Next]_vars => QueueInv'
<1> SUFFICES ASSUME QueueInv, [Next]_vars PROVE QueueInv'
  OBVIOUS
<1>1. ASSUME NEW key \in Key, NEW delay \in RunDelay, EnqueueJob(key, delay)
      PROVE  QueueInv'
  BY <1>1, EnqueueInv
<1>2. ASSUME NEW w \in Worker, NEW limit \in 1..ClaimLimit, ClaimJobs(w, limit)
      PROVE  QueueInv'
  BY <1>2, ClaimInv
<1>3. ASSUME NEW j \in JobId, NEW w \in Worker, HeartbeatJob(j, w)
      PROVE  QueueInv'
  BY <1>3, HeartbeatInv
<1>4. ASSUME NEW j \in JobId, NEW w \in Worker, CompleteJob(j, w)
      PROVE  QueueInv'
  BY <1>4, CompleteInv
<1>5. ASSUME NEW j \in JobId, NEW w \in Worker, NEW retryable \in BOOLEAN,
             NEW delay \in RetryDelay, FailJob(j, w, retryable, delay)
      PROVE  QueueInv'
  BY <1>5, FailInv
<1>6. ASSUME NEW j \in JobId, NEW w \in Worker, ReleaseJob(j, w)
      PROVE  QueueInv'
  BY <1>6, ReleaseInv
<1>7. ASSUME NEW skew \in Skew, ReapExpiredJobs(skew) PROVE QueueInv'
  BY <1>7, ReapInv
<1>8. ASSUME NEW skew \in Skew, CleanupTerminalJobs(skew) PROVE QueueInv'
  BY <1>8, CleanupInv
<1>9. ASSUME NEW source \in JobId, NEW header \in RetryKey,
             ManualRetryJob(source, header)
      PROVE  QueueInv'
  BY <1>9, ManualRetryInv
<1>10. CASE Tick
  BY <1>10, TickInv
<1>11. CASE UNCHANGED vars
  BY <1>11 DEF vars, QueueInv
<1> QED
  BY <1>1, <1>2, <1>3, <1>4, <1>5, <1>6, <1>7, <1>8, <1>9, <1>10, <1>11 DEF Next

LEMMA InvTypeOK == QueueInv => TypeOK
<1> SUFFICES ASSUME QueueInv PROVE TypeOK
  OBVIOUS
<1>1. job \in [JobId -> Row]
  BY Columns DEF QueueInv
<1>2. \A j \in JobId : Exists(j) <=> job[j].key # NULL
  BY DEF QueueInv, Sound, RowSound, Exists
<1>3. job_attempt \in [JobId -> [AttemptNo -> AttemptRow]]
  BY DEF QueueInv, Sound, LedgerSound
<1> QED BY <1>1, <1>2, <1>3 DEF TypeOK, QueueInv

LEMMA InvLease == QueueInv => LeaseMatchesStatus
BY DEF QueueInv, Sound, RowSound, LeaseMatchesStatus

LEMMA InvBudget == QueueInv => AttemptBudget
BY DEF QueueInv, Sound, RowSound, AttemptBudget, Exists, AttemptsLeft

LEMMA InvLedger == QueueInv => AttemptLedger
BY DEF QueueInv, Sound, LedgerSound, AttemptLedger

\* The invariant holds in every state of every behaviour.
THEOREM QueueInvariant == Spec => []QueueInv
BY InitInv, StepInv, PTL DEF Spec

\* Columns keep their types and CHECK constraints, and a row has a key exactly
\* while it exists, whatever the queue's functions are called with.
THEOREM TypeCorrect == Spec => []TypeOK
BY QueueInvariant, InvTypeOK, PTL

\* A lock and a lease are on a row exactly while it runs: complete_job, fail_job,
\* release_job and reap_expired_jobs all take both away, for any number of
\* workers and any skew of the reaper's clock.
THEOREM LeaseCorrect == Spec => []LeaseMatchesStatus
BY QueueInvariant, InvLease, PTL

\* No mix of failures, releases and expired leases attempts a job more often than
\* its max_attempts, and a row that waits for a retry has an attempt left.
THEOREM BudgetCorrect == Spec => []AttemptBudget
BY QueueInvariant, InvBudget, PTL

\* jobs.job_attempt is the history of its job: one row per claim, closed with the
\* outcome that ended the attempt.
THEOREM LedgerCorrect == Spec => []AttemptLedger
BY QueueInvariant, InvLedger, PTL
=============================================================================
