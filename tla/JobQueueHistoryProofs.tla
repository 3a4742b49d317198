------------------------ MODULE JobQueueHistoryProofs ------------------------
(***************************************************************************)
(* More proofs about JobQueue: retry requests, what a step may never do,   *)
(* and that the queue implements JobLifecycle.  They all rest on one       *)
(* lemma, StepChanges: whatever function of the queue is called, a job is  *)
(* kept, claimed, ended, inserted or removed.                              *)
(***************************************************************************)
EXTENDS JobQueueProofs

SameJob(j) ==
  /\ job'[j].key = job[j].key
  /\ job'[j].retries = job[j].retries
  /\ job'[j].retry_of = job[j].retry_of

JobKept(j) ==
  /\ SameJob(j)
  /\ job'[j].status = job[j].status /\ job'[j].attempt_count = job[j].attempt_count
  /\ job[j].status = "running" => job'[j].run_in = job[j].run_in
  /\ job[j].status \in Terminal => job'[j] = [job[j] EXCEPT !.age = job'[j].age]
  /\ job_attempt'[j] = job_attempt[j]

JobClaimed(j) ==
  /\ SameJob(j)
  /\ job[j].status \in {"queued", "retry_wait"} /\ job'[j].status = "running"
  /\ job'[j].attempt_count = job[j].attempt_count + 1
  /\ job[j].run_in = 0 /\ job'[j].run_in = 0
  /\ \E w \in Worker :
       job_attempt'[j] = [job_attempt[j] EXCEPT ![job[j].attempt_count + 1] =
                            [worker_id |-> w, outcome |-> "open"]]

JobEnded(j) ==
  /\ SameJob(j)
  /\ job[j].status = "running" /\ job'[j].attempt_count = job[j].attempt_count
  /\ \/ job'[j].status \in Terminal /\ job'[j].run_in = job[j].run_in
     \/ job'[j].status = "retry_wait" /\ AttemptsLeft(j)
  /\ \E outcome : job_attempt'[j] = Close(j, outcome)

JobInserted(j) ==
  /\ Fresh(j) /\ job'[j].status = "queued" /\ job'[j].attempt_count = 0
  /\ job'[j].key \in Key
  /\ job_attempt'[j] = job_attempt[j]

JobRemoved(j) ==
  /\ job[j].status \in Terminal
  /\ job'[j] = NoRow("deleted") /\ job_attempt'[j] = [n \in AttemptNo |-> NoAttempt]

Change(j) == JobKept(j) \/ JobClaimed(j) \/ JobEnded(j) \/ JobInserted(j) \/ JobRemoved(j)

\* The requests that stay are of jobs that stay.
RequestsStay ==
  \A r \in job_retry_request' :
    /\ r \in job_retry_request
    /\ ~JobRemoved(r.source_job_id) /\ ~JobRemoved(r.new_job_id)

\* The request a manual retry adds, and its job.
RequestAdded(source, header, j) ==
  /\ job[source].status = "failed"
  /\ \A r \in job_retry_request : r.idempotency_key # header
  /\ JobInserted(j) /\ job'[j].retry_of = source /\ job'[j].key = job[source].key
  /\ job'[j].retries = Append(job[source].retries, header)
  /\ \A i \in JobId : ~JobRemoved(i)
  /\ job_retry_request' = job_retry_request \cup
       {[source_job_id |-> source, idempotency_key |-> header, new_job_id |-> j]}

Changes ==
  /\ \A j \in JobId : Change(j)
  /\ \/ RequestsStay
     \/ \E source, j \in JobId, header \in RetryKey : RequestAdded(source, header, j)

-----------------------------------------------------------------------------
LEMMA Same ==
  ASSUME NEW j \in JobId, QueueInv, job'[j] = job[j], job_attempt'[j] = job_attempt[j]
  PROVE  JobKept(j) /\ ~JobRemoved(j)
<1>1. job[j] \in Row
  BY Columns
<1>2. job[j] = [job[j] EXCEPT !.age = job[j].age]
  BY <1>1 DEF Row
<1>3. ~JobRemoved(j)
  BY DEF JobRemoved, NoRow, Terminal
<1> QED BY <1>2, <1>3 DEF JobKept, SameJob

\* A step that inserts and removes nothing, and touches no request.
LEMMA Quiet ==
  ASSUME \A j \in JobId : JobKept(j) \/ JobClaimed(j) \/ JobEnded(j),
         QueueInv, UNCHANGED job_retry_request
  PROVE  Changes
<1>1. ASSUME NEW j \in JobId PROVE Change(j) /\ ~JobRemoved(j)
  <2>1. CASE JobKept(j)
    BY <2>1 DEF Change, JobKept, JobRemoved, NoRow, Terminal
  <2>2. CASE JobClaimed(j)
    BY <2>2 DEF Change, JobClaimed, JobRemoved, NoRow
  <2>3. CASE JobEnded(j)
    BY <2>3 DEF Change, JobEnded, JobRemoved, Terminal
  <2> QED BY <2>1, <2>2, <2>3
<1>2. RequestsStay
  BY <1>1 DEF RequestsStay, QueueInv, RetryRequest
<1> QED BY <1>1, <1>2 DEF Changes

LEMMA ClaimChanges ==
  ASSUME QueueInv, NEW w \in Worker, NEW limit \in 1..ClaimLimit, ClaimJobs(w, limit)
  PROVE  Changes
<1>1. PICK S \in ClaimBatches(w, limit) : ClaimBatch(w, S)
  BY DEF ClaimJobs
<1>2. ASSUME NEW j \in JobId PROVE JobKept(j) \/ JobClaimed(j)
  <2>1. CASE j \notin S
    BY <1>1, <2>1, Same DEF ClaimBatch
  <2>2. CASE j \in S
    <3> DEFINE r == job[j]
               c == [r EXCEPT !.status = "running", !.locked_by = w,
                              !.attempt_count = @ + 1, !.lease_left = Lease]
    <3>0. r \in Row /\ r.run_in \in Nat /\ j \in Claimable(w)
      BY <1>1, <2>2, Columns DEF ClaimBatches
    <3>1. /\ r \in Row /\ r.status \in {"queued", "retry_wait"} /\ r.run_in = 0
          /\ job'[j] = c
      <4>1. r.status \in {"queued", "retry_wait"} /\ r.run_in <= 0
        BY <3>0 DEF Claimable
      <4>2. job'[j] = c
        BY <1>1, <2>2 DEF ClaimBatch
      <4> QED BY <3>0, <4>1, <4>2
    <3>2. /\ c.key = r.key /\ c.retries = r.retries /\ c.retry_of = r.retry_of
          /\ c.status = "running" /\ c.attempt_count = r.attempt_count + 1
          /\ c.run_in = r.run_in
      <4> HIDE DEF r
      <4> QED BY <3>1 DEF Row
    <3>3. job_attempt'[j] = [job_attempt[j] EXCEPT ![job[j].attempt_count + 1] =
                               [worker_id |-> w, outcome |-> "open"]]
      BY <1>1, <2>2 DEF ClaimBatch
    <3> HIDE DEF c
    <3> QED BY <3>1, <3>2, <3>3 DEF JobClaimed, SameJob
  <2> QED BY <2>1, <2>2
<1> QED BY <1>1, <1>2, Quiet DEF ClaimBatch

LEMMA HeartbeatChanges ==
  ASSUME QueueInv, NEW j \in JobId, NEW w \in Worker, HeartbeatJob(j, w)
  PROVE  Changes
<1>1. ASSUME NEW i \in JobId PROVE JobKept(i)
  <2>1. CASE i # j
    BY <2>1, Same DEF HeartbeatJob, QueueInv
  <2>2. CASE i = j
    <3> DEFINE r == job[j]
               h == [r EXCEPT !.lease_left = Lease]
    <3>1. r \in Row /\ r.status = "running" /\ job'[j] = h
          /\ job_attempt'[j] = job_attempt[j]
      BY Columns DEF HeartbeatJob, HeldBy, QueueInv
    <3>2. /\ h.key = r.key /\ h.retries = r.retries /\ h.retry_of = r.retry_of
          /\ h.status = r.status /\ h.attempt_count = r.attempt_count
          /\ h.run_in = r.run_in
      <4> HIDE DEF r
      <4> QED BY <3>1 DEF Row
    <3> HIDE DEF h
    <3> QED BY <2>2, <3>1, <3>2 DEF JobKept, SameJob, Terminal
  <2> QED BY <2>1, <2>2
<1> QED BY <1>1, Quiet DEF HeartbeatJob

\* An attempt that ends, as the actions write it.
LEMMA Ended ==
  ASSUME QueueInv, NEW j \in JobId, job[j].status = "running",
         NEW status, NEW outcome, NEW run_in, NEW age,
         job'[j] = Unlocked(j, status, run_in, age), job_attempt'[j] = Close(j, outcome),
         \/ status \in Terminal /\ run_in = job[j].run_in
         \/ status = "retry_wait" /\ AttemptsLeft(j)
  PROVE  JobEnded(j)
<1> DEFINE r == job[j]
           u == [r EXCEPT !.status = status, !.run_in = run_in, !.age = age,
                          !.locked_by = NULL, !.lease_left = NULL]
<1>1. r \in Row /\ job'[j] = u
  BY Columns DEF Unlocked
<1>2. /\ u.key = r.key /\ u.retries = r.retries /\ u.retry_of = r.retry_of
      /\ u.status = status /\ u.attempt_count = r.attempt_count /\ u.run_in = run_in
  <2> HIDE DEF r
  <2> QED BY <1>1 DEF Row
<1> HIDE DEF u
<1> QED BY <1>1, <1>2 DEF JobEnded, SameJob

\* One attempt that ends, and nothing else.
Ends(j, status, outcome, run_in, age) ==
  /\ job[j].status = "running"
  /\ job' = [job EXCEPT ![j] = Unlocked(j, status, run_in, age)]
  /\ job_attempt' = [job_attempt EXCEPT ![j] = Close(j, outcome)]
  /\ UNCHANGED job_retry_request
  /\ \/ status \in Terminal /\ run_in = job[j].run_in
     \/ status = "retry_wait" /\ AttemptsLeft(j)

LEMMA OneEnded ==
  ASSUME QueueInv, NEW j \in JobId, NEW status, NEW outcome, NEW run_in, NEW age,
         Ends(j, status, outcome, run_in, age)
  PROVE  Changes
<1>1. JobEnded(j)
  <2>1. job'[j] = Unlocked(j, status, run_in, age) /\ job_attempt'[j] = Close(j, outcome)
    BY DEF Ends, QueueInv
  <2> QED BY <2>1, Ended DEF Ends
<1>2. \A i \in JobId : i # j => JobKept(i)
  BY Same DEF Ends, QueueInv
<1> QED BY <1>1, <1>2, Quiet DEF Ends

LEMMA WorkerChanges ==
  ASSUME QueueInv, NEW j \in JobId, NEW w \in Worker,
         \/ CompleteJob(j, w)
         \/ \E retryable \in BOOLEAN, delay \in RetryDelay : FailJob(j, w, retryable, delay)
         \/ ReleaseJob(j, w)
  PROVE  Changes
<1>1. \E status, outcome, run_in, age : Ends(j, status, outcome, run_in, age)
  <2>1. CASE CompleteJob(j, w)
    <3>1. Ends(j, "completed", "completed", job[j].run_in, 0)
      BY <2>1 DEF CompleteJob, HeldBy, Ends, Terminal
    <3> QED BY <3>1
  <2>2. CASE \E retryable \in BOOLEAN, delay \in RetryDelay : FailJob(j, w, retryable, delay)
    <3>1. PICK retryable \in BOOLEAN, delay \in RetryDelay : FailJob(j, w, retryable, delay)
      BY <2>2
    <3>2. \/ Ends(j, "retry_wait", "retry", delay, 0)
          \/ Ends(j, "failed", "failed", job[j].run_in, 0)
      BY <3>1 DEF FailJob, HeldBy, Ends, Terminal
    <3> QED BY <3>2
  <2>3. CASE ReleaseJob(j, w)
    <3>1. \/ Ends(j, "retry_wait", "abandoned", 0, 0)
          \/ Ends(j, "failed", "failed", job[j].run_in, 0)
      BY <2>3 DEF ReleaseJob, HeldBy, Ends, Terminal
    <3> QED BY <3>1
  <2> QED BY <2>1, <2>2, <2>3
<1> QED BY <1>1, OneEnded

LEMMA ReapChanges ==
  ASSUME QueueInv, NEW skew \in Skew, ReapExpiredJobs(skew)
  PROVE  Changes
<1>1. ASSUME NEW j \in JobId PROVE JobKept(j) \/ JobEnded(j)
  <2>1. CASE j \notin Expired(skew)
    BY <2>1, Same DEF ReapExpiredJobs
  <2>2. CASE j \in Expired(skew) /\ AttemptsLeft(j)
    <3>1. /\ job'[j] = Unlocked(j, "retry_wait", DueAt(skew), 0)
          /\ job_attempt'[j] = Close(j, "abandoned") /\ job[j].status = "running"
      BY <2>2 DEF ReapExpiredJobs, Expired
    <3> QED BY <2>2, <3>1, Ended
  <2>3. CASE j \in Expired(skew) /\ ~AttemptsLeft(j)
    <3>1. /\ job'[j] = Unlocked(j, "failed", job[j].run_in, -skew)
          /\ job_attempt'[j] = Close(j, "failed") /\ job[j].status = "running"
          /\ "failed" \in Terminal
      BY <2>3 DEF ReapExpiredJobs, Expired, Terminal
    <3> QED BY <3>1, Ended
  <2> QED BY <2>1, <2>2, <2>3
<1> QED BY <1>1, Quiet DEF ReapExpiredJobs

\* A job that was claimed is due, and stays so while it runs and when it has
\* ended: the clock does not change a terminal row.
DueInv == \A j \in JobId : job[j].status \in {"running"} \cup Terminal => job[j].run_in = 0

LEMMA TickChanges == ASSUME QueueInv, DueInv, Tick PROVE Changes
<1> USE DEF DueInv
<1>1. ASSUME NEW j \in JobId PROVE JobKept(j)
  <2> DEFINE r == job[j]
             run_in == IF r.run_in > 0 THEN r.run_in - 1 ELSE r.run_in
             lease_left == IF r.status = "running" /\ r.lease_left > LeaseFloor
                           THEN r.lease_left - 1 ELSE r.lease_left
             age == IF r.status \in Terminal /\ r.age < AgeCeiling
                    THEN r.age + 1 ELSE r.age
             n == [r EXCEPT !.run_in = run_in, !.lease_left = lease_left, !.age = age]
  <2>1. r \in Row /\ r.run_in \in Nat
    BY Columns
  <2>2. job'[j] = n /\ job_attempt'[j] = job_attempt[j]
    BY DEF Tick
  <2>3. r.status \in {"running"} \cup Terminal => run_in = r.run_in
    OBVIOUS
  <2>4. r.status \in Terminal => lease_left = r.lease_left
    BY DEF Terminal
  <2> HIDE DEF r, run_in, lease_left, age
  <2>5. /\ n.key = r.key /\ n.retries = r.retries /\ n.retry_of = r.retry_of
        /\ n.status = r.status /\ n.attempt_count = r.attempt_count
        /\ n.run_in = run_in /\ n.age = age
    BY <2>1 DEF Row
  <2>6. run_in = r.run_in /\ lease_left = r.lease_left => n = [r EXCEPT !.age = age]
    BY <2>1 DEF Row
  <2> HIDE DEF n
  <2> QED BY <2>2, <2>3, <2>4, <2>5, <2>6 DEF JobKept, SameJob, r
<1> QED BY <1>1, Quiet DEF Tick

LEMMA EnqueueChanges ==
  ASSUME QueueInv, NEW key \in Key, NEW delay \in RunDelay, EnqueueJob(key, delay)
  PROVE  Changes
<1>1. PICK j \in JobId : Fresh(j) /\ job' = [job EXCEPT ![j] = NewRow(key, <<>>, delay, NULL)]
  BY DEF EnqueueJob
<1>2. JobInserted(j)
  <2>1. job'[j] = NewRow(key, <<>>, delay, NULL)
    BY <1>1 DEF QueueInv
  <2> QED BY <1>1, <2>1 DEF JobInserted, NewRow, EnqueueJob
<1>3. ASSUME NEW i \in JobId, i # j PROVE JobKept(i) /\ ~JobRemoved(i)
  BY <1>1, <1>3, Same DEF QueueInv, EnqueueJob
<1>4. ~JobRemoved(j)
  BY <1>1 DEF JobRemoved, Fresh, Terminal
<1>5. RequestsStay
  BY <1>3, <1>4 DEF RequestsStay, EnqueueJob, QueueInv, RetryRequest
<1> QED BY <1>2, <1>3, <1>5 DEF Changes, Change

LEMMA CleanupChanges ==
  ASSUME QueueInv, NEW skew \in Skew, CleanupTerminalJobs(skew)
  PROVE  Changes
<1>1. PICK S \in SUBSET {j \in JobId : job[j].status \in Terminal /\ job[j].age > Retention - skew} :
        /\ job' = [j \in JobId |-> IF j \in S THEN NoRow("deleted") ELSE job[j]]
        /\ job_attempt' = [j \in JobId |->
             IF j \in S THEN [n \in AttemptNo |-> NoAttempt] ELSE job_attempt[j]]
        /\ job_retry_request' = {r \in job_retry_request :
             r.source_job_id \notin S /\ r.new_job_id \notin S}
  BY DEF CleanupTerminalJobs
<1>2. ASSUME NEW j \in S PROVE JobRemoved(j)
  BY <1>1 DEF JobRemoved
<1>3. ASSUME NEW j \in JobId, j \notin S PROVE JobKept(j) /\ ~JobRemoved(j)
  BY <1>1, <1>3, Same
<1>4. RequestsStay
  BY <1>1, <1>3 DEF RequestsStay, QueueInv, RetryRequest
<1> QED BY <1>2, <1>3, <1>4 DEF Changes, Change

LEMMA ManualRetryChanges ==
  ASSUME QueueInv, NEW source \in JobId, NEW header \in RetryKey,
         ManualRetryJob(source, header)
  PROVE  Changes
<1> DEFINE retries == Append(job[source].retries, header)
           new == NewRow(job[source].key, retries, 0, source)
<1>1. PICK j \in JobId :
        /\ Fresh(j) /\ job' = [job EXCEPT ![j] = new]
        /\ job_retry_request' = job_retry_request \cup
             {[source_job_id |-> source, idempotency_key |-> header, new_job_id |-> j]}
  BY DEF ManualRetryJob
<1>2. job[source].key \in Key
  BY DEF ManualRetryJob, QueueInv, Sound, RowSound, Row, Terminal
<1>3. /\ job'[j].key = job[source].key /\ job'[j].retries = retries
      /\ job'[j].retry_of = source /\ job'[j].status = "queued"
      /\ job'[j].attempt_count = 0
  BY <1>1 DEF QueueInv, NewRow
<1>4. JobInserted(j)
  BY <1>1, <1>2, <1>3 DEF JobInserted, ManualRetryJob
<1>5. ASSUME NEW i \in JobId, i # j PROVE JobKept(i) /\ ~JobRemoved(i)
  BY <1>1, <1>5, Same DEF QueueInv, ManualRetryJob
<1>6. ~JobRemoved(j)
  BY <1>1 DEF JobRemoved, Fresh, Terminal
<1>7. RequestAdded(source, header, j)
  BY <1>1, <1>3, <1>4, <1>5, <1>6 DEF RequestAdded, ManualRetryJob
<1> QED BY <1>4, <1>5, <1>7 DEF Changes, Change

\* Every step of the queue.
LEMMA StepChanges == QueueInv /\ DueInv /\ [Next]_vars => Changes
<1> SUFFICES ASSUME QueueInv, DueInv, [Next]_vars PROVE Changes
  OBVIOUS
<1>1. CASE \E key \in Key, delay \in RunDelay : EnqueueJob(key, delay)
  BY <1>1, EnqueueChanges
<1>2. CASE \E w \in Worker, limit \in 1..ClaimLimit : ClaimJobs(w, limit)
  BY <1>2, ClaimChanges
<1>3. CASE \E j \in JobId, w \in Worker : HeartbeatJob(j, w)
  BY <1>3, HeartbeatChanges
<1>4. CASE \E j \in JobId, w \in Worker :
             \/ CompleteJob(j, w)
             \/ \E retryable \in BOOLEAN, delay \in RetryDelay : FailJob(j, w, retryable, delay)
             \/ ReleaseJob(j, w)
  BY <1>4, WorkerChanges
<1>5. CASE \E skew \in Skew : ReapExpiredJobs(skew) \/ CleanupTerminalJobs(skew)
  BY <1>5, ReapChanges, CleanupChanges
<1>6. CASE \E source \in JobId, header \in RetryKey : ManualRetryJob(source, header)
  BY <1>6, ManualRetryChanges
<1>7. CASE Tick
  BY <1>7, TickChanges
<1>8. CASE UNCHANGED vars
  BY <1>8, Same, Quiet DEF vars
<1> QED BY <1>1, <1>2, <1>3, <1>4, <1>5, <1>6, <1>7, <1>8 DEF Next

-----------------------------------------------------------------------------
\* The inductive invariant.
HistoryInv == QueueInv /\ DueInv /\ RetryRequestsLinked

\* Who exists, and who is a job of the same key.
LEMMA Existence ==
  ASSUME NEW j \in JobId, Change(j)
  PROVE  /\ Exists(j)' => (Exists(j) /\ SameJob(j)) \/ JobInserted(j)
         /\ Exists(j) => (Exists(j)' /\ SameJob(j)) \/ JobRemoved(j)
         /\ job[j].status = "failed" => job'[j].status = "failed" \/ JobRemoved(j)
BY DEF Change, JobKept, JobClaimed, JobEnded, JobInserted, JobRemoved, Exists, Fresh,
       NoRow, Live, Terminal

LEMMA DueStep == QueueInv /\ DueInv /\ Changes => DueInv'
<1> SUFFICES ASSUME QueueInv, DueInv, NEW j \in JobId, Change(j),
                    job'[j].status \in {"running"} \cup Terminal
             PROVE  job'[j].run_in = 0
  BY DEF DueInv, Changes
<1>1. CASE JobKept(j)
  <2>1. CASE job[j].status = "running"
    BY <1>1, <2>1 DEF JobKept, DueInv
  <2>2. CASE job[j].status \in Terminal
    <3>1. job[j] \in Row /\ job'[j] = [job[j] EXCEPT !.age = job'[j].age]
      BY <1>1, <2>2, Columns DEF JobKept
    <3>2. job'[j].run_in = job[j].run_in
      BY <3>1 DEF Row
    <3> QED BY <2>2, <3>2 DEF DueInv
  <2> QED BY <1>1, <2>1, <2>2 DEF JobKept
<1>2. CASE JobClaimed(j)
  BY <1>2 DEF JobClaimed
<1>3. CASE JobEnded(j)
  BY <1>3 DEF JobEnded, DueInv, Terminal
<1>4. CASE JobInserted(j) \/ JobRemoved(j)
  BY <1>4 DEF JobInserted, JobRemoved, NoRow, Terminal
<1> QED BY <1>1, <1>2, <1>3, <1>4 DEF Change

\* What RetryRequestsLinked says of one request.
Linked(r) ==
  /\ job[r.source_job_id].status = "failed"
  /\ Exists(r.new_job_id)
  /\ job[r.new_job_id].retry_of = r.source_job_id
  /\ job[r.new_job_id].key = job[r.source_job_id].key
  /\ job[r.new_job_id].retries =
       Append(job[r.source_job_id].retries, r.idempotency_key)

LEMMA RequestsStep == QueueInv /\ RetryRequestsLinked /\ Changes => RetryRequestsLinked'
<1> SUFFICES ASSUME QueueInv, RetryRequestsLinked, Changes PROVE RetryRequestsLinked'
  OBVIOUS
<1>1. \A r \in job_retry_request :
        Linked(r) /\ r.source_job_id \in JobId /\ r.new_job_id \in JobId
  BY DEF RetryRequestsLinked, Linked, QueueInv, RetryRequest
<1>2. ASSUME NEW r \in job_retry_request, ~JobRemoved(r.source_job_id), ~JobRemoved(r.new_job_id)
      PROVE  Linked(r)'
  <2> DEFINE s == r.source_job_id
             n == r.new_job_id
  <2>1. Linked(r) /\ s \in JobId /\ n \in JobId /\ Change(s) /\ Change(n)
    BY <1>1 DEF Changes
  <2>2. Exists(s) /\ Exists(n)
    BY <2>1 DEF Linked, Exists, Terminal
  <2>3. job'[s].status = "failed" /\ SameJob(s)
    BY <1>2, <2>1, <2>2, Existence DEF Linked
  <2>4. Exists(n)' /\ SameJob(n)
    BY <1>2, <2>1, <2>2, Existence
  <2>5. s' = s /\ n' = n /\ r.idempotency_key' = r.idempotency_key
    OBVIOUS
  <2> QED BY <2>1, <2>3, <2>4 DEF Linked, SameJob
<1>3. CASE RequestsStay
  <2>1. \A r \in job_retry_request' : r \in job_retry_request /\ Linked(r)'
    BY <1>2, <1>3 DEF RequestsStay
  <2> QED BY <2>1 DEF RetryRequestsLinked, Linked
<1>4. ASSUME NEW source \in JobId, NEW j \in JobId, NEW header \in RetryKey,
             RequestAdded(source, header, j)
      PROVE  RetryRequestsLinked'
  <2> DEFINE q == [source_job_id |-> source, idempotency_key |-> header, new_job_id |-> j]
  <2>1. \A r \in job_retry_request : Linked(r)'
    BY <1>1, <1>2, <1>4 DEF RequestAdded
  <2>2. Linked(q)'
    <3>1. Change(source) /\ ~JobRemoved(source) /\ job[source].status = "failed"
      BY <1>4 DEF RequestAdded, Changes
    <3>2. job'[source].status = "failed" /\ SameJob(source)
      BY <3>1, Existence DEF Exists, Terminal
    <3>3. /\ Exists(j)' /\ job'[j].retry_of = source /\ job'[j].key = job[source].key
          /\ job'[j].retries = Append(job[source].retries, header)
      BY <1>4 DEF RequestAdded, JobInserted, Exists, Live
    <3> QED BY <3>2, <3>3 DEF Linked, SameJob
  <2>3. \A r \in job_retry_request : r.idempotency_key # header /\ r.new_job_id # j
    BY <1>1, <1>4 DEF RequestAdded, JobInserted, Linked, Exists, Fresh, Live, Terminal
  <2>4. job_retry_request' = job_retry_request \cup {q}
    BY <1>4 DEF RequestAdded
  <2>5. \A r \in job_retry_request' : Linked(r)'
    BY <2>1, <2>2, <2>4
  <2>6. \A r, p \in job_retry_request' :
          r.idempotency_key = p.idempotency_key \/ r.new_job_id = p.new_job_id => r = p
    BY <2>3, <2>4 DEF RetryRequestsLinked
  <2> QED BY <2>5, <2>6 DEF RetryRequestsLinked, Linked
<1> QED BY <1>3, <1>4 DEF Changes

LEMMA HistoryInit == Init => HistoryInv
<1> SUFFICES ASSUME Init PROVE HistoryInv
  OBVIOUS
<1>1. QueueInv
  BY InitInv
<1>2. DueInv /\ RetryRequestsLinked
  BY DEF Init, DueInv, RetryRequestsLinked, NoRow, Exists, Live, Terminal
<1> QED BY <1>1, <1>2 DEF HistoryInv

LEMMA HistoryStep == HistoryInv /\ [Next]_vars => HistoryInv'
BY StepInv, StepChanges, DueStep, RequestsStep DEF HistoryInv

THEOREM HistoryHolds == Spec => []HistoryInv
BY HistoryInit, HistoryStep, PTL DEF Spec

\* A request an operator repeats returns the job that was made from its source.
THEOREM RequestsAreLinked == Spec => []RetryRequestsLinked
BY HistoryHolds, PTL DEF HistoryInv

\* A terminal row and its attempts stay as they are until they are removed, and
\* what is removed stays so.
THEOREM TerminalStays == Spec => TerminalImmutable
<1>1. HistoryInv /\ [Next]_vars =>
        [\A j \in JobId :
           /\ job[j].status \in Terminal /\ job'[j].status # "deleted" =>
                /\ job'[j] = [job[j] EXCEPT !.age = job'[j].age]
                /\ job_attempt'[j] = job_attempt[j]
           /\ job[j].status = "deleted" => job'[j].status = "deleted"]_vars
  <2> SUFFICES ASSUME HistoryInv, [Next]_vars, NEW j \in JobId
               PROVE  /\ job[j].status \in Terminal /\ job'[j].status # "deleted" =>
                           /\ job'[j] = [job[j] EXCEPT !.age = job'[j].age]
                           /\ job_attempt'[j] = job_attempt[j]
                      /\ job[j].status = "deleted" => job'[j].status = "deleted"
    OBVIOUS
  <2>1. Change(j)
    BY StepChanges DEF HistoryInv, Changes
  <2> QED BY <2>1 DEF Change, JobKept, JobClaimed, JobEnded, JobInserted, JobRemoved, Fresh,
                      NoRow, Terminal
<1> QED BY <1>1, HistoryHolds, PTL DEF Spec, TerminalImmutable

\* A closed attempt is never written again, and one is opened by a claim alone.
THEOREM AttemptsStay == Spec => AttemptsAppendOnly
<1>1. HistoryInv /\ [Next]_vars =>
        [\A j \in JobId, n \in AttemptNo :
           /\ /\ job_attempt[j][n].outcome \notin {"none", "open"}
              /\ job'[j].status # "deleted"
              => job_attempt'[j][n] = job_attempt[j][n]
           /\ job_attempt[j][n].outcome = "none" /\ job_attempt'[j][n].outcome # "none"
              => job'[j].attempt_count = n /\ job[j].attempt_count = n - 1]_vars
  <2> SUFFICES ASSUME HistoryInv, [Next]_vars, NEW j \in JobId, NEW n \in AttemptNo
               PROVE  /\ /\ job_attempt[j][n].outcome \notin {"none", "open"}
                         /\ job'[j].status # "deleted"
                         => job_attempt'[j][n] = job_attempt[j][n]
                      /\ job_attempt[j][n].outcome = "none" /\ job_attempt'[j][n].outcome # "none"
                         => job'[j].attempt_count = n /\ job[j].attempt_count = n - 1
    OBVIOUS
  <2> DEFINE c == job[j].attempt_count
  <2>1. Change(j)
    BY StepChanges DEF HistoryInv, Changes
  <2>2. /\ LedgerSound(job[j], job_attempt[j]) /\ c \in Nat /\ n \in Nat
        /\ job_attempt[j] \in [AttemptNo -> AttemptRow]
    BY ConstantsAssumption
       DEF HistoryInv, QueueInv, Sound, RowSound, LedgerSound, Row, AttemptNo
  <2>3. CASE JobKept(j) \/ JobInserted(j)
    BY <2>3 DEF JobKept, JobInserted
  <2>4. CASE JobClaimed(j)
    <3>1. PICK w \in Worker :
            job_attempt'[j] = [job_attempt[j] EXCEPT ![c + 1] =
                                 [worker_id |-> w, outcome |-> "open"]]
      BY <2>4 DEF JobClaimed
    <3>2. CASE n # c + 1
      BY <2>2, <3>1, <3>2
    <3>3. CASE n = c + 1
      <4>1. job_attempt[j][n].outcome = "none"
        BY <2>2, <3>3 DEF LedgerSound, NoAttempt
      <4> QED BY <2>2, <2>4, <3>3, <4>1 DEF JobClaimed
    <3> QED BY <3>2, <3>3
  <2>5. CASE JobEnded(j)
    <3>1. PICK outcome : job_attempt'[j] = [job_attempt[j] EXCEPT ![c].outcome = outcome]
      BY <2>5 DEF JobEnded, Close
    <3>2. CASE n # c
      BY <2>2, <3>1, <3>2
    <3>3. CASE n = c
      BY <2>2, <2>5, <3>3 DEF LedgerSound, JobEnded
    <3> QED BY <3>2, <3>3
  <2>6. CASE JobRemoved(j)
    BY <2>6 DEF JobRemoved, NoRow, NoAttempt
  <2> QED BY <2>1, <2>3, <2>4, <2>5, <2>6 DEF Change
<1> QED BY <1>1, HistoryHolds, PTL DEF Spec, AttemptsAppendOnly

-----------------------------------------------------------------------------
\* Every step of the queue is a step of JobLifecycle.
LEMMA LifecycleInit == Init => Lifecycle!Init
BY DEF Init, Lifecycle!Init, Lifecycle!Nothing, NoRow, Exists, Live, Terminal

LEMMA LifecycleStep == HistoryInv /\ [Next]_vars => Lifecycle!Next
<1> SUFFICES ASSUME HistoryInv, [Next]_vars PROVE Lifecycle!Next
  OBVIOUS
<1> DEFINE view(j) == [state |-> IF job[j].status = "deleted" THEN "forgotten" ELSE job[j].status,
                       attempts |-> job[j].attempt_count,
                       budget |-> IF Exists(j) THEN MaxAttemptsOf[job[j].key] ELSE 0]
           next(j) == [state |-> IF job'[j].status = "deleted" THEN "forgotten" ELSE job'[j].status,
                       attempts |-> job'[j].attempt_count,
                       budget |-> IF Exists(j)' THEN MaxAttemptsOf[job'[j].key] ELSE 0]
<1>1. ASSUME NEW j \in JobId PROVE Lifecycle!Move(j) \/ next(j) = view(j)
  <2>1. Change(j) /\ RowSound(job[j])
    BY StepChanges DEF HistoryInv, Changes, QueueInv, Sound
  <2>2. CASE JobKept(j)
    BY <2>2 DEF JobKept, SameJob, Exists
  <2>3. CASE JobClaimed(j)
    <3>1. Exists(j) /\ Exists(j)'
      BY <2>3 DEF JobClaimed, Exists, Live
    <3>2. view(j).attempts < view(j).budget
      BY <2>1, <2>3, <3>1, ConstantsAssumption DEF JobClaimed, RowSound, Row, Live
    <3>3. job[j].status # "deleted" /\ view(j).state \in Lifecycle!Waiting
      BY <2>3 DEF JobClaimed, Lifecycle!Waiting
    <3>4. next(j) = [view(j) EXCEPT !.state = "running", !.attempts = @ + 1]
      <4> DEFINE R == [state : {"queued", "retry_wait", "running"}, attempts : Nat, budget : Nat]
                 v == view(j)
                 w == [v EXCEPT !.state = "running", !.attempts = @ + 1]
                 x == next(j)
      <4>1. v \in R /\ x \in R
        <5>1. job[j].attempt_count \in Nat /\ job[j].key \in Key
          BY <2>1, <2>3, ConstantsAssumption DEF JobClaimed, RowSound, Row, Live
        <5> QED BY <2>3, <3>1, <3>3, <5>1, ConstantsAssumption DEF JobClaimed, SameJob
      <4>2. x.state = "running" /\ x.attempts = v.attempts + 1 /\ x.budget = v.budget
        BY <2>3, <3>1 DEF JobClaimed, SameJob
      <4>3. /\ w \in R /\ w.state = "running" /\ w.attempts = v.attempts + 1
            /\ w.budget = v.budget
        <5> HIDE DEF v
        <5>1. v \in R /\ v.attempts + 1 \in Nat
          BY <4>1
        <5>2. w \in R
          BY <5>1
        <5>3. w.state = "running"
          BY <5>1
        <5>4. w.attempts = v.attempts + 1 /\ w.budget = v.budget
          BY <5>1
        <5> QED BY <5>2, <5>3, <5>4
      <4> HIDE DEF w, x
      <4>4. w = x
        BY <4>1, <4>2, <4>3
      <4> QED BY <4>4 DEF w, x
    <3> QED BY <3>2, <3>3, <3>4 DEF Lifecycle!Move, Lifecycle!Attempt
  <2>4. CASE JobEnded(j)
    <3>1. Exists(j) /\ Exists(j)'
      BY <2>4 DEF JobEnded, Exists, Live, Terminal
    <3> QED BY <2>4, <3>1
            DEF JobEnded, SameJob, AttemptsLeft, Terminal, Lifecycle!Move, Lifecycle!Settle,
                Lifecycle!Becomes, Lifecycle!Ended
  <2>5. CASE JobInserted(j)
    <3>1. Exists(j)' /\ ~Exists(j) /\ MaxAttemptsOf[job'[j].key] \in 1..MaxAttempts
      BY <2>5, ConstantsAssumption DEF JobInserted, Exists, Fresh, Live, Terminal
    <3> QED BY <2>5, <3>1 DEF JobInserted, Fresh, Lifecycle!Move, Lifecycle!Accept
  <2>6. CASE JobRemoved(j)
    BY <2>6 DEF JobRemoved, NoRow, Exists, Live, Terminal, Lifecycle!Move, Lifecycle!Forget,
                Lifecycle!Ended, Lifecycle!Nothing
  <2> QED BY <2>1, <2>2, <2>3, <2>4, <2>5, <2>6 DEF Change
<1> QED BY <1>1 DEF Lifecycle!Next

\* The queue implements the life of a job: no function of it takes a job along
\* an edge JobLifecycle does not have.
THEOREM QueueImplementsLifecycle == Spec => ImplementsLifecycle
BY HistoryHolds, LifecycleInit, LifecycleStep, PTL
   DEF Spec, ImplementsLifecycle, Lifecycle!Spec
=============================================================================
