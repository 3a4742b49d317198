--------------------------- MODULE JobWorkerProofs ---------------------------
(***************************************************************************)
(* Proofs about JobWorker for any number of processes, slots and jobs.     *)
(*                                                                         *)
(* Whatever the processes do, the queue only ever sees calls of its own    *)
(* functions (WorkersUseQueue), so all that JobQueueProofs and             *)
(* JobQueueHistoryProofs show of the queue holds of it at work.            *)
(*                                                                         *)
(* On top of that WorkerInv follows each task from the row of a claim to   *)
(* the end of process(job).  Two properties hold only if a process cannot  *)
(* take its own old run for a new one: one slot per process, and distinct  *)
(* identities (OneSlotEach), are hypotheses of their theorems, and         *)
(* SerialInv is what they add to the invariant.                            *)
(***************************************************************************)
EXTENDS JobWorker, JobQueueHistoryProofs, FiniteSetTheorems

-----------------------------------------------------------------------------
\* The invariant.

TaskRow ==
  [proc : Process \cup {NULL}, phase : Phases, aborted : BOOLEAN,
   result : {"none", "ok", "error"}]

ProcessRow ==
  [mode : {"up", "draining", "drained", "forcing", "forced", "down"},
   polled : SUBSET (JobId \X AttemptNo),
   active : [JobId -> 0..MaxAttempts],
   controllers : [JobId -> 0..MaxAttempts],
   activeByType : Nat,
   draining : SUBSET (JobId \X AttemptNo),
   overflow : SUBSET JobId, releasing : SUBSET JobId]

\* A task is of an attempt that was counted; it has a result exactly when its
\* handler has ended, and is rejected only by a build that does not know it.
TaskSound(j, n) ==
  LET t == task[j][n] IN
  /\ t \in TaskRow
  /\ t.phase = "none" => t = NoTask
  /\ t.phase # "none" => t.proc \in Process /\ n <= job[j].attempt_count
  /\ t.phase \in {"handling", "rejecting"} => t.result = "none"
  /\ t.phase = "completing" => t.result = "ok"
  /\ t.phase = "rejecting" => job[j].key \notin Known[t.proc]

\* A row on its way to runOnce is of an attempt that was counted and not begun.
PolledSound(p) ==
  \A j \in JobId, n \in AttemptNo :
    <<j, n>> \in process[p].polled =>
      task[j][n].phase = "none" /\ n <= job[j].attempt_count

PolledOnce ==
  \A p, q \in Process : p # q => process[p].polled \cap process[q].polled = {}

WorkerInv ==
  /\ task = [j \in JobId |-> [n \in AttemptNo |-> task[j][n]]]
  /\ process \in [Process -> ProcessRow]
  /\ notified \subseteq JobId
  /\ incidents \in 0..MaxIncidents
  /\ \A j \in JobId, n \in AttemptNo : TaskSound(j, n)
  /\ \A p \in Process : PolledSound(p)
  /\ PolledOnce
  /\ CompletedByItsHolder
  /\ TypeLimitRespected

\* The configuration under which a result cannot land on another attempt.
OneSlotEach ==
  /\ ClaimLimit = 1
  /\ \A p, q \in Process : IdOf[p] = IdOf[q] => p = q

\* What a process has claimed and not finished.
InHand(p, j, n) == <<j, n>> \in process[p].polled \/ <<j, n>> \in TasksOf(p)

\* It is one thing at most, listed in active when its task has begun; the lock
\* of its job, if the process holds it, is that attempt's; and if the attempt is
\* the last one it was not completed behind the process's back.
SlotSound(p) ==
  /\ \A i, j \in JobId, m, n \in AttemptNo :
       InHand(p, i, m) /\ InHand(p, j, n) => i = j /\ m = n
  /\ \A j \in JobId, n \in AttemptNo :
       /\ <<j, n>> \in TasksOf(p) => process[p].active[j] # 0
       /\ InHand(p, j, n) =>
            /\ HeldBy(j, IdOf[p]) => job[j].attempt_count = n
            /\ job[j].attempt_count = n =>
                 HeldBy(j, IdOf[p]) \/ job[j].status \in {"retry_wait", "failed"}

FailedTruly ==
  \A j \in JobId, n \in AttemptNo :
    task[j][n].phase = "failed" /\ NotifiesTerminal(j, n) => job[j].status = "failed"

SerialInv ==
  /\ \A p \in Process : SlotSound(p)
  /\ CompletedByItsAttempt
  /\ FailedTruly
  /\ NotifiedOnlyIfFailed

-----------------------------------------------------------------------------
\* Processes use the queue through its functions only.

LEMMA TasksAreTheirs ==
  ASSUME NEW p \in Process, NEW j \in JobId, NEW n \in AttemptNo
  PROVE  <<j, n>> \in TasksOf(p) <=> task[j][n].proc = p /\ task[j][n].phase \in Running
BY DEF TasksOf

LEMMA TaskOf ==
  ASSUME NEW p \in Process, NEW t \in TasksOf(p)
  PROVE  /\ t[1] \in JobId /\ t[2] \in AttemptNo /\ t = <<t[1], t[2]>>
         /\ task[t[1]][t[2]].proc = p /\ task[t[1]][t[2]].phase \in Running
BY DEF TasksOf

LEMMA ActiveCounted ==
  ASSUME NEW p \in Process
  PROVE  ActiveSize(p) \in Nat
<1> DEFINE A == {j \in JobId : process[p].active[j] # 0}
<1>1. A \in SUBSET JobId /\ IsFiniteSet(JobId)
  BY WorkerAssumption
<1> HIDE DEF A
<1>2. Cardinality(A) \in Nat
  BY <1>1, FS_Subset, FS_CardinalityType
<1> QED BY <1>2 DEF A, ActiveSize

LEMMA QueueStep == [WorkerNext]_allVars => [Next]_vars
<1> SUFFICES ASSUME [WorkerNext]_allVars PROVE [Next]_vars
  OBVIOUS
<1>0. \A p \in Process : IdOf[p] \in Worker
  BY WorkerAssumption
<1>1. ASSUME NEW p \in Process, Poll(p) PROVE Next
  <2> DEFINE limit == ClaimLimit - ActiveSize(p)
  <2>1. limit \in 1..ClaimLimit
    <3>1. ActiveSize(p) \in Nat /\ ActiveSize(p) < ClaimLimit
      BY <1>1, ActiveCounted DEF Poll
    <3> QED BY <3>1, ConstantsAssumption
  <2>2. PICK S \in ClaimBatches(IdOf[p], limit) : ClaimBatch(IdOf[p], S)
    BY <1>1 DEF Poll
  <2> HIDE DEF limit
  <2>3. ClaimJobs(IdOf[p], limit)
    BY <2>2 DEF ClaimJobs
  <2> QED BY <1>0, <2>1, <2>3 DEF Next
<1>2. ASSUME NEW p \in Process, NEW t \in TasksOf(p), CompleteCall(t[1], t[2])
      PROVE  [Next]_vars
  BY <1>0, <1>2, TaskOf DEF CompleteCall, Next, vars, queueVars
<1>3. ASSUME NEW p \in Process, NEW t \in TasksOf(p), FailCall(t[1], t[2])
      PROVE  [Next]_vars
  <2>1. \/ \E retryable \in BOOLEAN, delay \in RetryDelay :
              FailJob(t[1], IdOf[p], retryable, delay)
        \/ UNCHANGED queueVars
    <3>1. task[t[1]][t[2]].proc = p
      BY TaskOf
    <3>2. Classify \subseteq BOOLEAN
      BY WorkerAssumption
    <3> QED BY <1>3, <3>1, <3>2, Zenon DEF FailCall
  <2> QED BY <1>0, <2>1, TaskOf DEF Next, vars, queueVars
<1>4. ASSUME NEW p \in Process, NEW t \in TasksOf(p), Heartbeat(t[1], t[2])
      PROVE  [Next]_vars
  BY <1>0, <1>4, TaskOf DEF Heartbeat, Next, vars, queueVars
<1>5. ASSUME NEW p \in Process, NEW j \in JobId, ReleaseOverflow(p, j) \/ ReleaseActive(p, j)
      PROVE  [Next]_vars
  BY <1>0, <1>5 DEF ReleaseOverflow, ReleaseActive, ReleaseEffect, Next, vars, queueVars
<1>6. CASE Environment
  BY <1>6 DEF Environment, Next
<1>7. ASSUME NEW p \in Process,
             \/ Receive(p) \/ Drained(p) \/ Forced(p) \/ Exit(p) \/ Restart(p)
             \/ Stop(p) \/ ForceShutdown(p) \/ Crash(p)
      PROVE  [Next]_vars
  BY <1>7 DEF Receive, Drained, Forced, Exit, Restart, Stop, ForceShutdown, Crash,
              vars, queueVars
<1>8. ASSUME NEW p \in Process, NEW t \in TasksOf(p),
             \/ \E result \in {"ok", "error"} : HandlerEnds(t[1], t[2], result)
             \/ FailReturns(t[1], t[2])
      PROVE  [Next]_vars
  BY <1>8 DEF HandlerEnds, FailReturns, vars, queueVars
<1>9. CASE UNCHANGED allVars
  BY <1>9 DEF allVars, vars
<1> QED BY <1>1, <1>2, <1>3, <1>4, <1>5, <1>6, <1>7, <1>8, <1>9
        DEF WorkerNext, ProcessStep

\* A queue with processes at work on it is a queue: whatever they do, lose, repeat
\* or leave undone, each of their steps is one call of one of its functions.
THEOREM WorkersUseQueue == WorkerSpec => Spec
<1>1. WorkerInit => Init
  BY DEF WorkerInit
<1> QED BY <1>1, QueueStep, PTL DEF WorkerSpec, Spec

\* So a job that processes work on lives the life JobLifecycle promises.
THEOREM WorkersKeepLifecycle == WorkerSpec => ImplementsLifecycle
BY WorkersUseQueue, QueueImplementsLifecycle, PTL

-----------------------------------------------------------------------------
\* What the queue's functions do to a job, as far as a worker can tell.

Unmoved(j) ==
  /\ job'[j].status = job[j].status /\ job'[j].key = job[j].key
  /\ job'[j].attempt_count = job[j].attempt_count /\ job'[j].locked_by = job[j].locked_by
  /\ job_attempt'[j] = job_attempt[j]

Inserted(j) ==
  /\ Fresh(j) /\ job'[j].status = "queued" /\ job'[j].attempt_count = 0
  /\ job_attempt'[j] = job_attempt[j]

Dropped(j) ==
  /\ job[j].status = "running" /\ job'[j].status \in {"retry_wait", "failed"}
  /\ job'[j].key = job[j].key /\ job'[j].attempt_count = job[j].attempt_count
  /\ \E outcome \in Settled \cup {"failed"} : job_attempt'[j] = Close(j, outcome)

ClaimedBy(j, w) ==
  /\ job[j].status \in {"queued", "retry_wait"} /\ job'[j].status = "running"
  /\ job'[j].key = job[j].key /\ TargetOf[job[j].key] = ServiceOf[w]
  /\ job'[j].attempt_count = job[j].attempt_count + 1 /\ job'[j].locked_by = w
  /\ job_attempt'[j] = [job_attempt[j] EXCEPT ![job[j].attempt_count + 1] =
                          [worker_id |-> w, outcome |-> "open"]]

CompletedNow(j) ==
  /\ job[j].status = "running" /\ job'[j].status = "completed"
  /\ job'[j].key = job[j].key /\ job'[j].attempt_count = job[j].attempt_count
  /\ job_attempt'[j] = Close(j, "completed")

Steady(j) == Unmoved(j) \/ Inserted(j) \/ Dropped(j)

\* What all of them have in common.
Grows(j) ==
  /\ job'[j].attempt_count >= job[j].attempt_count
  /\ job[j].attempt_count > 0 => job'[j].key = job[j].key
  /\ job[j].status = "failed" => job'[j].status = "failed"

LEMMA SteadyGrows ==
  ASSUME QueueInv, NEW j \in JobId,
         Steady(j) \/ CompletedNow(j) \/ \E w : ClaimedBy(j, w)
  PROVE  Grows(j)
<1>1. job[j].attempt_count \in Nat /\ RowSound(job[j])
  BY Columns DEF QueueInv, Sound, Row
<1>2. Fresh(j) => job[j].attempt_count = 0
  BY <1>1 DEF Fresh, RowSound
<1>3. CASE Unmoved(j)
  BY <1>1, <1>3 DEF Unmoved, Grows
<1>4. CASE Inserted(j)
  BY <1>2, <1>4 DEF Inserted, Grows, Fresh
<1>5. CASE Dropped(j) \/ CompletedNow(j)
  BY <1>1, <1>5 DEF Dropped, CompletedNow, Grows
<1>6. CASE \E w : ClaimedBy(j, w)
  BY <1>1, <1>6 DEF ClaimedBy, Grows
<1> QED BY <1>3, <1>4, <1>5, <1>6 DEF Steady

\* The row after Unlocked.
LEMMA UnlockedRow ==
  ASSUME QueueInv, NEW j \in JobId, NEW status, NEW run_in, NEW age
  PROVE  LET u == Unlocked(j, status, run_in, age) IN
         u.status = status /\ u.key = job[j].key /\ u.attempt_count = job[j].attempt_count
<1> DEFINE r == job[j]
           u == [r EXCEPT !.status = status, !.run_in = run_in, !.age = age,
                          !.locked_by = NULL, !.lease_left = NULL]
<1>1. r \in Row
  BY Columns
<1> HIDE DEF r
<1>2. u.status = status /\ u.key = r.key /\ u.attempt_count = r.attempt_count
  BY <1>1 DEF Row
<1> QED BY <1>2 DEF r, Unlocked

LEMMA SameUnmoved ==
  ASSUME NEW j \in JobId, job'[j] = job[j], job_attempt'[j] = job_attempt[j]
  PROVE  Unmoved(j)
BY DEF Unmoved

LEMMA QuietSteady ==
  ASSUME UNCHANGED queueVars
  PROVE  \A j \in JobId : Unmoved(j)
BY DEF queueVars, Unmoved

\* One row that is changed, the others left alone.
LEMMA OthersUnmoved ==
  ASSUME QueueInv, NEW j \in JobId, NEW r, NEW attempts,
         job' = [job EXCEPT ![j] = r], job_attempt' = [job_attempt EXCEPT ![j] = attempts]
  PROVE  /\ job'[j] = r /\ job_attempt'[j] = attempts
         /\ \A i \in JobId : i # j => Unmoved(i)
BY SameUnmoved DEF QueueInv

LEMMA EnqueueSteady ==
  ASSUME QueueInv, NEW key \in Key, NEW delay \in RunDelay, EnqueueJob(key, delay)
  PROVE  \A j \in JobId : Steady(j)
<1>1. PICK k \in JobId :
        Fresh(k) /\ job' = [job EXCEPT ![k] = NewRow(key, <<>>, delay, NULL)]
  BY DEF EnqueueJob
<1>2. job_attempt' = job_attempt
  BY DEF EnqueueJob
<1>3. job'[k] = NewRow(key, <<>>, delay, NULL) /\ \A i \in JobId : i # k => Unmoved(i)
  BY <1>1, <1>2, SameUnmoved DEF QueueInv
<1>4. Inserted(k)
  BY <1>1, <1>2, <1>3 DEF Inserted, NewRow
<1> QED BY <1>3, <1>4 DEF Steady

LEMMA HeartbeatSteady ==
  ASSUME QueueInv, NEW j \in JobId, NEW w \in Worker, HeartbeatJob(j, w)
  PROVE  \A i \in JobId : Unmoved(i)
<1> DEFINE r == job[j]
           h == [r EXCEPT !.lease_left = Lease]
<1>1. r \in Row /\ job'[j] = h /\ job_attempt' = job_attempt
      /\ \A i \in JobId : i # j => job'[i] = job[i]
  BY Columns DEF HeartbeatJob, QueueInv
<1>2. /\ h.status = r.status /\ h.key = r.key /\ h.attempt_count = r.attempt_count
      /\ h.locked_by = r.locked_by
  <2> HIDE DEF r
  <2> QED BY <1>1 DEF Row
<1> QED BY <1>1, <1>2 DEF Unmoved

LEMMA TickSteady ==
  ASSUME QueueInv, Tick
  PROVE  \A j \in JobId : Unmoved(j)
<1> SUFFICES ASSUME NEW j \in JobId PROVE Unmoved(j)
  OBVIOUS
<1> DEFINE r == job[j]
           run_in == IF r.run_in > 0 THEN r.run_in - 1 ELSE r.run_in
           lease_left == IF r.status = "running" /\ r.lease_left > LeaseFloor
                         THEN r.lease_left - 1 ELSE r.lease_left
           age == IF r.status \in Terminal /\ r.age < AgeCeiling
                  THEN r.age + 1 ELSE r.age
           n == [r EXCEPT !.run_in = run_in, !.lease_left = lease_left, !.age = age]
<1>1. r \in Row
  BY Columns
<1>2. job'[j] = n /\ job_attempt' = job_attempt
  BY DEF Tick
<1>3. /\ n.status = r.status /\ n.key = r.key /\ n.attempt_count = r.attempt_count
      /\ n.locked_by = r.locked_by
  <2> HIDE DEF r, run_in, lease_left, age
  <2> QED BY <1>1 DEF Row
<1> QED BY <1>2, <1>3 DEF Unmoved

LEMMA EndedDropped ==
  ASSUME QueueInv, NEW j \in JobId, job[j].status = "running",
         NEW status \in {"retry_wait", "failed"}, NEW outcome \in Settled \cup {"failed"},
         NEW run_in, NEW age,
         job'[j] = Unlocked(j, status, run_in, age), job_attempt'[j] = Close(j, outcome)
  PROVE  Dropped(j)
BY UnlockedRow DEF Dropped

\* fail_job; the last attempt fails the job.
LEMMA FailSteady ==
  ASSUME QueueInv, NEW j \in JobId, NEW w \in Worker, NEW retryable \in BOOLEAN,
         NEW delay \in RetryDelay, FailJob(j, w, retryable, delay)
  PROVE  /\ \A i \in JobId : Steady(i)
         /\ ~AttemptsLeft(j) => job'[j].status = "failed"
<1>1. job[j].status = "running"
  BY DEF FailJob, HeldBy
<1>2. CASE retryable /\ AttemptsLeft(j)
  <2>1. /\ job'[j] = Unlocked(j, "retry_wait", delay, 0) /\ job_attempt'[j] = Close(j, "retry")
        /\ \A i \in JobId : i # j => Unmoved(i)
    BY <1>2, OthersUnmoved DEF FailJob
  <2>2. Dropped(j)
    BY <1>1, <2>1, EndedDropped DEF Settled
  <2> QED BY <1>2, <2>1, <2>2 DEF Steady
<1>3. CASE ~(retryable /\ AttemptsLeft(j))
  <2>1. /\ job'[j] = Unlocked(j, "failed", job[j].run_in, 0)
        /\ job_attempt'[j] = Close(j, "failed")
        /\ \A i \in JobId : i # j => Unmoved(i)
    BY <1>3, OthersUnmoved DEF FailJob
  <2>2. Dropped(j) /\ job'[j].status = "failed"
    BY <1>1, <2>1, EndedDropped, UnlockedRow
  <2> QED BY <2>1, <2>2 DEF Steady
<1> QED BY <1>2, <1>3

LEMMA ReleaseSteady ==
  ASSUME QueueInv, NEW j \in JobId, NEW w \in Worker, ReleaseJob(j, w)
  PROVE  \A i \in JobId : Steady(i)
<1>1. job[j].status = "running"
  BY DEF ReleaseJob, HeldBy
<1>2. CASE AttemptsLeft(j)
  <2>1. /\ job'[j] = Unlocked(j, "retry_wait", 0, 0) /\ job_attempt'[j] = Close(j, "abandoned")
        /\ \A i \in JobId : i # j => Unmoved(i)
    BY <1>2, OthersUnmoved DEF ReleaseJob
  <2>2. Dropped(j)
    BY <1>1, <2>1, EndedDropped DEF Settled
  <2> QED BY <2>1, <2>2 DEF Steady
<1>3. CASE ~AttemptsLeft(j)
  <2>1. /\ job'[j] = Unlocked(j, "failed", job[j].run_in, 0)
        /\ job_attempt'[j] = Close(j, "failed")
        /\ \A i \in JobId : i # j => Unmoved(i)
    BY <1>3, OthersUnmoved DEF ReleaseJob
  <2>2. Dropped(j)
    BY <1>1, <2>1, EndedDropped
  <2> QED BY <2>1, <2>2 DEF Steady
<1> QED BY <1>2, <1>3

LEMMA ReapSteady ==
  ASSUME QueueInv, NEW skew \in Skew, ReapExpiredJobs(skew)
  PROVE  \A j \in JobId : Steady(j)
<1> SUFFICES ASSUME NEW j \in JobId PROVE Steady(j)
  OBVIOUS
<1>1. CASE j \notin Expired(skew)
  BY <1>1, SameUnmoved DEF ReapExpiredJobs, Steady
<1>2. CASE j \in Expired(skew) /\ AttemptsLeft(j)
  <2>1. /\ job'[j] = Unlocked(j, "retry_wait", DueAt(skew), 0)
        /\ job_attempt'[j] = Close(j, "abandoned") /\ job[j].status = "running"
    BY <1>2 DEF ReapExpiredJobs, Expired
  <2> QED BY <2>1, EndedDropped DEF Steady, Settled
<1>3. CASE j \in Expired(skew) /\ ~AttemptsLeft(j)
  <2>1. /\ job'[j] = Unlocked(j, "failed", job[j].run_in, -skew)
        /\ job_attempt'[j] = Close(j, "failed") /\ job[j].status = "running"
    BY <1>3 DEF ReapExpiredJobs, Expired
  <2> QED BY <2>1, EndedDropped DEF Steady
<1> QED BY <1>1, <1>2, <1>3

LEMMA ClaimMoves ==
  ASSUME QueueInv, NEW w \in Worker, NEW limit, NEW S \in ClaimBatches(w, limit),
         ClaimBatch(w, S), NEW j \in JobId
  PROVE  IF j \in S THEN ClaimedBy(j, w) ELSE Unmoved(j)
<1>1. CASE j \notin S
  BY <1>1, SameUnmoved DEF ClaimBatch
<1>2. CASE j \in S
  <2> DEFINE r == job[j]
             c == [r EXCEPT !.status = "running", !.locked_by = w,
                            !.attempt_count = @ + 1, !.lease_left = Lease]
  <2>1. r \in Row /\ j \in Claimable(w)
    BY <1>2, Columns DEF ClaimBatches
  <2>2. job'[j] = c
    BY <1>2 DEF ClaimBatch
  <2>3. /\ c.key = r.key /\ c.status = "running" /\ c.attempt_count = r.attempt_count + 1
        /\ c.locked_by = w
    <3> HIDE DEF r
    <3> QED BY <2>1 DEF Row
  <2>4. r.status \in {"queued", "retry_wait"} /\ TargetOf[r.key] = ServiceOf[w]
    BY <2>1 DEF Claimable
  <2>5. job_attempt'[j] = [job_attempt[j] EXCEPT ![job[j].attempt_count + 1] =
                             [worker_id |-> w, outcome |-> "open"]]
    BY <1>2 DEF ClaimBatch
  <2> HIDE DEF c
  <2> QED BY <1>2, <2>2, <2>3, <2>4, <2>5 DEF ClaimedBy
<1> QED BY <1>1, <1>2

LEMMA CompleteMoves ==
  ASSUME QueueInv, NEW j \in JobId, NEW w \in Worker, CompleteJob(j, w)
  PROVE  /\ CompletedNow(j) /\ job[j].locked_by = w
         /\ \A i \in JobId : i # j => Unmoved(i)
<1>1. /\ job'[j] = Unlocked(j, "completed", job[j].run_in, 0)
      /\ job_attempt'[j] = Close(j, "completed")
      /\ \A i \in JobId : i # j => Unmoved(i)
  BY OthersUnmoved DEF CompleteJob
<1> QED BY <1>1, UnlockedRow DEF CompletedNow, CompleteJob, HeldBy

-----------------------------------------------------------------------------
\* What a step does to a task, to a process and to the whole of WorkerInv.

\* Nothing, or its process takes it further.
TaskMove(j, n) ==
  \/ task'[j][n] = task[j][n]
  \/ /\ task[j][n].phase \in Running
     /\ task'[j][n] \in TaskRow
     /\ task'[j][n].proc = task[j][n].proc
     /\ task'[j][n].phase # "none"
     /\ task[j][n].result = "ok" => task'[j][n].result = "ok"
     /\ task'[j][n].phase \in {"handling", "rejecting"} =>
          task'[j][n].phase = task[j][n].phase /\ task'[j][n].result = task[j][n].result
     /\ task'[j][n].phase = "completing" => task'[j][n].result = "ok"

\* A task reports its failure: fail_job took it, or the lock was not its own.
FailReported(j, n) ==
  ~AttemptsLeft(j) =>
    job'[j].status = "failed" \/ ~HeldBy(j, IdOf[task[j][n].proc])

\* A completion is the report of a task whose handler returned.
CompletedByTask(j) ==
  /\ CompletedNow(j)
  /\ \E p \in Process, n \in AttemptNo :
       /\ <<j, n>> \in TasksOf(p) /\ HeldBy(j, IdOf[p])
       /\ task'[j][n].phase = "done" /\ task'[j][n].result = "ok"

\* The entry of a job in active is kept, or one of its tasks ends.
ActiveKept(p, j) ==
  \/ process'[p].active[j] = process[p].active[j]
  \/ \A n \in AttemptNo : <<j, n>> \notin TasksOf(p)
  \/ \E n \in AttemptNo : <<j, n>> \in TasksOf(p) /\ task'[j][n].phase = "done"

\* The count of the type goes with the tasks that end.
CountKept(p) ==
  LET count == process[p].activeByType IN
  \/ TasksOf(p)' = TasksOf(p) /\ process'[p].activeByType = count
  \/ TasksOf(p)' = {} /\ process'[p].activeByType = 0
  \/ \E t \in TasksOf(p) :
       /\ TasksOf(p)' = TasksOf(p) \ {t}
       /\ process'[p].activeByType = IF count <= 1 THEN 0 ELSE count - 1

\* A step in which no process claims or starts anything.
Ordinary ==
  /\ task' = [j \in JobId |-> [n \in AttemptNo |-> task'[j][n]]]
  /\ process' \in [Process -> ProcessRow]
  /\ incidents' \in 0..MaxIncidents
  /\ \A j \in JobId, n \in AttemptNo :
       /\ TaskMove(j, n)
       /\ task'[j][n].phase = "failed" =>
            task[j][n].phase = "failed" \/ FailReported(j, n)
  /\ \A p \in Process :
       /\ process'[p].polled \subseteq process[p].polled
       /\ CountKept(p)
       /\ \A j \in JobId : ActiveKept(p, j)
  /\ \A j \in JobId : Steady(j) \/ CompletedByTask(j)
  /\ notified' \subseteq
       notified \cup {j \in JobId : \E n \in AttemptNo :
                        task[j][n].phase = "failed" /\ NotifiesTerminal(j, n)}

LEMMA Attempts == AttemptNo \subseteq Nat \ {0} /\ AttemptNo \subseteq 0..MaxAttempts
BY ConstantsAssumption DEF AttemptNo

LEMMA CloseOutcome ==
  ASSUME QueueInv, NEW j \in JobId, NEW outcome, NEW n \in AttemptNo
  PROVE  /\ Close(j, outcome)[n].outcome =
              IF n = job[j].attempt_count THEN outcome ELSE job_attempt[j][n].outcome
         /\ Close(j, outcome)[n].worker_id = job_attempt[j][n].worker_id
<1> DEFINE a == job_attempt[j]
           b == [a[n] EXCEPT !.outcome = outcome]
<1>1. a \in [AttemptNo -> AttemptRow]
  BY DEF QueueInv, Sound, LedgerSound
<1>2. Close(j, outcome)[n] = IF n = job[j].attempt_count THEN b ELSE a[n]
  BY <1>1 DEF Close
<1>3. b.outcome = outcome /\ b.worker_id = a[n].worker_id
  <2> HIDE DEF a
  <2> QED BY <1>1 DEF AttemptRow
<1> HIDE DEF b
<1> QED BY <1>2, <1>3

LEMMA TaskStays ==
  ASSUME QueueInv, QueueInv', NEW j \in JobId, NEW n \in AttemptNo,
         Grows(j), TaskSound(j, n), TaskMove(j, n)
  PROVE  TaskSound(j, n)'
<1>0. /\ job[j].attempt_count \in Nat /\ job'[j].attempt_count \in Nat
      /\ n \in Nat \ {0}
  BY Attempts DEF QueueInv, Sound, RowSound, Row
<1>1. job'[j].attempt_count >= job[j].attempt_count
  BY DEF Grows
<1>2. CASE task[j][n].phase = "none"
  <2>1. task'[j][n] = task[j][n]
    BY <1>2 DEF TaskMove, Running
  <2> QED BY <1>2, <2>1 DEF TaskSound
<1>3. CASE task[j][n].phase # "none"
  <2>1. task[j][n].proc \in Process /\ n <= job[j].attempt_count
    BY <1>3 DEF TaskSound
  <2>2. n <= job'[j].attempt_count /\ job'[j].key = job[j].key
    BY <1>0, <1>1, <2>1 DEF Grows
  <2>3. CASE task'[j][n] = task[j][n]
    BY <2>2, <2>3 DEF TaskSound
  <2>4. CASE task'[j][n] # task[j][n]
    BY <2>1, <2>2, <2>4 DEF TaskSound, TaskMove
  <2> QED BY <2>3, <2>4
<1> QED BY <1>2, <1>3

\* The tasks of a process are finitely many, and as many at most as those of a
\* larger set.
LEMMA TasksFinite ==
  /\ IsFiniteSet(JobId \X AttemptNo)
  /\ \A p \in Process : TasksOf(p) \subseteq JobId \X AttemptNo
<1>1. IsFiniteSet(JobId) /\ IsFiniteSet(AttemptNo)
  BY WorkerAssumption, ConstantsAssumption, FS_Interval DEF AttemptNo
<1> QED BY <1>1, FS_Product DEF TasksOf

LEMMA FewerTasks ==
  ASSUME NEW T \in SUBSET (JobId \X AttemptNo), NEW S \in SUBSET T,
         NEW limit \in Nat, Cardinality(T) <= limit
  PROVE  Cardinality(S) <= limit
<1>1. IsFiniteSet(T)
  BY TasksFinite, FS_Subset
<1>2. Cardinality(S) \in Nat /\ Cardinality(T) \in Nat /\ Cardinality(S) <= Cardinality(T)
  BY <1>1, FS_Subset, FS_CardinalityType
<1> QED BY <1>2

LEMMA CountStays ==
  ASSUME NEW p \in Process, process[p].activeByType = Cardinality(TasksOf(p)), CountKept(p)
  PROVE  process'[p].activeByType = Cardinality(TasksOf(p)')
<1> DEFINE T == TasksOf(p)
<1>1. IsFiniteSet(T) /\ Cardinality(T) \in Nat
  BY TasksFinite, FS_Subset, FS_CardinalityType
<1>2. CASE TasksOf(p)' = T /\ process'[p].activeByType = process[p].activeByType
  BY <1>2
<1>3. CASE TasksOf(p)' = {} /\ process'[p].activeByType = 0
  BY <1>3, FS_EmptySet
<1>4. ASSUME NEW t \in T, TasksOf(p)' = T \ {t},
             process'[p].activeByType =
               IF process[p].activeByType <= 1 THEN 0 ELSE process[p].activeByType - 1
      PROVE  process'[p].activeByType = Cardinality(TasksOf(p)')
  <2> HIDE DEF T
  <2>1. Cardinality(T \ {t}) = Cardinality(T) - 1
    BY <1>1, FS_RemoveElement
  <2>2. Cardinality(T \ {t}) \in Nat
    BY <1>1, FS_RemoveElement, FS_CardinalityType
  <2>3. process[p].activeByType = Cardinality(T)
    BY DEF T
  <2> QED BY <1>1, <1>4, <2>1, <2>2, <2>3
<1> QED BY <1>2, <1>3, <1>4 DEF CountKept

\* The tasks of contracts the process knows.
KnownTasks(p) == {t \in TasksOf(p) : job[t[1]].key \in Known[p]}

\* A job that has a task has its key for good.
LEMMA KnownKept ==
  ASSUME QueueInv, QueueInv', WorkerInv, \A j \in JobId : Grows(j), NEW p \in Process,
         TasksOf(p)' \subseteq TasksOf(p)
  PROVE  KnownTasks(p)' \subseteq KnownTasks(p)
<1> SUFFICES ASSUME NEW t \in TasksOf(p), job'[t[1]].key \in Known[p]
             PROVE  job[t[1]].key \in Known[p]
  BY DEF KnownTasks
<1>1. /\ t[1] \in JobId /\ t[2] \in AttemptNo
      /\ task[t[1]][t[2]].phase # "none"
  BY TaskOf DEF Running
<1>2. t[2] <= job[t[1]].attempt_count /\ t[2] \in Nat \ {0}
  BY <1>1, Attempts DEF WorkerInv, TaskSound
<1>3. job[t[1]].attempt_count \in Nat
  BY <1>1, Columns DEF Row
<1> QED BY <1>1, <1>2, <1>3 DEF Grows

LEMMA LimitsKept ==
  ASSUME QueueInv, QueueInv', WorkerInv, \A j \in JobId : Grows(j),
         \A p \in Process : TasksOf(p)' \subseteq TasksOf(p) /\ CountKept(p)
  PROVE  TypeLimitRespected'
<1> SUFFICES ASSUME NEW p \in Process
             PROVE  /\ process'[p].activeByType = Cardinality(TasksOf(p)')
                    /\ Cardinality(KnownTasks(p)') <= TypeLimit
  BY DEF TypeLimitRespected, KnownTasks
<1>1. /\ process[p].activeByType = Cardinality(TasksOf(p))
      /\ Cardinality(KnownTasks(p)) <= TypeLimit
  BY DEF WorkerInv, TypeLimitRespected, KnownTasks
<1>2. KnownTasks(p)' \subseteq KnownTasks(p)
  BY KnownKept
<1>3. KnownTasks(p) \in SUBSET (JobId \X AttemptNo) /\ TypeLimit \in Nat
  BY TasksFinite, WorkerAssumption DEF KnownTasks
<1> QED BY <1>1, <1>2, <1>3, FewerTasks, CountStays

LEMMA OrdinaryKeeps ==
  ASSUME QueueInv, QueueInv', WorkerInv, Ordinary
  PROVE  /\ WorkerInv'
         /\ \A j \in JobId : Grows(j)
         /\ \A p \in Process : TasksOf(p)' \subseteq TasksOf(p)
<1>1. ASSUME NEW j \in JobId PROVE Grows(j)
  BY SteadyGrows DEF Ordinary, CompletedByTask
<1>2. ASSUME NEW j \in JobId, NEW n \in AttemptNo PROVE TaskSound(j, n)'
  BY <1>1, TaskStays DEF Ordinary, WorkerInv
<1>3. ASSUME NEW p \in Process PROVE TasksOf(p)' \subseteq TasksOf(p)
  BY DEF Ordinary, TaskMove, TasksOf
<1>4. ASSUME NEW p \in Process PROVE PolledSound(p)'
  <2> SUFFICES ASSUME NEW j \in JobId, NEW n \in AttemptNo, <<j, n>> \in process'[p].polled
               PROVE  task'[j][n].phase = "none" /\ n <= job'[j].attempt_count
    BY DEF PolledSound
  <2>1. task[j][n].phase = "none" /\ n <= job[j].attempt_count
    BY DEF WorkerInv, PolledSound, Ordinary
  <2>2. task'[j][n] = task[j][n]
    BY <2>1 DEF Ordinary, TaskMove, Running
  <2>3. /\ job[j].attempt_count \in Nat /\ job'[j].attempt_count \in Nat
        /\ n \in Nat
    BY Attempts DEF QueueInv, Sound, RowSound, Row
  <2> QED BY <1>1, <2>1, <2>2, <2>3 DEF Grows
<1>5. PolledOnce'
  BY DEF PolledOnce, WorkerInv, Ordinary
<1>6. CompletedByItsHolder'
  <2> SUFFICES ASSUME NEW j \in JobId, NEW n \in AttemptNo,
                      job_attempt'[j][n].outcome = "completed"
               PROVE  \E m \in AttemptNo :
                        /\ m <= n /\ task'[j][m].result = "ok"
                        /\ IdOf[task'[j][m].proc] = job_attempt'[j][n].worker_id
    BY DEF CompletedByItsHolder
  <2>1. \A m \in AttemptNo : task[j][m].result = "ok" =>
           task'[j][m].result = "ok" /\ task'[j][m].proc = task[j][m].proc
    BY DEF Ordinary, TaskMove
  <2>2. job_attempt[j][n].outcome = "completed" =>
          \E m \in AttemptNo :
            /\ m <= n /\ task'[j][m].result = "ok"
            /\ IdOf[task'[j][m].proc] = job_attempt[j][n].worker_id
    BY <2>1 DEF WorkerInv, CompletedByItsHolder
  <2>3. CASE Unmoved(j) \/ Inserted(j)
    BY <2>2, <2>3 DEF Unmoved, Inserted
  <2>4. CASE Dropped(j)
    <3>1. PICK outcome \in Settled \cup {"failed"} : job_attempt'[j] = Close(j, outcome)
      BY <2>4 DEF Dropped
    <3>2. outcome # "completed"
      BY DEF Settled
    <3> QED BY <2>2, <3>1, <3>2, CloseOutcome
  <2>5. CASE CompletedByTask(j)
    <3>1. PICK p \in Process, m \in AttemptNo :
            /\ <<j, m>> \in TasksOf(p) /\ HeldBy(j, IdOf[p])
            /\ task'[j][m].result = "ok"
      BY <2>5 DEF CompletedByTask
    <3>2. job_attempt'[j] = Close(j, "completed") /\ job[j].status = "running"
      BY <2>5 DEF CompletedByTask, CompletedNow
    <3>3. CASE n # job[j].attempt_count
      BY <2>2, <3>2, <3>3, CloseOutcome
    <3>4. CASE n = job[j].attempt_count
      <4>1. job_attempt[j][n].worker_id = IdOf[p]
        BY <3>1, <3>2, <3>4 DEF HeldBy, QueueInv, Sound, LedgerSound
      <4>2. task[j][m].proc = p /\ task[j][m].phase \in Running
        BY <3>1, TasksAreTheirs
      <4>3. task'[j][m].proc = p /\ m <= n
        BY <3>4, <4>2 DEF Ordinary, TaskMove, WorkerInv, TaskSound, Running
      <4> QED BY <3>1, <3>2, <4>1, <4>3, CloseOutcome
    <3> QED BY <3>3, <3>4
  <2> QED BY <2>3, <2>4, <2>5 DEF Ordinary, Steady
<1>7. TypeLimitRespected'
  BY <1>1, <1>3, LimitsKept DEF Ordinary
<1>8. notified' \subseteq JobId
  BY DEF Ordinary, WorkerInv
<1> QED BY <1>1, <1>2, <1>3, <1>4, <1>5, <1>6, <1>7, <1>8 DEF WorkerInv, Ordinary

-----------------------------------------------------------------------------
\* The steps of the program that are ordinary ones.

LEMMA NoMove ==
  ASSUME UNCHANGED task, WorkerInv
  PROVE  /\ task' = [j \in JobId |-> [n \in AttemptNo |-> task'[j][n]]]
         /\ \A j \in JobId, n \in AttemptNo :
              /\ TaskMove(j, n)
              /\ task'[j][n].phase = "failed" => task[j][n].phase = "failed"
         /\ \A p \in Process : TasksOf(p)' = TasksOf(p)
BY DEF TaskMove, TasksOf, WorkerInv

\* Tasks of the same processes run before and after.
LEMMA SameTasks ==
  ASSUME \A j \in JobId, n \in AttemptNo :
           /\ task'[j][n].proc = task[j][n].proc
           /\ task'[j][n].phase \in Running <=> task[j][n].phase \in Running
  PROVE  \A p \in Process : TasksOf(p)' = TasksOf(p)
BY DEF TasksOf

LEMMA OneTaskEnds ==
  ASSUME NEW p \in Process, NEW j \in JobId, NEW n \in AttemptNo,
         <<j, n>> \in TasksOf(p), task'[j][n].phase = "done",
         \A i \in JobId, m \in AttemptNo :
           <<i, m>> # <<j, n>> => task'[i][m] = task[i][m]
  PROVE  /\ TasksOf(p)' = TasksOf(p) \ {<<j, n>>}
         /\ \A q \in Process : q # p => TasksOf(q)' = TasksOf(q)
<1>1. task[j][n].proc = p
  BY TasksAreTheirs
<1>2. ASSUME NEW q \in Process, NEW i \in JobId, NEW m \in AttemptNo
      PROVE  <<i, m>> \in TasksOf(q)' <=> <<i, m>> \in TasksOf(q) /\ <<i, m>> # <<j, n>>
  BY <1>2 DEF TasksOf, Running
<1>3. \A q \in Process : TasksOf(q) \subseteq JobId \X AttemptNo
                        /\ TasksOf(q)' \subseteq JobId \X AttemptNo
  BY DEF TasksOf
<1>4. \A q \in Process : q # p => <<j, n>> \notin TasksOf(q)
  BY <1>1, TasksAreTheirs
<1>5. ASSUME NEW q \in Process PROVE TasksOf(q)' = TasksOf(q) \ {<<j, n>>}
  <2> DEFINE S == TasksOf(q)'
             T == TasksOf(q)
  <2>1. /\ S \subseteq JobId \X AttemptNo /\ T \subseteq JobId \X AttemptNo
        /\ \A i \in JobId, m \in AttemptNo :
             <<i, m>> \in S <=> <<i, m>> \in T /\ <<i, m>> # <<j, n>>
    BY <1>2, <1>3
  <2> HIDE DEF S, T
  <2> QED BY <2>1 DEF S, T
<1> QED BY <1>4, <1>5

LEMMA NoProcessMove ==
  ASSUME UNCHANGED process, \A p \in Process : TasksOf(p)' = TasksOf(p), WorkerInv
  PROVE  /\ process' \in [Process -> ProcessRow]
         /\ \A p \in Process :
              /\ process'[p].polled \subseteq process[p].polled
              /\ CountKept(p)
              /\ \A j \in JobId : ActiveKept(p, j)
BY DEF ActiveKept, CountKept, WorkerInv

LEMMA EnvironmentOrdinary ==
  ASSUME QueueInv, WorkerInv, Environment
  PROVE  Ordinary
<1>1. \A j \in JobId : Steady(j)
  BY EnqueueSteady, ReapSteady, TickSteady DEF Environment, Steady
<1>2. UNCHANGED <<task, process, notified, incidents>>
  BY DEF Environment
<1> QED BY <1>1, <1>2, NoMove, NoProcessMove DEF Ordinary, WorkerInv

\* One task that is replaced.
TaskBecomes(j, n, u) == task' = [task EXCEPT ![j] = [task[j] EXCEPT ![n] = u]]

LEMMA TaskReplaced ==
  ASSUME WorkerInv, NEW j \in JobId, NEW n \in AttemptNo, NEW u, TaskBecomes(j, n, u)
  PROVE  /\ task' = [i \in JobId |-> [m \in AttemptNo |-> task'[i][m]]]
         /\ task'[j][n] = u
         /\ \A i \in JobId, m \in AttemptNo :
              <<i, m>> # <<j, n>> => task'[i][m] = task[i][m]
<1>1. /\ task = [i \in JobId |-> task[i]]
      /\ \A i \in JobId : task[i] = [m \in AttemptNo |-> task[i][m]]
  BY DEF WorkerInv
<1>2. DOMAIN task = JobId /\ \A i \in JobId : DOMAIN task[i] = AttemptNo
  BY DEF WorkerInv
<1>3. task' = [i \in JobId |-> task'[i]]
  BY <1>1 DEF TaskBecomes
<1>4. ASSUME NEW i \in JobId PROVE task'[i] = [m \in AttemptNo |-> task'[i][m]]
  <2>1. CASE i = j
    BY <1>1, <1>2, <2>1 DEF TaskBecomes
  <2>2. CASE i # j
    BY <1>1, <1>2, <2>2 DEF TaskBecomes
  <2> QED BY <2>1, <2>2
<1>5. /\ task'[j][n] = u
      /\ \A i \in JobId, m \in AttemptNo : <<i, m>> # <<j, n>> => task'[i][m] = task[i][m]
  BY <1>2 DEF TaskBecomes
<1> QED BY <1>3, <1>4, <1>5

\* Setting two fields of one task.
TaskSet(j, n, phase, result) ==
  task' = [task EXCEPT ![j][n].phase = phase, ![j][n].result = result]

LEMMA TaskUpdated ==
  ASSUME WorkerInv, NEW j \in JobId, NEW n \in AttemptNo,
         NEW phase \in Phases, NEW result \in {"none", "ok", "error"},
         TaskSet(j, n, phase, result)
  PROVE  /\ task' = [i \in JobId |-> [m \in AttemptNo |-> task'[i][m]]]
         /\ \A i \in JobId, m \in AttemptNo :
              <<i, m>> # <<j, n>> => task'[i][m] = task[i][m]
         /\ task'[j][n] \in TaskRow
         /\ task'[j][n].proc = task[j][n].proc
         /\ task'[j][n].phase = phase /\ task'[j][n].result = result
<1> DEFINE t == task[j][n]
           u == [t EXCEPT !.phase = phase, !.result = result]
<1>1. t \in TaskRow /\ DOMAIN task = JobId /\ \A i \in JobId : DOMAIN task[i] = AttemptNo
  BY DEF WorkerInv, TaskSound
<1>2. TaskBecomes(j, n, u)
  BY <1>1 DEF TaskSet, TaskBecomes
<1> HIDE DEF t
<1>3. /\ u \in TaskRow /\ u.proc = t.proc /\ u.phase = phase /\ u.result = result
  BY <1>1 DEF TaskRow
<1> HIDE DEF u
<1>4. /\ task' = [i \in JobId |-> [m \in AttemptNo |-> task'[i][m]]]
      /\ task'[j][n] = u
      /\ \A i \in JobId, m \in AttemptNo :
           <<i, m>> # <<j, n>> => task'[i][m] = task[i][m]
  BY <1>2, TaskReplaced
<1> QED BY <1>3, <1>4 DEF t

LEMMA ProcessUpdated ==
  ASSUME WorkerInv, NEW p \in Process, NEW r \in ProcessRow,
         process' = [process EXCEPT ![p] = r]
  PROVE  /\ process' \in [Process -> ProcessRow]
         /\ process'[p] = r
         /\ \A q \in Process : q # p => process'[q] = process[q]
BY DEF WorkerInv

LEMMA FinishMoves ==
  ASSUME WorkerInv, NEW p \in Process, NEW j \in JobId, NEW n \in AttemptNo,
         <<j, n>> \in TasksOf(p), NEW result \in {"none", "ok", "error"},
         task[j][n].result = "ok" => result = "ok", Finish(j, n, result)
  PROVE  /\ task' = [i \in JobId |-> [m \in AttemptNo |-> task'[i][m]]]
         /\ \A i \in JobId, m \in AttemptNo :
              /\ TaskMove(i, m)
              /\ task'[i][m].phase = "failed" => task[i][m].phase = "failed"
         /\ task'[j][n].phase = "done" /\ task'[j][n].result = result
         /\ process' \in [Process -> ProcessRow]
         /\ \A q \in Process :
              /\ process'[q].polled \subseteq process[q].polled
              /\ CountKept(q)
              /\ \A i \in JobId : ActiveKept(q, i)
<1>0. task[j][n].proc = p /\ task[j][n].phase \in Running
  BY TasksAreTheirs
<1>1. TaskSet(j, n, "done", result)
  BY DEF Finish, TaskSet
<1>2. /\ task' = [i \in JobId |-> [m \in AttemptNo |-> task'[i][m]]]
      /\ \A i \in JobId, m \in AttemptNo :
           <<i, m>> # <<j, n>> => task'[i][m] = task[i][m]
      /\ task'[j][n] \in TaskRow
      /\ task'[j][n].proc = task[j][n].proc
      /\ task'[j][n].phase = "done" /\ task'[j][n].result = result
  BY <1>1, TaskUpdated DEF Phases
<1>3. ASSUME NEW i \in JobId, NEW m \in AttemptNo
      PROVE  /\ TaskMove(i, m)
             /\ task'[i][m].phase = "failed" => task[i][m].phase = "failed"
  BY <1>0, <1>2 DEF TaskMove
<1> DEFINE r == process[p]
           count == IF r.activeByType <= 1 THEN 0 ELSE r.activeByType - 1
           e == [r EXCEPT !.active[j] = 0, !.controllers[j] = 0, !.activeByType = count]
<1>4. process' = [process EXCEPT ![p].active[j] = 0, ![p].controllers[j] = 0,
                                 ![p].activeByType = count]
  BY <1>0 DEF Finish, WorkerInv, ProcessRow
<1>9. count \in Nat
  <2>1. r.activeByType \in Nat
    BY DEF WorkerInv, ProcessRow
  <2> HIDE DEF r
  <2> QED BY <2>1
<1> HIDE DEF count
<1>5. r \in ProcessRow /\ process' = [process EXCEPT ![p] = e]
  BY <1>4 DEF WorkerInv
<1> HIDE DEF r
<1>6. /\ e \in ProcessRow /\ e.polled = r.polled /\ e.activeByType = count
      /\ \A i \in JobId : i # j => e.active[i] = r.active[i]
  <2> DEFINE a == [r.active EXCEPT ![j] = 0]
             c == [r.controllers EXCEPT ![j] = 0]
  <2>1. 0 \in 0..MaxAttempts
    BY ConstantsAssumption
  <2>2. /\ a \in [JobId -> 0..MaxAttempts] /\ c \in [JobId -> 0..MaxAttempts]
        /\ \A i \in JobId : i # j => a[i] = r.active[i]
    BY <1>5, <2>1 DEF ProcessRow
  <2>3. e = [r EXCEPT !.active = a, !.controllers = c, !.activeByType = count]
    BY <1>5 DEF ProcessRow
  <2> HIDE DEF a, c
  <2> QED BY <1>5, <1>9, <2>2, <2>3 DEF ProcessRow
<1> HIDE DEF e
<1>7. /\ process' \in [Process -> ProcessRow] /\ process'[p] = e
      /\ \A q \in Process : q # p => process'[q] = process[q]
  BY <1>5, <1>6, ProcessUpdated
<1>8. ASSUME NEW q \in Process
      PROVE  /\ process'[q].polled \subseteq process[q].polled
             /\ \A i \in JobId : ActiveKept(q, i)
  BY <1>2, <1>6, <1>7 DEF r, ActiveKept
<1>10. /\ TasksOf(p)' = TasksOf(p) \ {<<j, n>>}
       /\ \A q \in Process : q # p => TasksOf(q)' = TasksOf(q)
  BY <1>2, OneTaskEnds
<1>11. ASSUME NEW q \in Process PROVE CountKept(q)
  BY <1>6, <1>7, <1>10 DEF r, count, CountKept
<1> QED BY <1>2, <1>3, <1>7, <1>8, <1>11

LEMMA AdvanceMoves ==
  ASSUME WorkerInv, NEW p \in Process, NEW j \in JobId, NEW n \in AttemptNo,
         <<j, n>> \in TasksOf(p), NEW result \in {"none", "ok", "error"},
         NEW phase \in Running \ {"handling", "rejecting"},
         task[j][n].result = "ok" => result = "ok",
         phase = "completing" => result = "ok", Advance(j, n, phase, result)
  PROVE  /\ task' = [i \in JobId |-> [m \in AttemptNo |-> task'[i][m]]]
         /\ \A i \in JobId, m \in AttemptNo :
              /\ TaskMove(i, m)
              /\ task'[i][m].phase = "failed" =>
                   task[i][m].phase = "failed" \/ (i = j /\ m = n /\ phase = "failed")
         /\ process' \in [Process -> ProcessRow]
         /\ \A q \in Process :
              /\ process'[q].polled \subseteq process[q].polled
              /\ CountKept(q)
              /\ \A i \in JobId : ActiveKept(q, i)
<1>0. task[j][n].proc = p /\ task[j][n].phase \in Running
  BY TasksAreTheirs
<1>1. TaskSet(j, n, phase, result)
  BY DEF Advance, TaskSet
<1>2. /\ task' = [i \in JobId |-> [m \in AttemptNo |-> task'[i][m]]]
      /\ \A i \in JobId, m \in AttemptNo :
           <<i, m>> # <<j, n>> => task'[i][m] = task[i][m]
      /\ task'[j][n] \in TaskRow
      /\ task'[j][n].proc = task[j][n].proc
      /\ task'[j][n].phase = phase /\ task'[j][n].result = result
  <2> phase \in Phases
    BY DEF Running
  <2> QED BY <1>1, TaskUpdated
<1>3. ASSUME NEW i \in JobId, NEW m \in AttemptNo
      PROVE  /\ TaskMove(i, m)
             /\ task'[i][m].phase = "failed" =>
                   task[i][m].phase = "failed" \/ (i = j /\ m = n /\ phase = "failed")
  BY <1>0, <1>2 DEF TaskMove, Running
<1>4. \A q \in Process : TasksOf(q)' = TasksOf(q)
  BY <1>0, <1>2, SameTasks
<1> QED BY <1>2, <1>3, <1>4, NoProcessMove DEF Advance

LEMMA HandlerOrdinary ==
  ASSUME QueueInv, WorkerInv, NEW p \in Process, NEW j \in JobId, NEW n \in AttemptNo,
         <<j, n>> \in TasksOf(p), NEW result \in {"ok", "error"}, HandlerEnds(j, n, result)
  PROVE  Ordinary
<1>1. task[j][n].result # "ok"
  <2>1. task[j][n].phase = "handling" /\ TaskSound(j, n)
    BY DEF HandlerEnds, WorkerInv
  <2> QED BY <2>1 DEF TaskSound
<1>2. \A i \in JobId : Steady(i)
  BY QuietSteady DEF HandlerEnds, Steady
<1>3. notified' = notified /\ incidents' \in 0..MaxIncidents
  BY DEF HandlerEnds, WorkerInv
<1>4. CASE Finish(j, n, result)
  BY <1>1, <1>2, <1>3, <1>4, FinishMoves DEF Ordinary
<1>5. CASE Advance(j, n, IF result = "ok" THEN "completing" ELSE "failing", result)
  <2> DEFINE phase == IF result = "ok" THEN "completing" ELSE "failing"
  <2>1. /\ phase \in Running \ {"handling", "rejecting"} /\ phase # "failed"
        /\ phase = "completing" => result = "ok"
    BY DEF Running, Phases
  <2> HIDE DEF phase
  <2> QED BY <1>1, <1>2, <1>3, <1>5, <2>1, AdvanceMoves DEF Ordinary, phase
<1> QED BY <1>4, <1>5 DEF HandlerEnds

LEMMA CompleteOrdinary ==
  ASSUME QueueInv, WorkerInv, NEW p \in Process, NEW j \in JobId, NEW n \in AttemptNo,
         <<j, n>> \in TasksOf(p), CompleteCall(j, n)
  PROVE  Ordinary
<1>1. task[j][n].proc = p /\ task[j][n].phase = "completing" /\ task[j][n].result = "ok"
  <2>1. task[j][n].phase = "completing" /\ TaskSound(j, n)
    BY DEF CompleteCall, WorkerInv
  <2> QED BY <2>1, TasksAreTheirs DEF TaskSound
<1>2. Finish(j, n, "ok")
  BY <1>1 DEF CompleteCall
<1>3. task'[j][n].phase = "done" /\ task'[j][n].result = "ok"
  BY <1>1, <1>2, FinishMoves
<1>4. \A i \in JobId : Steady(i) \/ CompletedByTask(i)
  <2>1. CASE CompleteJob(j, IdOf[p])
    <3>1. CompletedNow(j) /\ \A i \in JobId : i # j => Unmoved(i)
      BY <2>1, CompleteMoves, WorkerAssumption
    <3>2. CompletedByTask(j)
      BY <1>3, <2>1, <3>1 DEF CompletedByTask, CompleteJob
    <3> QED BY <3>1, <3>2 DEF Steady
  <2>2. CASE UNCHANGED queueVars
    BY <2>2, QuietSteady DEF Steady
  <2> QED BY <1>1, <2>1, <2>2 DEF CompleteCall
<1>5. notified' = notified /\ incidents' \in 0..MaxIncidents
  BY DEF CompleteCall, WorkerInv
<1> QED BY <1>1, <1>2, <1>4, <1>5, FinishMoves DEF Ordinary

LEMMA FailOrdinary ==
  ASSUME QueueInv, WorkerInv, NEW p \in Process, NEW j \in JobId, NEW n \in AttemptNo,
         <<j, n>> \in TasksOf(p), FailCall(j, n)
  PROVE  Ordinary
<1> DEFINE result == task[j][n].result
           effect == \/ \E retryable \in BOOLEAN, delay \in RetryDelay :
                          FailJob(j, IdOf[p], retryable, delay)
                     \/ ~HeldBy(j, IdOf[p]) /\ UNCHANGED queueVars
<1>1. task[j][n].proc = p /\ result \in {"none", "ok", "error"}
  BY TasksAreTheirs DEF WorkerInv, TaskSound, TaskRow
<1>2. \/ effect /\ Advance(j, n, "failed", result)
      \/ \E phase \in {"failing", "errored"} :
           (effect \/ UNCHANGED queueVars) /\ Advance(j, n, phase, result)
  <2>1. Classify \subseteq BOOLEAN
    BY WorkerAssumption
  <2> QED BY <1>1, <2>1, Zenon DEF FailCall
<1>3. effect => (\A i \in JobId : Steady(i)) /\ FailReported(j, n)
  <2>1. ASSUME NEW retryable \in BOOLEAN, NEW delay \in RetryDelay,
               FailJob(j, IdOf[p], retryable, delay)
        PROVE  (\A i \in JobId : Steady(i)) /\ FailReported(j, n)
    BY <2>1, FailSteady, WorkerAssumption DEF FailReported
  <2>2. ASSUME ~HeldBy(j, IdOf[p]), UNCHANGED queueVars
        PROVE  (\A i \in JobId : Steady(i)) /\ FailReported(j, n)
    BY <1>1, <2>2, QuietSteady DEF FailReported, Steady
  <2> QED BY <2>1, <2>2
<1>4. UNCHANGED queueVars => \A i \in JobId : Steady(i)
  BY QuietSteady DEF Steady
<1>5. notified' = notified /\ incidents' \in 0..MaxIncidents
  BY DEF FailCall, WorkerInv
<1> HIDE DEF effect
<1>6. ASSUME NEW phase \in {"failed", "failing", "errored"}, Advance(j, n, phase, result)
      PROVE  /\ task' = [i \in JobId |-> [m \in AttemptNo |-> task'[i][m]]]
             /\ \A i \in JobId, m \in AttemptNo :
                  /\ TaskMove(i, m)
                  /\ task'[i][m].phase = "failed" =>
                       task[i][m].phase = "failed" \/ (i = j /\ m = n /\ phase = "failed")
             /\ process' \in [Process -> ProcessRow]
             /\ \A q \in Process :
                  /\ process'[q].polled \subseteq process[q].polled
                  /\ CountKept(q)
                  /\ \A i \in JobId : ActiveKept(q, i)
  <2>1. phase \in Running \ {"handling", "rejecting"} /\ phase # "completing"
    BY DEF Running, Phases
  <2> HIDE DEF result
  <2> QED BY <1>1, <1>6, <2>1, AdvanceMoves DEF result
<1>7. CASE effect /\ Advance(j, n, "failed", result)
  BY <1>3, <1>5, <1>6, <1>7 DEF Ordinary
<1>8. ASSUME NEW phase \in {"failing", "errored"}, effect \/ UNCHANGED queueVars,
             Advance(j, n, phase, result)
      PROVE  Ordinary
  BY <1>3, <1>4, <1>5, <1>6, <1>8 DEF Ordinary
<1> QED BY <1>2, <1>7, <1>8

LEMMA ReturnOrdinary ==
  ASSUME QueueInv, WorkerInv, NEW p \in Process, NEW j \in JobId, NEW n \in AttemptNo,
         <<j, n>> \in TasksOf(p), FailReturns(j, n)
  PROVE  Ordinary
<1>1. task[j][n].result \in {"none", "ok", "error"}
  BY DEF WorkerInv, TaskSound, TaskRow
<1>2. \A i \in JobId : Steady(i)
  BY QuietSteady DEF FailReturns, Steady
<1>3. /\ incidents' \in 0..MaxIncidents
      /\ notified' \subseteq notified \cup {i \in JobId : \E m \in AttemptNo :
                        task[i][m].phase = "failed" /\ NotifiesTerminal(i, m)}
  BY DEF FailReturns, WorkerInv
<1>4. Finish(j, n, task[j][n].result)
  BY DEF FailReturns
<1> QED BY <1>1, <1>2, <1>3, <1>4, FinishMoves DEF Ordinary

LEMMA HeartbeatOrdinary ==
  ASSUME QueueInv, WorkerInv, NEW p \in Process, NEW j \in JobId, NEW n \in AttemptNo,
         <<j, n>> \in TasksOf(p), Heartbeat(j, n)
  PROVE  Ordinary
<1>1. task[j][n].proc = p /\ task[j][n].phase \in Running
  BY TasksAreTheirs
<1>2. \A i \in JobId : Steady(i)
  BY <1>1, HeartbeatSteady, QuietSteady, WorkerAssumption DEF Heartbeat, Steady
<1>3. /\ UNCHANGED <<process, notified>> /\ incidents' \in 0..MaxIncidents
  BY DEF Heartbeat, WorkerInv
<1>4. CASE UNCHANGED task
  BY <1>2, <1>3, <1>4, NoMove, NoProcessMove DEF Ordinary
<1>5. CASE Abort(j, n)
  <2> DEFINE t == task[j][n]
             aborted == t.aborted \/ t.phase = "handling"
             u == [t EXCEPT !.aborted = aborted]
  <2>1. /\ t \in TaskRow /\ aborted \in BOOLEAN
        /\ DOMAIN task = JobId /\ \A i \in JobId : DOMAIN task[i] = AttemptNo
    BY DEF WorkerInv, TaskSound, TaskRow
  <2>2. TaskBecomes(j, n, u)
    BY <1>5, <2>1 DEF Abort, TaskBecomes
  <2> HIDE DEF t, aborted
  <2>3. u \in TaskRow /\ u.proc = t.proc /\ u.phase = t.phase /\ u.result = t.result
    BY <2>1 DEF TaskRow
  <2> HIDE DEF u
  <2>4. /\ task' = [i \in JobId |-> [m \in AttemptNo |-> task'[i][m]]]
        /\ task'[j][n] = u
        /\ \A i \in JobId, m \in AttemptNo :
             <<i, m>> # <<j, n>> => task'[i][m] = task[i][m]
    BY <2>2, TaskReplaced
  <2>5. /\ t.phase # "none"
        /\ t.phase = "completing" => t.result = "ok"
    BY <1>1 DEF t, Running, WorkerInv, TaskSound
  <2>6. TaskMove(j, n) /\ (task'[j][n].phase = "failed" => task[j][n].phase = "failed")
    BY <1>1, <2>3, <2>4, <2>5 DEF TaskMove, t
  <2>7. \A i \in JobId, m \in AttemptNo :
          TaskMove(i, m) /\ (task'[i][m].phase = "failed" => task[i][m].phase = "failed")
    BY <2>4, <2>6 DEF TaskMove
  <2>8. \A q \in Process : TasksOf(q)' = TasksOf(q)
    <3>1. task'[j][n].proc = task[j][n].proc /\ task'[j][n].phase = task[j][n].phase
      BY <2>3, <2>4 DEF t
    <3> QED BY <2>4, <3>1, SameTasks
  <2> QED BY <1>2, <1>3, <2>4, <2>7, <2>8, NoProcessMove DEF Ordinary
<1> QED BY <1>4, <1>5 DEF Heartbeat

\* A step of a process that touches neither its polled rows nor active.
LEMMA ProcessMoves ==
  ASSUME WorkerInv, NEW p \in Process, NEW r \in ProcessRow,
         process' = [process EXCEPT ![p] = r],
         r.polled \subseteq process[p].polled, r.active = process[p].active,
         r.activeByType = process[p].activeByType,
         \A q \in Process : TasksOf(q)' = TasksOf(q)
  PROVE  /\ process' \in [Process -> ProcessRow]
         /\ \A q \in Process :
              /\ process'[q].polled \subseteq process[q].polled
              /\ CountKept(q)
              /\ \A j \in JobId : ActiveKept(q, j)
<1>1. /\ process' \in [Process -> ProcessRow] /\ process'[p] = r
      /\ \A q \in Process : q # p => process'[q] = process[q]
  BY ProcessUpdated
<1> QED BY <1>1 DEF ActiveKept, CountKept

\* shutdown() and a restart: nothing but the process changes.
LEMMA ModeOrdinary ==
  ASSUME QueueInv, WorkerInv, NEW p \in Process,
         Stop(p) \/ Drained(p) \/ Forced(p) \/ Restart(p)
  PROVE  Ordinary
<1> DEFINE s == process[p]
           with(mode, draining) == [s EXCEPT !.mode = mode, !.draining = draining]
<1>1. PICK mode \in {"up", "draining", "drained", "forcing", "forced", "down"},
           draining \in SUBSET (JobId \X AttemptNo) :
        process' = [process EXCEPT ![p] = with(mode, draining)]
  <2>0. s \in ProcessRow
    BY DEF WorkerInv
  <2>1. ASSUME Stop(p)
        PROVE  \E mode \in {"draining", "drained"}, draining \in SUBSET (JobId \X AttemptNo) :
                 process' = [process EXCEPT ![p] = with(mode, draining)]
    <3> DEFINE active == {t \in {<<j, s.active[j]>> : j \in JobId} : t[2] # 0}
               mode == IF active = {} THEN "drained" ELSE "draining"
    <3>1. active \in SUBSET (JobId \X AttemptNo)
      <4> SUFFICES ASSUME NEW j \in JobId, s.active[j] # 0 PROVE s.active[j] \in AttemptNo
        OBVIOUS
      <4>1. s.active[j] \in 0..MaxAttempts
        BY <2>0 DEF ProcessRow
      <4> QED BY <4>1, ConstantsAssumption DEF AttemptNo
    <3>2. process' = [process EXCEPT ![p].mode = mode, ![p].draining = active]
      BY <2>1 DEF Stop
    <3>3. mode \in {"draining", "drained"}
      OBVIOUS
    <3> HIDE DEF active, mode
    <3> QED BY <2>0, <3>1, <3>2, <3>3 DEF WorkerInv
  <2>2. ASSUME Drained(p) PROVE process' = [process EXCEPT ![p] = with("drained", {})]
    BY <2>0, <2>2 DEF Drained, WorkerInv
  <2>3. ASSUME NEW mode, process' = [process EXCEPT ![p].mode = mode]
        PROVE  process' = [process EXCEPT ![p] = with(mode, s.draining)]
    <3>1. with(mode, s.draining) = [s EXCEPT !.mode = mode]
      BY <2>0 DEF ProcessRow
    <3> QED BY <2>3, <3>1 DEF WorkerInv
  <2>4. s.draining \in SUBSET (JobId \X AttemptNo)
    BY <2>0 DEF ProcessRow
  <2>5. CASE Stop(p)
    BY <2>1, <2>5
  <2>6. CASE Drained(p)
    BY <2>2, <2>6
  <2>7. CASE Forced(p) \/ Restart(p)
    BY <2>3, <2>4, <2>7 DEF Forced, Restart
  <2> QED BY <2>5, <2>6, <2>7
<1>2. /\ with(mode, draining) \in ProcessRow
      /\ with(mode, draining).polled = s.polled /\ with(mode, draining).active = s.active
      /\ with(mode, draining).activeByType = s.activeByType
  <2>1. s \in ProcessRow
    BY DEF WorkerInv
  <2> HIDE DEF s
  <2> QED BY <2>1 DEF ProcessRow
<1>3. /\ UNCHANGED <<queueVars, task, notified>> /\ incidents' \in 0..MaxIncidents
  BY WorkerAssumption DEF Stop, Drained, Forced, Restart, WorkerInv
<1> HIDE DEF with
<1> QED BY <1>1, <1>2, <1>3, ProcessMoves, NoMove, QuietSteady DEF Ordinary, Steady

\* A release, whatever becomes of the call.
LEMMA ReleaseOrdinary ==
  ASSUME QueueInv, WorkerInv, NEW p \in Process, NEW j \in JobId,
         ReleaseOverflow(p, j) \/ ReleaseActive(p, j)
  PROVE  Ordinary
<1> DEFINE s == process[p]
           with(overflow, releasing) ==
             [s EXCEPT !.overflow = overflow, !.releasing = releasing]
<1>0. s \in ProcessRow /\ s.overflow \subseteq JobId /\ s.releasing \subseteq JobId
  BY DEF WorkerInv, ProcessRow
<1>1. PICK overflow \in SUBSET JobId, releasing \in SUBSET JobId :
        process' = [process EXCEPT ![p] = with(overflow, releasing)]
  <2>1. ASSUME ReleaseOverflow(p, j)
        PROVE  process' = [process EXCEPT ![p] = with(s.overflow \ {j}, s.releasing)]
    <3>1. with(s.overflow \ {j}, s.releasing) = [s EXCEPT !.overflow = @ \ {j}]
      BY <1>0 DEF ProcessRow
    <3> QED BY <2>1, <3>1 DEF ReleaseOverflow, WorkerInv
  <2>2. ASSUME ReleaseActive(p, j)
        PROVE  process' = [process EXCEPT ![p] = with(s.overflow, s.releasing \ {j})]
    <3>1. with(s.overflow, s.releasing \ {j}) = [s EXCEPT !.releasing = @ \ {j}]
      BY <1>0 DEF ProcessRow
    <3> QED BY <2>2, <3>1 DEF ReleaseActive, WorkerInv
  <2> HIDE DEF with
  <2> QED BY <1>0, <2>1, <2>2
<1>2. /\ with(overflow, releasing) \in ProcessRow
      /\ with(overflow, releasing).polled = s.polled
      /\ with(overflow, releasing).active = s.active
      /\ with(overflow, releasing).activeByType = s.activeByType
  <2> HIDE DEF s
  <2> QED BY <1>0 DEF ProcessRow
<1>3. /\ UNCHANGED <<task, notified>> /\ incidents' \in 0..MaxIncidents
      /\ ReleaseEffect(j, IdOf[p])
  BY DEF ReleaseOverflow, ReleaseActive, WorkerInv
<1>4. \A i \in JobId : Steady(i)
  BY <1>3, ReleaseSteady, QuietSteady, WorkerAssumption DEF ReleaseEffect, Steady
<1> HIDE DEF with
<1> QED BY <1>1, <1>2, <1>3, <1>4, ProcessMoves, NoMove DEF Ordinary

\* Tasks that are changed in one field, all at once.
LEMMA ForceOrdinary ==
  ASSUME QueueInv, WorkerInv, NEW p \in Process, ForceShutdown(p)
  PROVE  Ordinary
<1> DEFINE s == process[p]
           listed == {j \in JobId : s.controllers[j] # 0}
           hit(j, n) == j \in listed /\ n = s.controllers[j] /\ task[j][n].phase = "handling"
           r == [s EXCEPT !.mode = "forcing", !.draining = {}, !.releasing = listed]
<1>1. s \in ProcessRow /\ process' = [process EXCEPT ![p] = r]
  BY DEF ForceShutdown, WorkerInv
<1>2. listed \in SUBSET JobId
  OBVIOUS
<1>3. /\ r \in ProcessRow /\ r.polled = s.polled /\ r.active = s.active
      /\ r.activeByType = s.activeByType
  <2> HIDE DEF s, listed
  <2> QED BY <1>1, <1>2 DEF ProcessRow
<1>4. task' = [j \in JobId |-> [n \in AttemptNo |->
                 IF hit(j, n) THEN [task[j][n] EXCEPT !.aborted = TRUE] ELSE task[j][n]]]
  BY DEF ForceShutdown
<1> HIDE DEF hit, r
<1>5. ASSUME NEW j \in JobId, NEW n \in AttemptNo
      PROVE  /\ TaskMove(j, n) /\ (task'[j][n].phase = "failed" => task[j][n].phase = "failed")
             /\ task'[j][n].proc = task[j][n].proc /\ task'[j][n].phase = task[j][n].phase
  <2>1. CASE ~hit(j, n)
    BY <1>4, <2>1 DEF TaskMove
  <2>2. CASE hit(j, n)
    <3> DEFINE t == task[j][n]
               u == [t EXCEPT !.aborted = TRUE]
    <3>1. t \in TaskRow /\ t.phase = "handling" /\ task'[j][n] = u
      BY <1>4, <2>2 DEF hit, WorkerInv, TaskSound
    <3> HIDE DEF t
    <3>2. u \in TaskRow /\ u.proc = t.proc /\ u.phase = t.phase /\ u.result = t.result
      BY <3>1 DEF TaskRow
    <3> HIDE DEF u
    <3> QED BY <3>1, <3>2 DEF t, TaskMove, Running, Phases
  <2> QED BY <2>1, <2>2
<1>6. task' = [j \in JobId |-> [n \in AttemptNo |-> task'[j][n]]]
  BY <1>4
<1>7. /\ notified' = notified /\ incidents' \in 0..MaxIncidents
      /\ \A j \in JobId : Steady(j)
  BY QuietSteady DEF ForceShutdown, WorkerInv, Steady
<1>8. \A q \in Process : TasksOf(q)' = TasksOf(q)
  BY <1>5, SameTasks
<1> QED BY <1>1, <1>3, <1>5, <1>6, <1>7, <1>8, ProcessMoves DEF Ordinary

LEMMA StartedRow ==
  ASSUME NEW mode \in {"up", "down"}
  PROVE  /\ Started(mode) \in ProcessRow /\ Started(mode).polled = {}
         /\ Started(mode).activeByType = 0
         /\ \A j \in JobId : Started(mode).active[j] = 0
BY ConstantsAssumption DEF Started, ProcessRow

LEMMA GoneOrdinary ==
  ASSUME QueueInv, WorkerInv, NEW p \in Process, Exit(p) \/ Crash(p)
  PROVE  Ordinary
<1>1. Gone(p)
  BY DEF Exit, Crash
<1>2. /\ process' \in [Process -> ProcessRow] /\ process'[p] = Started("down")
      /\ \A q \in Process : q # p => process'[q] = process[q]
  BY <1>1, StartedRow, ProcessUpdated DEF Gone
<1>3. task' = [j \in JobId |-> [n \in AttemptNo |->
                 IF <<j, n>> \in TasksOf(p)
                 THEN [task[j][n] EXCEPT !.phase = "done"] ELSE task[j][n]]]
  BY <1>1 DEF Gone
<1>4. ASSUME NEW j \in JobId, NEW n \in AttemptNo
      PROVE  /\ TaskMove(j, n)
             /\ task'[j][n].phase = "failed" => task[j][n].phase = "failed"
             /\ <<j, n>> \in TasksOf(p) => task'[j][n].phase = "done"
  <2>1. CASE <<j, n>> \notin TasksOf(p)
    BY <1>3, <2>1 DEF TaskMove
  <2>2. CASE <<j, n>> \in TasksOf(p)
    <3> DEFINE t == task[j][n]
               u == [t EXCEPT !.phase = "done"]
    <3>1. t \in TaskRow /\ t.phase \in Running /\ task'[j][n] = u
      BY <1>3, <2>2, TasksAreTheirs DEF WorkerInv, TaskSound
    <3> HIDE DEF t
    <3>2. u \in TaskRow /\ u.proc = t.proc /\ u.phase = "done" /\ u.result = t.result
      BY <3>1 DEF TaskRow, Phases
    <3> HIDE DEF u
    <3> QED BY <3>1, <3>2 DEF t, TaskMove
  <2> QED BY <2>1, <2>2
<1>5. task' = [j \in JobId |-> [n \in AttemptNo |-> task'[j][n]]]
  BY <1>3
<1>8. ASSUME NEW q \in Process, NEW j \in JobId, NEW n \in AttemptNo
      PROVE  <<j, n>> \in TasksOf(q)' <=> <<j, n>> \in TasksOf(q) /\ q # p
  <2>1. CASE <<j, n>> \in TasksOf(p)
    <3>1. task'[j][n].phase \notin Running /\ task[j][n].proc = p
      BY <1>4, <2>1, TasksAreTheirs DEF Running
    <3> QED BY <3>1, TasksAreTheirs DEF TasksOf
  <2>2. CASE <<j, n>> \notin TasksOf(p)
    <3>1. task'[j][n] = task[j][n]
      BY <1>3, <2>2
    <3> QED BY <2>2, <3>1 DEF TasksOf
  <2> QED BY <2>1, <2>2
<1>9. /\ TasksOf(p)' = {}
      /\ \A q \in Process : q # p => TasksOf(q)' = TasksOf(q)
  <2>1. \A q \in Process : TasksOf(q) \subseteq JobId \X AttemptNo
                          /\ TasksOf(q)' \subseteq JobId \X AttemptNo
    BY DEF TasksOf
  <2> QED BY <1>8, <2>1
<1>6. ASSUME NEW q \in Process
      PROVE  /\ process'[q].polled \subseteq process[q].polled
             /\ CountKept(q)
             /\ \A j \in JobId : ActiveKept(q, j)
  <2>1. CASE q = p
    BY <1>2, <1>4, <1>9, <2>1, StartedRow DEF ActiveKept, CountKept
  <2>2. CASE q # p
    BY <1>2, <1>9, <2>2 DEF ActiveKept, CountKept
  <2> QED BY <2>1, <2>2
<1>7. /\ notified' = notified /\ incidents' \in 0..MaxIncidents
      /\ \A j \in JobId : Steady(j)
  BY QuietSteady, WorkerAssumption DEF Exit, Crash, WorkerInv, Steady
<1> QED BY <1>2, <1>4, <1>5, <1>6, <1>7 DEF Ordinary

LEMMA StutterOrdinary ==
  ASSUME QueueInv, WorkerInv, UNCHANGED allVars
  PROVE  Ordinary
<1>1. UNCHANGED <<queueVars, task, process, notified, incidents>>
  BY DEF allVars, queueVars
<1> QED BY <1>1, NoMove, NoProcessMove, QuietSteady DEF Ordinary, Steady, WorkerInv

LEMMA StepKinds ==
  ASSUME QueueInv, WorkerInv, [WorkerNext]_allVars
  PROVE  Ordinary \/ \E p \in Process : Poll(p) \/ Receive(p)
<1>1. CASE Environment
  BY <1>1, EnvironmentOrdinary
<1>2. ASSUME NEW p \in Process, NEW t \in TasksOf(p),
             \/ \E result \in {"ok", "error"} : HandlerEnds(t[1], t[2], result)
             \/ CompleteCall(t[1], t[2]) \/ FailCall(t[1], t[2])
             \/ FailReturns(t[1], t[2]) \/ Heartbeat(t[1], t[2])
      PROVE  Ordinary
  <2>1. t[1] \in JobId /\ t[2] \in AttemptNo /\ <<t[1], t[2]>> \in TasksOf(p)
    BY TaskOf
  <2> QED BY <1>2, <2>1, HandlerOrdinary, CompleteOrdinary, FailOrdinary, ReturnOrdinary,
             HeartbeatOrdinary
<1>3. ASSUME NEW p \in Process,
             \/ \E j \in JobId : ReleaseOverflow(p, j) \/ ReleaseActive(p, j)
             \/ Drained(p) \/ Forced(p) \/ Exit(p) \/ Restart(p)
             \/ Stop(p) \/ ForceShutdown(p) \/ Crash(p)
      PROVE  Ordinary
  BY <1>3, ReleaseOrdinary, ModeOrdinary, ForceOrdinary, GoneOrdinary
<1>4. CASE UNCHANGED allVars
  BY <1>4, StutterOrdinary
<1> QED BY <1>1, <1>2, <1>3, <1>4 DEF WorkerNext, ProcessStep

-----------------------------------------------------------------------------
\* The other two steps: a claim, and the start of what was claimed.

\* A claim, in the terms the invariants are kept in.
ClaimedRows(p, S, answer) ==
  /\ S \in SUBSET JobId /\ answer \in SUBSET S
  /\ \A j \in JobId : IF j \in S THEN ClaimedBy(j, IdOf[p]) ELSE Unmoved(j)
  /\ process' \in [Process -> ProcessRow]
  /\ process'[p].polled = {<<j, job[j].attempt_count + 1>> : j \in answer}
  /\ process'[p].active = process[p].active
  /\ process'[p].activeByType = process[p].activeByType
  /\ \A q \in Process : q # p => process'[q] = process[q]

\* The attempt a claim opens: it is in the budget, and no task has its number.
LEMMA NextAttempt ==
  ASSUME QueueInv, WorkerInv, NEW j \in JobId, job[j].status \in {"queued", "retry_wait"}
  PROVE  /\ job[j].attempt_count \in Nat
         /\ job[j].attempt_count + 1 \in AttemptNo
         /\ task[j][job[j].attempt_count + 1].phase = "none"
<1> DEFINE n == job[j].attempt_count
<1>1. RowSound(job[j]) /\ job[j].key \in Key /\ n \in Nat
  BY DEF QueueInv, Sound, RowSound, Row, Live
<1>2. MaxAttemptsOf[job[j].key] \in 1..MaxAttempts
  BY <1>1, ConstantsAssumption
<1>3. n < MaxAttemptsOf[job[j].key]
  BY <1>1, <1>2 DEF RowSound
<1> HIDE DEF n
<1>4. n + 1 \in AttemptNo
  BY <1>1, <1>2, <1>3, ConstantsAssumption DEF AttemptNo
<1>5. task[j][n + 1].phase = "none"
  BY <1>1, <1>4 DEF WorkerInv, TaskSound, n
<1> QED BY <1>1, <1>4, <1>5 DEF n

LEMMA PollClaims ==
  ASSUME QueueInv, WorkerInv, NEW p \in Process, Poll(p)
  PROVE  \E S, answer \in SUBSET JobId :
           /\ ClaimedRows(p, S, answer)
           /\ \E limit \in Nat : /\ limit = ClaimLimit - ActiveSize(p)
                                 /\ Cardinality(S) <= limit
<1> DEFINE limit == ClaimLimit - ActiveSize(p)
<1>1. limit \in Nat
  <2>1. ActiveSize(p) \in Nat /\ ActiveSize(p) < ClaimLimit
    BY ActiveCounted DEF Poll
  <2> QED BY <2>1, ConstantsAssumption
<1>2. PICK S \in ClaimBatches(IdOf[p], limit) :
        /\ ClaimBatch(IdOf[p], S)
        /\ \E answer \in {S, {}} :
             process' = [process EXCEPT ![p].polled =
                           {<<j, job[j].attempt_count + 1>> : j \in answer}]
  BY DEF Poll
<1>0. PICK answer \in {S, {}} :
        process' = [process EXCEPT ![p].polled =
                      {<<j, job[j].attempt_count + 1>> : j \in answer}]
  BY <1>2
<1>3. S \in SUBSET JobId /\ answer \in SUBSET S /\ Cardinality(S) <= limit
  BY <1>0, <1>2 DEF ClaimBatches, Claimable
<1>4. \A j \in JobId : IF j \in S THEN ClaimedBy(j, IdOf[p]) ELSE Unmoved(j)
  <2> HIDE DEF limit
  <2> QED BY <1>2, ClaimMoves, WorkerAssumption
<1> DEFINE s == process[p]
           rows == {<<j, job[j].attempt_count + 1>> : j \in answer}
           r == [s EXCEPT !.polled = rows]
<1>5. rows \in SUBSET (JobId \X AttemptNo)
  <2> SUFFICES ASSUME NEW j \in answer PROVE <<j, job[j].attempt_count + 1>> \in JobId \X AttemptNo
    OBVIOUS
  <2>1. j \in JobId /\ ClaimedBy(j, IdOf[p])
    BY <1>3, <1>4
  <2> QED BY <2>1, NextAttempt DEF ClaimedBy
<1>6. s \in ProcessRow /\ process' = [process EXCEPT ![p] = r]
  BY <1>0 DEF WorkerInv
<1>7. /\ r \in ProcessRow /\ r.polled = rows /\ r.active = s.active
      /\ r.activeByType = s.activeByType
  <2> HIDE DEF s, rows
  <2> QED BY <1>5, <1>6 DEF ProcessRow
<1> HIDE DEF r, limit
<1>8. /\ process' \in [Process -> ProcessRow] /\ process'[p] = r
      /\ \A q \in Process : q # p => process'[q] = process[q]
  BY <1>6, <1>7, ProcessUpdated
<1>9. ClaimedRows(p, S, answer)
  BY <1>3, <1>4, <1>7, <1>8 DEF ClaimedRows
<1> QED BY <1>1, <1>3, <1>9 DEF limit

LEMMA PollKeeps ==
  ASSUME QueueInv, QueueInv', WorkerInv, NEW p \in Process, Poll(p)
  PROVE  WorkerInv' /\ \A j \in JobId : Grows(j)
<1>1. PICK S, answer \in SUBSET JobId : ClaimedRows(p, S, answer)
  BY PollClaims
<1>2. UNCHANGED <<task, notified, incidents>>
  BY DEF Poll
<1>3. ASSUME NEW j \in JobId PROVE Grows(j)
  BY <1>1, SteadyGrows DEF ClaimedRows, Steady
<1>4. ASSUME NEW j \in JobId, NEW n \in AttemptNo PROVE TaskSound(j, n)'
  BY <1>2, <1>3, TaskStays, NoMove DEF WorkerInv
<1>5. \A j \in JobId : /\ job[j].attempt_count \in Nat /\ job'[j].attempt_count \in Nat
                       /\ job'[j].attempt_count >= job[j].attempt_count
  BY <1>3 DEF Grows, QueueInv, Sound, RowSound, Row
<1>6. ASSUME NEW j \in JobId, NEW n \in AttemptNo, <<j, n>> \in process'[p].polled
      PROVE  /\ task[j][n].phase = "none" /\ n = job[j].attempt_count + 1
             /\ n = job'[j].attempt_count
  <2>1. j \in answer /\ n = job[j].attempt_count + 1
    BY <1>1, <1>6 DEF ClaimedRows
  <2>2. ClaimedBy(j, IdOf[p])
    BY <1>1, <2>1 DEF ClaimedRows
  <2> QED BY <2>1, <2>2, NextAttempt DEF ClaimedBy
<1>7. ASSUME NEW q \in Process PROVE PolledSound(q)'
  <2>1. CASE q = p
    BY <1>2, <1>5, <1>6, <2>1, Attempts DEF PolledSound
  <2>2. CASE q # p
    <3> SUFFICES ASSUME NEW j \in JobId, NEW n \in AttemptNo, <<j, n>> \in process'[q].polled
                 PROVE  task'[j][n].phase = "none" /\ n <= job'[j].attempt_count
      BY DEF PolledSound
    <3>1. task[j][n].phase = "none" /\ n <= job[j].attempt_count /\ n \in Nat
      BY <1>1, <2>2, Attempts DEF ClaimedRows, WorkerInv, PolledSound
    <3> QED BY <1>2, <1>5, <3>1
  <2> QED BY <2>1, <2>2
<1>8. PolledOnce'
  <2>1. ASSUME NEW q \in Process, q # p PROVE process'[p].polled \cap process'[q].polled = {}
    <3> SUFFICES ASSUME NEW t \in process'[p].polled, t \in process'[q].polled PROVE FALSE
      OBVIOUS
    <3>0. process'[p] \in ProcessRow
      BY <1>1 DEF ClaimedRows
    <3>1. PICK j \in JobId, n \in AttemptNo : t = <<j, n>>
      BY <3>0 DEF ProcessRow
    <3>2. n = job[j].attempt_count + 1
      BY <1>6, <3>1
    <3>3. n <= job[j].attempt_count
      BY <1>1, <2>1, <3>1 DEF ClaimedRows, WorkerInv, PolledSound
    <3> QED BY <1>5, <3>2, <3>3
  <2>2. ASSUME NEW q \in Process, NEW o \in Process, q # p, o # p, q # o
        PROVE  process'[q].polled \cap process'[o].polled = {}
    BY <1>1, <2>2 DEF ClaimedRows, WorkerInv, PolledOnce
  <2> QED BY <2>1, <2>2 DEF PolledOnce
<1>9. CompletedByItsHolder'
  <2> SUFFICES ASSUME NEW j \in JobId, NEW n \in AttemptNo,
                      job_attempt'[j][n].outcome = "completed"
               PROVE  job_attempt'[j][n] = job_attempt[j][n]
    BY <1>2 DEF CompletedByItsHolder, WorkerInv
  <2>1. CASE j \notin S
    BY <1>1, <2>1 DEF ClaimedRows, Unmoved
  <2>2. CASE j \in S
    <3>1. job_attempt'[j] = [job_attempt[j] EXCEPT ![job[j].attempt_count + 1] =
                               [worker_id |-> IdOf[p], outcome |-> "open"]]
      BY <1>1, <2>2 DEF ClaimedRows, ClaimedBy
    <3>2. DOMAIN job_attempt[j] = AttemptNo
      BY DEF QueueInv, Sound, LedgerSound
    <3> QED BY <3>1, <3>2
  <2> QED BY <2>1, <2>2
<1>10. TypeLimitRespected'
  <2>1. \A q \in Process : TasksOf(q)' = TasksOf(q)
    BY <1>2, NoMove
  <2>2. \A q \in Process : process'[q].activeByType = process[q].activeByType
    BY <1>1 DEF ClaimedRows
  <2> QED BY <1>3, <2>1, <2>2, LimitsKept DEF CountKept
<1> QED BY <1>1, <1>2, <1>3, <1>4, <1>7, <1>8, <1>9, <1>10, NoMove DEF WorkerInv, ClaimedRows

\* The start of the rows T of a claim, likewise.
StartedRows(p, T) ==
  /\ T \in SUBSET process[p].polled
  /\ LET known == {t \in T : job[t[1]].key \in Known[p]} IN
       known # {} => process[p].activeByType + Cardinality(known) <= TypeLimit
  /\ process'[p].activeByType = process[p].activeByType + Cardinality(T)
  /\ task' = [j \in JobId |-> [n \in AttemptNo |-> task'[j][n]]]
  /\ \A j \in JobId, n \in AttemptNo :
       IF <<j, n>> \in T
       THEN /\ task'[j][n] \in TaskRow /\ task'[j][n].proc = p
            /\ task'[j][n].phase \in {"handling", "errored", "rejecting"}
            /\ task'[j][n].result = "none"
            /\ task'[j][n].phase = "rejecting" => job[j].key \notin Known[p]
       ELSE task'[j][n] = task[j][n]
  /\ process' \in [Process -> ProcessRow]
  /\ process'[p].polled = {}
  /\ \A j \in JobId :
       process'[p].active[j] # 0 \/
         (process'[p].active[j] = process[p].active[j] /\ \A n \in AttemptNo : <<j, n>> \notin T)
  /\ \A q \in Process : q # p => process'[q] = process[q]
  /\ UNCHANGED <<queueVars, notified, incidents>>

LEMMA ReceiveStarts ==
  ASSUME WorkerInv, NEW p \in Process, Receive(p)
  PROVE  \E T : StartedRows(p, T)
<1> DEFINE s == process[p]
           rows == s.polled
           first(j, T) == CHOOSE n \in AttemptNo : <<j, n>> \in T
           map(T, f) == [j \in JobId |-> IF \E n \in AttemptNo : <<j, n>> \in T
                                         THEN first(j, T) ELSE f[j]]
           start(j) == [NoTask EXCEPT
                          !.proc = p,
                          !.phase = IF job[j].key \in Known[p] THEN "handling"
                                    ELSE IF forcedShutdown(p) THEN "errored"
                                    ELSE "rejecting"]
<1>0. PICK T \in SUBSET rows :
        /\ \A t \in T : s.activeByType + Cardinality({u \in T : Limit(p, u) <= Limit(p, t)})
                         <= Limit(p, t)
        /\ Start(p, T)
  BY DEF Receive
<1>1. /\ task' = [j \in JobId |-> [n \in AttemptNo |->
                      IF <<j, n>> \notin T THEN task[j][n] ELSE start(j)]]
        /\ process' = [process EXCEPT
             ![p].polled = {}, ![p].active = map(T, s.active),
             ![p].controllers = map(T, s.controllers),
             ![p].activeByType = @ + Cardinality(T),
             ![p].overflow = @ \cup {t[1] : t \in rows \ T}]
  BY <1>0 DEF Start
<1>2. s \in ProcessRow /\ rows \subseteq JobId \X AttemptNo
  BY DEF WorkerInv, ProcessRow
<1>3. /\ map(T, s.active) \in [JobId -> 0..MaxAttempts]
      /\ map(T, s.controllers) \in [JobId -> 0..MaxAttempts]
      /\ \A j \in JobId : \/ map(T, s.active)[j] # 0
                          \/ /\ map(T, s.active)[j] = s.active[j]
                             /\ \A n \in AttemptNo : <<j, n>> \notin T
  <2>1. \A j \in JobId : (\E n \in AttemptNo : <<j, n>> \in T) => first(j, T) \in AttemptNo
    OBVIOUS
  <2>2. s.active \in [JobId -> 0..MaxAttempts] /\ s.controllers \in [JobId -> 0..MaxAttempts]
    BY <1>2 DEF ProcessRow
  <2> HIDE DEF first, s
  <2> QED BY <2>1, <2>2, Attempts
<1> DEFINE over == s.overflow \cup {t[1] : t \in rows \ T}
           count == s.activeByType + Cardinality(T)
           r == [s EXCEPT !.polled = {}, !.active = map(T, s.active),
                          !.controllers = map(T, s.controllers),
                          !.activeByType = count, !.overflow = over]
<1>4. over \in SUBSET JobId
  BY <1>2 DEF ProcessRow
<1>13. IsFiniteSet(T) /\ Cardinality(T) \in Nat /\ s.activeByType \in Nat
  BY <1>2, TasksFinite, FS_Subset, FS_CardinalityType DEF ProcessRow
<1>14. count \in Nat
  <2> HIDE DEF s
  <2> QED BY <1>13
<1> DEFINE a == map(T, s.active)
           c == map(T, s.controllers)
<1>5. process' = [process EXCEPT ![p] = r]
  <2> HIDE DEF map
  <2> QED BY <1>1 DEF WorkerInv
<1>6. r \in ProcessRow /\ r.polled = {} /\ r.active = a /\ r.activeByType = count
  <2>1. /\ a \in [JobId -> 0..MaxAttempts] /\ c \in [JobId -> 0..MaxAttempts]
        /\ r = [s EXCEPT !.polled = {}, !.active = a, !.controllers = c,
                         !.activeByType = count, !.overflow = over]
    BY <1>3
  <2> HIDE DEF s, a, c, over, count, r
  <2> QED BY <1>2, <1>4, <1>14, <2>1 DEF ProcessRow
<1> HIDE DEF r
<1>7. /\ process' \in [Process -> ProcessRow] /\ process'[p] = r
      /\ \A q \in Process : q # p => process'[q] = process[q]
  BY <1>5, <1>6, ProcessUpdated
<1>8. ASSUME NEW j \in JobId
      PROVE  /\ start(j) \in TaskRow /\ start(j).proc = p
             /\ start(j).phase \in {"handling", "errored", "rejecting"}
             /\ start(j).result = "none"
             /\ start(j).phase = "rejecting" => job[j].key \notin Known[p]
  BY DEF NoTask, TaskRow, Phases
<1> HIDE DEF start, map
<1>9. ASSUME NEW j \in JobId, NEW n \in AttemptNo
      PROVE  task'[j][n] = IF <<j, n>> \in T THEN start(j) ELSE task[j][n]
  BY <1>1
<1>10. task' = [j \in JobId |-> [n \in AttemptNo |-> task'[j][n]]]
  BY <1>1
<1>11. UNCHANGED <<queueVars, notified, incidents>>
  BY DEF Receive
<1>15. LET known == {t \in T : job[t[1]].key \in Known[p]} IN
         known # {} => s.activeByType + Cardinality(known) <= TypeLimit
  <2> DEFINE known == {t \in T : job[t[1]].key \in Known[p]}
  <2> SUFFICES ASSUME NEW t \in known PROVE s.activeByType + Cardinality(known) <= TypeLimit
    OBVIOUS
  <2> DEFINE U == {u \in T : Limit(p, u) <= Limit(p, t)}
  <2>1. Limit(p, t) = TypeLimit /\ TypeLimit \in Nat
    BY WorkerAssumption DEF Limit
  <2>2. s.activeByType + Cardinality(U) <= TypeLimit
    BY <1>0, <2>1
  <2>3. known \subseteq U
    <3> SUFFICES ASSUME NEW u \in known PROVE Limit(p, u) <= Limit(p, t)
      OBVIOUS
    <3>1. Limit(p, u) = TypeLimit
      BY DEF Limit
    <3> QED BY <2>1, <3>1
  <2>4. U \subseteq T
    OBVIOUS
  <2> HIDE DEF U, known
  <2>5. /\ IsFiniteSet(U) /\ Cardinality(U) \in Nat /\ Cardinality(known) \in Nat
        /\ Cardinality(known) <= Cardinality(U)
    <3>1. IsFiniteSet(U)
      BY <1>13, <2>4, FS_Subset
    <3> QED BY <2>3, <3>1, FS_Subset, FS_CardinalityType
  <2> HIDE DEF s
  <2>6. s.activeByType + Cardinality(known) <= TypeLimit
    BY <1>13, <2>1, <2>2, <2>5
  <2> QED BY <2>6 DEF known
<1>12. StartedRows(p, T)
  BY <1>1, <1>3, <1>6, <1>7, <1>8, <1>9, <1>10, <1>11, <1>15 DEF StartedRows
<1> QED BY <1>12

LEMMA ReceiveKeeps ==
  ASSUME QueueInv, WorkerInv, NEW p \in Process, NEW T, StartedRows(p, T)
  PROVE  /\ WorkerInv'
         /\ TasksOf(p)' \subseteq TasksOf(p) \cup T
         /\ \A q \in Process : q # p => TasksOf(q)' \subseteq TasksOf(q)
<1>1. /\ UNCHANGED <<job, job_attempt, job_retry_request>>
      /\ T \subseteq JobId \X AttemptNo
  BY DEF StartedRows, queueVars, WorkerInv, ProcessRow
<1>2. ASSUME NEW j \in JobId, NEW n \in AttemptNo, <<j, n>> \in T
      PROVE  task[j][n] = NoTask /\ n <= job[j].attempt_count
  BY <1>2 DEF StartedRows, WorkerInv, PolledSound, TaskSound
<1>3. ASSUME NEW j \in JobId, NEW n \in AttemptNo PROVE TaskSound(j, n)'
  <2>1. CASE <<j, n>> \notin T
    BY <1>1, <2>1 DEF StartedRows, WorkerInv, TaskSound
  <2>2. CASE <<j, n>> \in T
    BY <1>1, <1>2, <2>2 DEF StartedRows, TaskSound
  <2> QED BY <2>1, <2>2
<1>4. ASSUME NEW q \in Process PROVE PolledSound(q)'
  <2>1. CASE q = p
    BY <2>1 DEF StartedRows, PolledSound
  <2>2. CASE q # p
    <3> SUFFICES ASSUME NEW j \in JobId, NEW n \in AttemptNo, <<j, n>> \in process[q].polled
                 PROVE  task'[j][n].phase = "none" /\ n <= job'[j].attempt_count
      BY <2>2 DEF PolledSound, StartedRows
    <3>1. <<j, n>> \notin T
      BY <2>2 DEF StartedRows, WorkerInv, PolledOnce
    <3> QED BY <1>1, <3>1 DEF StartedRows, WorkerInv, PolledSound
  <2> QED BY <2>1, <2>2
<1>5. PolledOnce'
  BY DEF PolledOnce, StartedRows, WorkerInv
<1>6. CompletedByItsHolder'
  <2> SUFFICES ASSUME NEW j \in JobId, NEW m \in AttemptNo, task[j][m].result = "ok"
               PROVE  task'[j][m] = task[j][m]
    BY <1>1 DEF CompletedByItsHolder, WorkerInv
  <2>1. <<j, m>> \notin T
    BY <1>2 DEF NoTask
  <2> QED BY <2>1 DEF StartedRows
<1>7. TasksOf(p)' \subseteq TasksOf(p) \cup T
  <2> SUFFICES ASSUME NEW j \in JobId, NEW n \in AttemptNo, <<j, n>> \notin T,
                      task'[j][n].proc = p, task'[j][n].phase \in Running
               PROVE  <<j, n>> \in TasksOf(p)
    BY DEF TasksOf
  <2> QED BY TasksAreTheirs DEF StartedRows
<1>8. ASSUME NEW q \in Process, q # p PROVE TasksOf(q)' \subseteq TasksOf(q)
  <2> SUFFICES ASSUME NEW j \in JobId, NEW n \in AttemptNo,
                      task'[j][n].proc = q, task'[j][n].phase \in Running
               PROVE  <<j, n>> \in TasksOf(q)
    BY DEF TasksOf
  <2> QED BY <1>8, TasksAreTheirs DEF StartedRows
<1>10. TasksOf(p)' = TasksOf(p) \cup T /\ TasksOf(p) \cap T = {}
  <2>1. ASSUME NEW j \in JobId, NEW n \in AttemptNo, <<j, n>> \in T
        PROVE  <<j, n>> \notin TasksOf(p) /\ <<j, n>> \in TasksOf(p)'
    BY <1>2, <2>1 DEF StartedRows, TasksOf, NoTask, Running, Phases
  <2>2. ASSUME NEW j \in JobId, NEW n \in AttemptNo, <<j, n>> \in TasksOf(p)
        PROVE  <<j, n>> \in TasksOf(p)'
    BY <2>1, <2>2 DEF StartedRows, TasksOf
  <2> QED BY <1>1, <1>7, <2>1, <2>2, TasksFinite
<1>11. IsFiniteSet(TasksOf(p)) /\ IsFiniteSet(T) /\ Cardinality(T) \in Nat
       /\ Cardinality(TasksOf(p)) \in Nat
  BY <1>1, TasksFinite, FS_Subset, FS_CardinalityType
<1>12. process'[p].activeByType = Cardinality(TasksOf(p)')
  <2> DEFINE U == TasksOf(p)
  <2>1. process[p].activeByType = Cardinality(U)
    BY DEF WorkerInv, TypeLimitRespected
  <2>2. /\ TasksOf(p)' = U \cup T /\ U \cap T = {}
        /\ IsFiniteSet(U) /\ Cardinality(U) \in Nat
        /\ IsFiniteSet(T) /\ Cardinality(T) \in Nat
    BY <1>10, <1>11
  <2> HIDE DEF U
  <2>3. Cardinality(U \cup T) = Cardinality(U) + Cardinality(T)
    <3>1. Cardinality(U \cap T) = 0
      BY <2>2, FS_EmptySet
    <3>2. Cardinality(U \cup T)
            = Cardinality(U) + Cardinality(T) - Cardinality(U \cap T)
      BY <2>2, FS_Union
    <3> QED BY <2>2, <3>1, <3>2
  <2> QED BY <2>1, <2>2, <2>3 DEF StartedRows
<1>13. Cardinality(KnownTasks(p)') <= TypeLimit
  <2> DEFINE known == {t \in T : job[t[1]].key \in Known[p]}
             U == TasksOf(p)
  <2>1. KnownTasks(p)' \subseteq KnownTasks(p) \cup known
    BY <1>1, <1>7 DEF KnownTasks
  <2>2. KnownTasks(p) \subseteq U
    BY DEF KnownTasks
  <2>3. TypeLimit \in Nat /\ Cardinality(KnownTasks(p)) <= TypeLimit
    BY WorkerAssumption DEF WorkerInv, TypeLimitRespected, KnownTasks
  <2>4. CASE known = {}
    <3>1. KnownTasks(p)' \subseteq KnownTasks(p)
      BY <2>1, <2>4
    <3>2. KnownTasks(p) \in SUBSET (JobId \X AttemptNo)
      BY <2>2, TasksFinite
    <3> QED BY <2>3, <3>1, <3>2, FewerTasks
  <2>5. CASE known # {}
    <3>1. Cardinality(U) + Cardinality(known) <= TypeLimit
      BY <2>5 DEF StartedRows, WorkerInv, TypeLimitRespected
    <3>2. U \cup known \in SUBSET (JobId \X AttemptNo)
      BY <1>1, TasksFinite
    <3>3. KnownTasks(p)' \subseteq U \cup known
      BY <2>1, <2>2
    <3>4. IsFiniteSet(known)
      BY <1>11, FS_Subset
    <3> HIDE DEF U, known
    <3>5. /\ Cardinality(U \cup known) =
               Cardinality(U) + Cardinality(known) - Cardinality(U \cap known)
          /\ Cardinality(U) \in Nat /\ Cardinality(known) \in Nat
          /\ Cardinality(U \cap known) \in Nat
      BY <1>11, <3>4, FS_Union, FS_Intersection, FS_CardinalityType DEF U
    <3>6. Cardinality(U \cup known) <= TypeLimit
      BY <2>3, <3>1, <3>5
    <3> QED BY <2>3, <3>2, <3>3, <3>6, FewerTasks
  <2> QED BY <2>4, <2>5
<1>9. TypeLimitRespected'
  <2>1. ASSUME NEW q \in Process, q # p
        PROVE  /\ process'[q].activeByType = Cardinality(TasksOf(q)')
               /\ Cardinality(KnownTasks(q)') <= TypeLimit
    <3>1. process'[q] = process[q]
      BY <2>1 DEF StartedRows
    <3>2. TasksOf(q)' = TasksOf(q)
      <4>0. TasksOf(q) \subseteq JobId \X AttemptNo /\ TasksOf(q)' \subseteq TasksOf(q)
        BY <1>8, <2>1, TasksFinite
      <4> SUFFICES ASSUME NEW j \in JobId, NEW n \in AttemptNo, <<j, n>> \in TasksOf(q)
                   PROVE  <<j, n>> \in TasksOf(q)'
        BY <4>0
      <4>1. <<j, n>> \notin T
        BY <1>2, TasksAreTheirs DEF NoTask, Running
      <4> QED BY <4>1 DEF StartedRows, TasksOf
    <3>3. KnownTasks(q)' = KnownTasks(q)
      BY <1>1, <3>2 DEF KnownTasks
    <3> QED BY <3>1, <3>2, <3>3 DEF WorkerInv, TypeLimitRespected, KnownTasks
  <2> QED BY <1>12, <1>13, <2>1 DEF TypeLimitRespected, KnownTasks
<1> QED BY <1>3, <1>4, <1>5, <1>6, <1>7, <1>8, <1>9 DEF WorkerInv, StartedRows

LEMMA WorkerInitInv == WorkerInit => WorkerInv
<1> SUFFICES ASSUME WorkerInit PROVE WorkerInv
  OBVIOUS
<1>1. ASSUME NEW j \in JobId, NEW n \in AttemptNo PROVE task[j][n] = NoTask /\ TaskSound(j, n)
  BY DEF WorkerInit, TaskSound, NoTask, TaskRow, Phases
<1>2. ASSUME NEW p \in Process
      PROVE  /\ process[p] \in ProcessRow /\ process[p].polled = {} /\ TasksOf(p) = {}
             /\ process[p].activeByType = 0
  <2>1. process[p] = Started("up")
    BY DEF WorkerInit
  <2>2. TasksOf(p) = {}
    BY <1>1 DEF TasksOf, NoTask, Running
  <2> QED BY <2>1, <2>2, StartedRow
<1>3. process \in [Process -> ProcessRow]
  BY <1>2 DEF WorkerInit
<1>4. TypeLimitRespected
  <2>1. Cardinality({}) = 0 /\ 0 <= TypeLimit
    BY FS_EmptySet, WorkerAssumption
  <2>2. ASSUME NEW p \in Process
        PROVE  TasksOf(p) = {} /\ KnownTasks(p) = {} /\ process[p].activeByType = 0
    BY <1>2 DEF KnownTasks
  <2> QED BY <2>1, <2>2 DEF TypeLimitRespected, KnownTasks
<1>5. CompletedByItsHolder
  BY DEF CompletedByItsHolder, WorkerInit, Init, NoAttempt
<1>6. task = [j \in JobId |-> [n \in AttemptNo |-> task[j][n]]]
  BY DEF WorkerInit
<1>7. notified \subseteq JobId /\ incidents \in 0..MaxIncidents
  BY WorkerAssumption DEF WorkerInit
<1> QED BY <1>1, <1>2, <1>3, <1>4, <1>5, <1>6, <1>7 DEF WorkerInv, PolledSound, PolledOnce

LEMMA WorkerStep ==
  ASSUME QueueInv, QueueInv', WorkerInv, [WorkerNext]_allVars
  PROVE  WorkerInv'
BY StepKinds, OrdinaryKeeps, PollKeeps, ReceiveStarts, ReceiveKeeps

\* The invariant of the processes holds while they work on the queue.
THEOREM WorkersHold == WorkerSpec => []WorkerInv
<1>1. QueueInv /\ QueueInv' /\ WorkerInv /\ [WorkerNext]_allVars => WorkerInv'
  BY WorkerStep
<1>2. WorkerSpec => []QueueInv
  BY WorkersUseQueue, QueueInvariant, PTL
<1> QED BY <1>1, <1>2, WorkerInitInv, PTL DEF WorkerSpec

\* The rows of a worker process, its task of every attempt and its maps keep their
\* types, through every result, lost answer, crash and restart.
THEOREM WorkerTypes == WorkerSpec => []WorkerTypeOK
<1>1. QueueInv /\ WorkerInv => WorkerTypeOK
  <2> SUFFICES ASSUME QueueInv, WorkerInv PROVE WorkerTypeOK
    OBVIOUS
  <2>1. task \in [JobId -> [AttemptNo -> TaskRow]]
    BY DEF WorkerInv, TaskSound
  <2> QED BY <2>1, InvTypeOK DEF WorkerTypeOK, WorkerInv, TaskRow, ProcessRow
<1>2. WorkerSpec => []QueueInv
  BY WorkersUseQueue, QueueInvariant, PTL
<1> QED BY <1>1, <1>2, WorkersHold, PTL

\* complete_job compares nothing but the worker, and still every attempt that reads
\* completed has a handler behind it that returned under that worker's identity,
\* in that attempt or an earlier one of the job: for any number of slots, and
\* whether identities are shared or not.
THEOREM CompletionsAreHeld == WorkerSpec => []CompletedByItsHolder
<1>1. WorkerInv => CompletedByItsHolder
  BY DEF WorkerInv
<1> QED BY <1>1, WorkersHold, PTL

\* activeByType is the number of running tasks whatever else happens to the maps
\* of a process, so a contract's limit holds for any number of slots, although
\* several runs of one job may overlap.
THEOREM TypeLimitsHold == WorkerSpec => []TypeLimitRespected
<1>1. WorkerInv => TypeLimitRespected
  BY DEF WorkerInv
<1> QED BY <1>1, WorkersHold, PTL

-----------------------------------------------------------------------------
\* What a notice of a terminal failure is worth, whatever the identities.

TerminalStaysSo(j) == job[j].status \in Terminal => job'[j].status \in Terminal

\* While an attempt runs, the process that claimed it has the lock's identity.
LocksTheirs ==
  \A p \in Process, j \in JobId, n \in AttemptNo :
    InHand(p, j, n) /\ job[j].status = "running" /\ job[j].attempt_count = n =>
      job[j].locked_by = IdOf[p]

\* A task that is about to notify is of a job that has ended.
FailedEnded ==
  \A j \in JobId, n \in AttemptNo :
    task[j][n].phase = "failed" /\ NotifiesTerminal(j, n) => job[j].status \in Terminal

NoticeInv == LocksTheirs /\ FailedEnded /\ NotifiedOnlyIfEnded

LEMMA InHandCounted ==
  ASSUME QueueInv, WorkerInv, NEW p \in Process, NEW j \in JobId, NEW n \in AttemptNo,
         InHand(p, j, n)
  PROVE  n \in Nat \ {0} /\ job[j].attempt_count \in Nat /\ n <= job[j].attempt_count
<1>1. job[j].attempt_count \in Nat
  BY Columns DEF Row
<1>2. CASE <<j, n>> \in process[p].polled
  BY <1>1, <1>2, Attempts DEF WorkerInv, PolledSound
<1>3. CASE <<j, n>> \in TasksOf(p)
  <2>1. task[j][n].phase # "none"
    BY <1>3, TasksAreTheirs DEF Running
  <2> QED BY <1>1, <2>1, Attempts DEF WorkerInv, TaskSound
<1> QED BY <1>2, <1>3 DEF InHand

\* The budget, as the notification judges by it.
LEMMA LastAttempt ==
  ASSUME QueueInv, WorkerInv, NEW j \in JobId, NEW n \in AttemptNo,
         task[j][n].phase # "none", NotifiesTerminal(j, n)
  PROVE  /\ job[j].attempt_count = n /\ ~AttemptsLeft(j)
         /\ job[j].status # "retry_wait"
<1>1. RowSound(job[j]) /\ job[j].attempt_count \in Nat /\ n \in Nat
  BY Attempts DEF QueueInv, Sound, RowSound, Row
<1>2. n <= job[j].attempt_count
  BY DEF WorkerInv, TaskSound
<1>3. job[j].key \in Key /\ n >= MaxAttemptsOf[job[j].key]
  BY WorkerAssumption DEF NotifiesTerminal
<1>4. MaxAttemptsOf[job[j].key] \in Nat /\ job[j].key # NULL
  BY <1>3, ConstantsAssumption
<1>5. job[j].attempt_count <= MaxAttemptsOf[job[j].key]
  BY <1>1, <1>4 DEF RowSound
<1>6. job[j].status = "retry_wait" => job[j].attempt_count < MaxAttemptsOf[job[j].key]
  BY <1>1 DEF RowSound
<1> QED BY <1>1, <1>2, <1>3, <1>4, <1>5, <1>6 DEF AttemptsLeft

LEMMA TerminalKept ==
  ASSUME NEW j \in JobId, Steady(j) \/ CompletedNow(j) \/ \E w : ClaimedBy(j, w)
  PROVE  TerminalStaysSo(j)
BY DEF TerminalStaysSo, Steady, Unmoved, Inserted, Dropped, CompletedNow, ClaimedBy, Fresh,
       Terminal

\* Who is told has a task that ended before, whose job is as it was.
LEMMA NotifiesSame ==
  ASSUME QueueInv, QueueInv', WorkerInv, NEW j \in JobId, NEW n \in AttemptNo, Grows(j),
         task[j][n].phase # "none", task'[j][n].proc = task[j][n].proc,
         NotifiesTerminal(j, n)'
  PROVE  NotifiesTerminal(j, n)
<1>1. n <= job[j].attempt_count /\ n \in Nat \ {0} /\ job[j].attempt_count \in Nat
  BY Attempts, Columns DEF WorkerInv, TaskSound, Row
<1>2. job'[j].key = job[j].key
  BY <1>1 DEF Grows
<1> QED BY <1>2 DEF NotifiesTerminal

LEMMA OrdinaryNotices ==
  ASSUME QueueInv, QueueInv', WorkerInv, WorkerInv', NoticeInv, Ordinary,
         \A j \in JobId : Grows(j), \A p \in Process : TasksOf(p)' \subseteq TasksOf(p)
  PROVE  NoticeInv'
<1>1. ASSUME NEW j \in JobId PROVE TerminalStaysSo(j)
  BY TerminalKept DEF Ordinary, CompletedByTask
<1>2. LocksTheirs'
  <2> SUFFICES ASSUME NEW p \in Process, NEW j \in JobId, NEW n \in AttemptNo,
                      InHand(p, j, n)', job'[j].status = "running", job'[j].attempt_count = n
               PROVE  job'[j].locked_by = IdOf[p]
    BY DEF LocksTheirs
  <2>1. InHand(p, j, n)
    BY DEF InHand, Ordinary
  <2>2. Unmoved(j)
    BY DEF Ordinary, Steady, Inserted, Dropped, CompletedByTask, CompletedNow
  <2> QED BY <2>1, <2>2 DEF Unmoved, NoticeInv, LocksTheirs
<1>3. FailedEnded'
  <2> SUFFICES ASSUME NEW j \in JobId, NEW n \in AttemptNo,
                      task'[j][n].phase = "failed", NotifiesTerminal(j, n)'
               PROVE  job'[j].status \in Terminal
    BY DEF FailedEnded
  <2>1. /\ task[j][n].phase # "none" /\ task'[j][n].proc = task[j][n].proc
        /\ task[j][n].phase = "failed" \/ task[j][n].phase \in Running
    BY DEF Ordinary, TaskMove, Running
  <2>2. NotifiesTerminal(j, n)
    BY <2>1, NotifiesSame
  <2>3. CASE task[j][n].phase = "failed"
    BY <1>1, <2>2, <2>3 DEF NoticeInv, FailedEnded, TerminalStaysSo
  <2>4. CASE task[j][n].phase # "failed"
    <3> DEFINE p == task[j][n].proc
    <3>1. FailReported(j, n) /\ <<j, n>> \in TasksOf(p) /\ p \in Process
      BY <2>1, <2>4, TasksAreTheirs DEF Ordinary, WorkerInv, TaskSound
    <3>2. job[j].attempt_count = n /\ ~AttemptsLeft(j) /\ job[j].status # "retry_wait"
      BY <2>1, <2>2, LastAttempt
    <3>3. n # 0 /\ RowSound(job[j])
      BY Attempts DEF QueueInv, Sound
    <3>4. job[j].status \in {"running"} \cup Terminal
      BY <3>2, <3>3 DEF RowSound, Row, Live
    <3>5. CASE job[j].status = "running"
      <4>1. HeldBy(j, IdOf[p])
        BY <3>1, <3>2, <3>3, <3>5 DEF NoticeInv, LocksTheirs, InHand, HeldBy, RowSound
      <4> QED BY <3>1, <3>2, <4>1 DEF FailReported, Terminal
    <3> QED BY <1>1, <3>4, <3>5 DEF TerminalStaysSo
  <2> QED BY <2>3, <2>4
<1>4. NotifiedOnlyIfEnded'
  <2> SUFFICES ASSUME NEW j \in notified' PROVE job'[j].status \in Terminal
    BY DEF NotifiedOnlyIfEnded
  <2>1. j \in JobId /\ job[j].status \in Terminal
    BY DEF Ordinary, WorkerInv, NoticeInv, FailedEnded, NotifiedOnlyIfEnded
  <2> QED BY <1>1, <2>1 DEF TerminalStaysSo
<1> QED BY <1>2, <1>3, <1>4 DEF NoticeInv

LEMMA PollNotices ==
  ASSUME QueueInv, QueueInv', WorkerInv, NoticeInv, NEW p \in Process, Poll(p)
  PROVE  NoticeInv'
<1>1. PICK S, answer \in SUBSET JobId : ClaimedRows(p, S, answer)
  BY PollClaims
<1>2. UNCHANGED <<task, notified>> /\ \A q \in Process : TasksOf(q)' = TasksOf(q)
  BY DEF Poll, TasksOf
<1>3. \A j \in JobId : Grows(j)
  BY PollKeeps
<1>4. ASSUME NEW j \in JobId PROVE TerminalStaysSo(j)
  BY <1>1, TerminalKept DEF ClaimedRows, Steady
<1>5. LocksTheirs'
  <2> SUFFICES ASSUME NEW q \in Process, NEW j \in JobId, NEW n \in AttemptNo,
                      InHand(q, j, n)', job'[j].status = "running", job'[j].attempt_count = n
               PROVE  job'[j].locked_by = IdOf[q]
    BY DEF LocksTheirs
  <2>1. CASE InHand(q, j, n)
    <3>1. n <= job[j].attempt_count /\ n \in Nat /\ job[j].attempt_count \in Nat
      BY <2>1, InHandCounted
    <3>2. ~ClaimedBy(j, IdOf[p])
      BY <3>1 DEF ClaimedBy
    <3>3. Unmoved(j)
      BY <1>1, <3>2 DEF ClaimedRows
    <3> QED BY <2>1, <3>3 DEF Unmoved, NoticeInv, LocksTheirs
  <2>2. CASE ~InHand(q, j, n)
    <3>1. <<j, n>> \in process'[q].polled /\ <<j, n>> \notin process[q].polled
      BY <1>2, <2>2 DEF InHand
    <3>2. q = p /\ j \in answer
      BY <1>1, <3>1 DEF ClaimedRows
    <3>3. ClaimedBy(j, IdOf[p])
      BY <1>1, <3>2 DEF ClaimedRows
    <3> QED BY <3>2, <3>3 DEF ClaimedBy
  <2> QED BY <2>1, <2>2
<1>6. FailedEnded'
  <2> SUFFICES ASSUME NEW j \in JobId, NEW n \in AttemptNo,
                      task[j][n].phase = "failed", NotifiesTerminal(j, n)'
               PROVE  job'[j].status \in Terminal
    BY <1>2 DEF FailedEnded
  <2>1. NotifiesTerminal(j, n)
    BY <1>2, <1>3, NotifiesSame
  <2> QED BY <1>4, <2>1 DEF NoticeInv, FailedEnded, TerminalStaysSo
<1>7. NotifiedOnlyIfEnded'
  BY <1>2, <1>4 DEF NotifiedOnlyIfEnded, NoticeInv, TerminalStaysSo, WorkerInv
<1> QED BY <1>5, <1>6, <1>7 DEF NoticeInv

LEMMA ReceiveNotices ==
  ASSUME QueueInv, WorkerInv, NoticeInv, NEW p \in Process, NEW T, StartedRows(p, T)
  PROVE  NoticeInv'
<1>1. /\ UNCHANGED <<job, notified>>
      /\ T \subseteq process[p].polled /\ process'[p].polled = {}
  BY DEF StartedRows, queueVars
<1>2. ASSUME NEW q \in Process, NEW j \in JobId, NEW n \in AttemptNo, InHand(q, j, n)'
      PROVE  InHand(q, j, n)
  BY <1>1, <1>2, ReceiveKeeps DEF InHand, StartedRows
<1>3. LocksTheirs'
  BY <1>1, <1>2 DEF LocksTheirs, NoticeInv
<1>4. FailedEnded'
  <2> SUFFICES ASSUME NEW j \in JobId, NEW n \in AttemptNo, task'[j][n].phase = "failed"
               PROVE  task'[j][n] = task[j][n]
    BY <1>1 DEF FailedEnded, NoticeInv, NotifiesTerminal
  <2> QED BY DEF StartedRows
<1>5. NotifiedOnlyIfEnded'
  BY <1>1 DEF NotifiedOnlyIfEnded, NoticeInv
<1> QED BY <1>3, <1>4, <1>5 DEF NoticeInv

LEMMA NoticeInit == WorkerInit => NoticeInv
<1> SUFFICES ASSUME WorkerInit PROVE NoticeInv
  OBVIOUS
<1>1. \A j \in JobId, n \in AttemptNo : task[j][n] = NoTask
  BY DEF WorkerInit
<1>2. \A j \in JobId : job[j].status # "running"
  BY DEF WorkerInit, Init, NoRow
<1> QED BY <1>1, <1>2 DEF NoticeInv, LocksTheirs, FailedEnded, NotifiedOnlyIfEnded, NoTask,
                          WorkerInit

LEMMA NoticeStep ==
  ASSUME QueueInv, QueueInv', WorkerInv, WorkerInv', NoticeInv, [WorkerNext]_allVars
  PROVE  NoticeInv'
<1>1. CASE Ordinary
  BY <1>1, OrdinaryKeeps, OrdinaryNotices
<1> QED BY <1>1, StepKinds, PollNotices, ReceiveStarts, ReceiveNotices

\* notifyTerminalFailure judges by the attempt's number and not by the answer of
\* fail_job, and still tells of no job that is to be worked on: the last attempt's
\* report either fails the job or comes after its end, for any number of slots and
\* whether identities are shared or not.
THEOREM NoticesComeAfterTheEnd == WorkerSpec => []NotifiedOnlyIfEnded
<1>1. /\ QueueInv /\ QueueInv' /\ WorkerInv /\ WorkerInv' /\ NoticeInv /\ [WorkerNext]_allVars
      => NoticeInv'
  BY NoticeStep
<1>2. WorkerSpec => []QueueInv
  BY WorkersUseQueue, QueueInvariant, PTL
<1>3. NoticeInv => NotifiedOnlyIfEnded
  BY DEF NoticeInv
<1> QED BY <1>1, <1>2, <1>3, NoticeInit, WorkersHold, PTL DEF WorkerSpec

-----------------------------------------------------------------------------
\* One slot per process.

LEMMA SlotKept ==
  ASSUME OneSlotEach, QueueInv, WorkerInv, SerialInv, Ordinary, NEW p \in Process,
         \A q \in Process : TasksOf(q)' \subseteq TasksOf(q)
  PROVE  SlotSound(p)'
<1>1. \A j \in JobId, n \in AttemptNo : InHand(p, j, n)' => InHand(p, j, n)
  BY DEF InHand, Ordinary
<1>2. \A i, j \in JobId, m, n \in AttemptNo :
        InHand(p, i, m)' /\ InHand(p, j, n)' => i = j /\ m = n
  BY <1>1 DEF SerialInv, SlotSound
<1>3. ASSUME NEW j \in JobId, NEW n \in AttemptNo, <<j, n>> \in TasksOf(p)'
      PROVE  process'[p].active[j] # 0
  <2>1. <<j, n>> \in TasksOf(p) /\ process[p].active[j] # 0
    BY <1>3 DEF SerialInv, SlotSound
  <2>2. ASSUME NEW m \in AttemptNo, <<j, m>> \in TasksOf(p), task'[j][m].phase = "done"
        PROVE  FALSE
    <3>1. m = n
      BY <2>1, <2>2 DEF SerialInv, SlotSound, InHand
    <3>2. task'[j][n].phase \in Running
      BY <1>3 DEF TasksOf
    <3> QED BY <2>2, <3>1, <3>2 DEF Running
  <2> QED BY <2>1, <2>2 DEF Ordinary, ActiveKept
<1>4. ASSUME NEW j \in JobId, NEW n \in AttemptNo, InHand(p, j, n)'
      PROVE  /\ HeldBy(j, IdOf[p])' => job'[j].attempt_count = n
             /\ job'[j].attempt_count = n =>
                  HeldBy(j, IdOf[p])' \/ job'[j].status \in {"retry_wait", "failed"}
  <2>1. /\ InHand(p, j, n)
        /\ HeldBy(j, IdOf[p]) => job[j].attempt_count = n
        /\ job[j].attempt_count = n =>
             HeldBy(j, IdOf[p]) \/ job[j].status \in {"retry_wait", "failed"}
    BY <1>1, <1>4 DEF SerialInv, SlotSound
  <2>2. CASE Unmoved(j)
    BY <2>1, <2>2 DEF Unmoved, HeldBy
  <2>3. CASE Inserted(j)
    <3>1. job[j].attempt_count = 0
      BY <2>3 DEF Inserted, Fresh, QueueInv, Sound, RowSound
    <3> QED BY <2>1, <3>1, InHandCounted
  <2>4. CASE Dropped(j)
    BY <2>4 DEF Dropped, HeldBy
  <2>5. CASE CompletedByTask(j)
    <3>1. PICK q \in Process, m \in AttemptNo :
            /\ <<j, m>> \in TasksOf(q) /\ HeldBy(j, IdOf[q])
            /\ task'[j][m].phase = "done"
      BY <2>5 DEF CompletedByTask
    <3>2. job[j].status = "running" /\ job'[j].status = "completed"
          /\ job'[j].attempt_count = job[j].attempt_count
      BY <2>5 DEF CompletedByTask, CompletedNow
    <3>3. job[j].attempt_count # n
      <4> SUFFICES ASSUME job[j].attempt_count = n PROVE FALSE
        OBVIOUS
      <4>1. HeldBy(j, IdOf[p])
        BY <2>1, <3>2
      <4>2. q = p
        BY <3>1, <4>1 DEF HeldBy, OneSlotEach
      <4>3. m = n
        BY <2>1, <3>1, <4>2 DEF SerialInv, SlotSound, InHand
      <4>4. <<j, n>> \notin TasksOf(p)'
        BY <3>1, <4>3 DEF TasksOf, Running
      <4>5. <<j, n>> \notin process'[p].polled
        <5>1. task[j][n].phase # "none"
          BY <3>1, <4>3, TasksAreTheirs DEF Running
        <5> QED BY <5>1 DEF Ordinary, WorkerInv, PolledSound
      <4> QED BY <1>4, <4>4, <4>5 DEF InHand
    <3> QED BY <3>2, <3>3 DEF HeldBy
  <2> QED BY <2>2, <2>3, <2>4, <2>5 DEF Ordinary, Steady
<1> QED BY <1>2, <1>3, <1>4 DEF SlotSound

LEMMA AttemptsKept ==
  ASSUME QueueInv, WorkerInv, SerialInv, Ordinary
  PROVE  CompletedByItsAttempt'
<1> SUFFICES ASSUME NEW j \in JobId, NEW n \in AttemptNo,
                    job_attempt'[j][n].outcome = "completed"
             PROVE  task'[j][n].result = "ok"
  BY DEF CompletedByItsAttempt
<1>1. job_attempt[j][n].outcome = "completed" => task'[j][n].result = "ok"
  BY DEF SerialInv, CompletedByItsAttempt, Ordinary, TaskMove
<1>2. CASE Unmoved(j) \/ Inserted(j)
  BY <1>1, <1>2 DEF Unmoved, Inserted
<1>3. CASE Dropped(j)
  <2>1. PICK outcome \in Settled \cup {"failed"} : job_attempt'[j] = Close(j, outcome)
    BY <1>3 DEF Dropped
  <2>2. outcome # "completed"
    BY DEF Settled
  <2> QED BY <1>1, <2>1, <2>2, CloseOutcome
<1>4. CASE CompletedByTask(j)
  <2>1. PICK p \in Process, m \in AttemptNo :
          /\ <<j, m>> \in TasksOf(p) /\ HeldBy(j, IdOf[p])
          /\ task'[j][m].result = "ok"
    BY <1>4 DEF CompletedByTask
  <2>2. job[j].attempt_count = m
    BY <2>1 DEF SerialInv, SlotSound, InHand
  <2>3. job_attempt'[j] = Close(j, "completed")
    BY <1>4 DEF CompletedByTask, CompletedNow
  <2> QED BY <1>1, <2>1, <2>2, <2>3, CloseOutcome
<1> QED BY <1>2, <1>3, <1>4 DEF Ordinary, Steady

LEMMA FailuresKept ==
  ASSUME QueueInv, QueueInv', WorkerInv, WorkerInv', SerialInv, Ordinary,
         \A j \in JobId : Grows(j)
  PROVE  FailedTruly' /\ NotifiedOnlyIfFailed'
<1>1. ASSUME NEW j \in JobId, NEW n \in AttemptNo,
             task'[j][n].phase = "failed", NotifiesTerminal(j, n)'
      PROVE  job'[j].status = "failed"
  <2>1. /\ task[j][n].phase # "none" /\ task'[j][n].proc = task[j][n].proc
        /\ task[j][n].phase = "failed" \/ task[j][n].phase \in Running
    BY <1>1 DEF Ordinary, TaskMove, Running
  <2>2. n <= job[j].attempt_count /\ n \in Nat \ {0} /\ job[j].attempt_count \in Nat
        /\ job'[j].attempt_count \in Nat
    BY <2>1, Attempts DEF WorkerInv, TaskSound, QueueInv, Sound, RowSound, Row
  <2>3. job'[j].key = job[j].key /\ NotifiesTerminal(j, n)
    BY <1>1, <2>1, <2>2 DEF Grows, NotifiesTerminal
  <2>4. CASE task[j][n].phase = "failed"
    BY <2>3, <2>4 DEF SerialInv, FailedTruly, Grows
  <2>5. CASE task[j][n].phase # "failed"
    <3>1. FailReported(j, n) /\ task[j][n].phase \in Running
      BY <1>1, <2>1, <2>5 DEF Ordinary
    <3> DEFINE p == task[j][n].proc
    <3>2. p \in Process /\ <<j, n>> \in TasksOf(p)
      BY <2>1, <3>1, TasksAreTheirs DEF WorkerInv, TaskSound
    <3>3. job[j].attempt_count = n /\ ~AttemptsLeft(j) /\ job[j].status # "retry_wait"
      BY <2>1, <2>3, LastAttempt
    <3>4. HeldBy(j, IdOf[p]) \/ job[j].status = "failed"
      BY <3>2, <3>3 DEF SerialInv, SlotSound, InHand
    <3> QED BY <3>1, <3>3, <3>4 DEF FailReported, Grows
  <2> QED BY <2>4, <2>5
<1>2. ASSUME NEW j \in notified' PROVE job'[j].status = "failed"
  <2>1. j \in JobId /\ job[j].status = "failed"
    BY DEF Ordinary, WorkerInv, SerialInv, NotifiedOnlyIfFailed, FailedTruly
  <2> QED BY <2>1 DEF Grows
<1> QED BY <1>1, <1>2 DEF FailedTruly, NotifiedOnlyIfFailed

\* A poll of a process with one slot, which has nothing in hand.
LEMMA PollSerial ==
  ASSUME OneSlotEach, QueueInv, QueueInv', WorkerInv, SerialInv, NEW p \in Process, Poll(p)
  PROVE  SerialInv'
<1>1. PICK S, answer \in SUBSET JobId :
        /\ ClaimedRows(p, S, answer)
        /\ \E limit \in Nat : limit = ClaimLimit - ActiveSize(p) /\ Cardinality(S) <= limit
  BY PollClaims
<1>2. UNCHANGED <<task, notified>> /\ \A q \in Process : TasksOf(q)' = TasksOf(q)
  BY DEF Poll, TasksOf
<1>3. \A j \in JobId : Grows(j)
  BY PollKeeps
<1>4. \A i, j \in S : i = j
  <2>1. ActiveSize(p) \in Nat /\ ClaimLimit = 1
    BY ActiveCounted DEF OneSlotEach
  <2>2. IsFiniteSet(S) /\ Cardinality(S) \in Nat /\ Cardinality(S) <= 1
    BY <1>1, <2>1, WorkerAssumption, FS_Subset, FS_CardinalityType
  <2>3. Cardinality(S) = 0 \/ Cardinality(S) = 1
    BY <2>2
  <2> QED BY <2>2, <2>3, FS_EmptySet, FS_Singleton
<1>5. TasksOf(p) = {}
  <2> DEFINE A == {j \in JobId : process[p].active[j] # 0}
  <2>1. ActiveSize(p) = 0
    BY ActiveCounted DEF Poll, OneSlotEach
  <2>2. IsFiniteSet(A)
    BY WorkerAssumption, FS_Subset
  <2>3. A = {}
    BY <2>1, <2>2, FS_EmptySet DEF ActiveSize
  <2> QED BY <2>3, TaskOf DEF SerialInv, SlotSound
<1>6. ASSUME NEW j \in JobId, NEW n \in AttemptNo, InHand(p, j, n)'
      PROVE  /\ j \in S /\ n = job[j].attempt_count + 1
             /\ job'[j].attempt_count = n /\ HeldBy(j, IdOf[p])'
  <2>1. <<j, n>> \in process'[p].polled
    BY <1>2, <1>5, <1>6 DEF InHand
  <2>2. j \in answer /\ n = job[j].attempt_count + 1
    BY <1>1, <2>1 DEF ClaimedRows
  <2>3. j \in S /\ ClaimedBy(j, IdOf[p])
    BY <1>1, <2>2 DEF ClaimedRows
  <2> QED BY <2>2, <2>3 DEF ClaimedBy, HeldBy
<1>7. SlotSound(p)'
  <2>1. \A i, j \in JobId, m, n \in AttemptNo :
          InHand(p, i, m)' /\ InHand(p, j, n)' => i = j /\ m = n
    BY <1>4, <1>6
  <2>2. \A j \in JobId, n \in AttemptNo : <<j, n>> \notin TasksOf(p)'
    BY <1>2, <1>5
  <2> QED BY <1>6, <2>1, <2>2 DEF SlotSound
<1>8. ASSUME NEW q \in Process, q # p PROVE SlotSound(q)'
  <2>1. process'[q] = process[q] /\ TasksOf(q)' = TasksOf(q)
    BY <1>1, <1>2, <1>8 DEF ClaimedRows
  <2>2. \A j \in JobId, n \in AttemptNo : InHand(q, j, n)' <=> InHand(q, j, n)
    BY <2>1 DEF InHand
  <2>3. ASSUME NEW j \in JobId, NEW n \in AttemptNo, InHand(q, j, n)
        PROVE  /\ HeldBy(j, IdOf[q])' => job'[j].attempt_count = n
               /\ job'[j].attempt_count = n =>
                    HeldBy(j, IdOf[q])' \/ job'[j].status \in {"retry_wait", "failed"}
    <3>1. CASE j \notin S
      <4>1. Unmoved(j)
        BY <1>1, <3>1 DEF ClaimedRows
      <4> QED BY <2>3, <4>1 DEF Unmoved, HeldBy, SerialInv, SlotSound
    <3>2. CASE j \in S
      <4>1. /\ job'[j].locked_by = IdOf[p]
            /\ job'[j].attempt_count = job[j].attempt_count + 1
        BY <1>1, <3>2 DEF ClaimedRows, ClaimedBy
      <4>2. n \in Nat /\ job[j].attempt_count \in Nat /\ n <= job[j].attempt_count
        BY <2>3, InHandCounted
      <4>3. IdOf[q] # IdOf[p]
        BY <1>8 DEF OneSlotEach
      <4> QED BY <4>1, <4>2, <4>3 DEF HeldBy
    <3> QED BY <3>1, <3>2
  <2> QED BY <2>1, <2>2, <2>3 DEF SlotSound, SerialInv
<1>9. CompletedByItsAttempt'
  <2> SUFFICES ASSUME NEW j \in JobId, NEW n \in AttemptNo,
                      job_attempt'[j][n].outcome = "completed"
               PROVE  job_attempt[j][n].outcome = "completed"
    BY <1>2 DEF CompletedByItsAttempt, SerialInv
  <2>1. CASE j \notin S
    BY <1>1, <2>1 DEF ClaimedRows, Unmoved
  <2>2. CASE j \in S
    <3>1. job_attempt'[j] = [job_attempt[j] EXCEPT ![job[j].attempt_count + 1] =
                               [worker_id |-> IdOf[p], outcome |-> "open"]]
      BY <1>1, <2>2 DEF ClaimedRows, ClaimedBy
    <3>2. DOMAIN job_attempt[j] = AttemptNo
      BY DEF QueueInv, Sound, LedgerSound
    <3> QED BY <3>1, <3>2
  <2> QED BY <2>1, <2>2
<1>10. ASSUME NEW j \in JobId, NEW n \in AttemptNo,
              task[j][n].phase = "failed", NotifiesTerminal(j, n)'
       PROVE  job'[j].status = "failed"
  <2>1. n <= job[j].attempt_count /\ n \in Nat \ {0} /\ job[j].attempt_count \in Nat
    BY <1>10, Attempts DEF WorkerInv, TaskSound, QueueInv, Sound, RowSound, Row
  <2>2. job'[j].key = job[j].key
    BY <1>3, <2>1 DEF Grows
  <2>3. NotifiesTerminal(j, n)
    BY <1>2, <1>10, <2>2 DEF NotifiesTerminal
  <2> QED BY <1>3, <1>10, <2>3 DEF SerialInv, FailedTruly, Grows
<1>11. NotifiedOnlyIfFailed'
  BY <1>2, <1>3 DEF NotifiedOnlyIfFailed, SerialInv, Grows, WorkerInv
<1> QED BY <1>2, <1>7, <1>8, <1>9, <1>10, <1>11 DEF SerialInv, FailedTruly

LEMMA ReceiveSerial ==
  ASSUME QueueInv, WorkerInv, SerialInv, NEW p \in Process, NEW T, StartedRows(p, T)
  PROVE  SerialInv'
<1>1. /\ UNCHANGED <<job, job_attempt, notified>>
      /\ T \subseteq process[p].polled /\ process'[p].polled = {}
  BY DEF StartedRows, queueVars
<1>2. /\ TasksOf(p)' \subseteq TasksOf(p) \cup T
      /\ \A q \in Process : q # p => TasksOf(q)' \subseteq TasksOf(q)
  BY ReceiveKeeps
<1>3. ASSUME NEW q \in Process, NEW j \in JobId, NEW n \in AttemptNo, InHand(q, j, n)'
      PROVE  InHand(q, j, n)
  BY <1>1, <1>2, <1>3 DEF InHand, StartedRows
<1>4. ASSUME NEW q \in Process, NEW j \in JobId, NEW n \in AttemptNo,
             <<j, n>> \in TasksOf(q)'
      PROVE  process'[q].active[j] # 0
  <2>1. CASE q = p
    BY <1>2, <1>4, <2>1 DEF StartedRows, SerialInv, SlotSound
  <2>2. CASE q # p
    BY <1>2, <1>4, <2>2 DEF StartedRows, SerialInv, SlotSound
  <2> QED BY <2>1, <2>2
<1>5. ASSUME NEW q \in Process PROVE SlotSound(q)'
  <2>1. \A j \in JobId : HeldBy(j, IdOf[q])' <=> HeldBy(j, IdOf[q])
    BY <1>1 DEF HeldBy
  <2> QED BY <1>1, <1>3, <1>4, <2>1 DEF SlotSound, SerialInv
<1>6. ASSUME NEW j \in JobId, NEW n \in AttemptNo
      PROVE  /\ task[j][n].result = "ok" => task'[j][n].result = "ok"
             /\ task'[j][n].phase = "failed" => task'[j][n] = task[j][n]
  <2>1. CASE <<j, n>> \in T
    <3>1. task[j][n] = NoTask
      BY <1>1, <2>1 DEF WorkerInv, PolledSound, TaskSound
    <3> QED BY <2>1, <3>1 DEF StartedRows, NoTask
  <2>2. CASE <<j, n>> \notin T
    BY <2>2 DEF StartedRows
  <2> QED BY <2>1, <2>2
<1>7. CompletedByItsAttempt'
  BY <1>1, <1>6 DEF CompletedByItsAttempt, SerialInv
<1>8. FailedTruly'
  BY <1>1, <1>6 DEF FailedTruly, NotifiesTerminal, SerialInv
<1>9. NotifiedOnlyIfFailed'
  BY <1>1 DEF NotifiedOnlyIfFailed, SerialInv
<1> QED BY <1>5, <1>7, <1>8, <1>9 DEF SerialInv

LEMMA SerialInit == WorkerInit => SerialInv
<1> SUFFICES ASSUME WorkerInit PROVE SerialInv
  OBVIOUS
<1>1. \A j \in JobId, n \in AttemptNo :
        task[j][n] = NoTask /\ job_attempt[j][n] = NoAttempt
  BY DEF WorkerInit, Init
<1>2. ASSUME NEW p \in Process, NEW j \in JobId, NEW n \in AttemptNo
      PROVE  ~InHand(p, j, n) /\ <<j, n>> \notin TasksOf(p)
  BY <1>1 DEF InHand, TasksOf, NoTask, Running, WorkerInit, Started
<1>3. CompletedByItsAttempt /\ FailedTruly
  BY <1>1 DEF CompletedByItsAttempt, FailedTruly, NoTask, NoAttempt
<1>4. NotifiedOnlyIfFailed
  BY DEF NotifiedOnlyIfFailed, WorkerInit
<1> QED BY <1>2, <1>3, <1>4 DEF SerialInv, SlotSound

LEMMA SerialStep ==
  ASSUME OneSlotEach, QueueInv, QueueInv', WorkerInv, WorkerInv', SerialInv,
         [WorkerNext]_allVars
  PROVE  SerialInv'
<1>1. CASE Ordinary
  BY <1>1, OrdinaryKeeps, SlotKept, AttemptsKept, FailuresKept DEF SerialInv
<1> QED BY <1>1, StepKinds, PollSerial, ReceiveStarts, ReceiveSerial

\* What a process with one slot has in hand is one attempt, and the lock it holds
\* is that attempt's.
THEOREM SlotsHold ==
  ASSUME OneSlotEach
  PROVE  WorkerSpec => []SerialInv
<1>1. /\ QueueInv /\ QueueInv' /\ WorkerInv /\ WorkerInv' /\ SerialInv /\ [WorkerNext]_allVars
      => SerialInv'
  BY SerialStep
<1>2. WorkerSpec => []QueueInv
  BY WorkersUseQueue, QueueInvariant, PTL
<1> QED BY <1>1, <1>2, SerialInit, WorkersHold, PTL DEF WorkerSpec

\* With one slot per process and distinct identities, the attempt that is recorded
\* as completed is the one whose handler returned: complete_job compares only the
\* worker, but no result of an earlier attempt can carry the same worker.
THEOREM AttemptsAreTheirOwn ==
  ASSUME OneSlotEach
  PROVE  WorkerSpec => []CompletedByItsAttempt
<1>1. SerialInv => CompletedByItsAttempt
  BY DEF SerialInv
<1> QED BY <1>1, SlotsHold, PTL

\* And notifyTerminalFailure, though it judges by the attempt's number and not by
\* the answer of fail_job, tells of no job that did not fail.
THEOREM NotificationsAreTrue ==
  ASSUME OneSlotEach
  PROVE  WorkerSpec => []NotifiedOnlyIfFailed
<1>1. SerialInv => NotifiedOnlyIfFailed
  BY DEF SerialInv
<1> QED BY <1>1, SlotsHold, PTL

=============================================================================
