----------------------------- MODULE JobWorker ------------------------------
(***************************************************************************)
(* The worker processes of packages/jobs (class DurableJobWorker) at work  *)
(* on the queue of module JobQueue.  A process polls, runs the handlers of *)
(* what it claimed side by side, renews their leases from timers, reports  *)
(* each result with one call of the database, and is stopped, crashed and  *)
(* started again.                                                          *)
(*                                                                         *)
(* Between the moment the code decides to call the database and the moment *)
(* it goes on with the answer, anything may happen: the two are separate   *)
(* actions wherever another action can tell them apart.  A call may fail,  *)
(* and a claim or a fail may also take effect and lose its answer.         *)
(*                                                                         *)
(* A task is one run of process(job).  The claim that starts it opens the  *)
(* attempt of that number, so <<job, attempt>> names it; the code itself   *)
(* knows a task only by its job's id.  All keys are of one job type.       *)
(***************************************************************************)
EXTENDS JobQueue

CONSTANTS
  Process,     \* worker processes; ClaimLimit is their concurrency
  IdOf,        \* Process -> Worker: "<service>-<pid>"
  TypeLimit,   \* the contracts' concurrencyLimit
  Known,       \* Process -> SUBSET Key: the keys whose contract its build knows
  Notifies,    \* keys whose contract has terminalFailureNotification
  Classify,    \* what the contract's isRetryable may answer to a failure
  MaxIncidents \* bound: how often processes are stopped or crash

ASSUME WorkerAssumption ==
  /\ IsFiniteSet(JobId)
  /\ IdOf \in [Process -> Worker]
  /\ TypeLimit \in Nat \ {0}
  /\ Known \in [Process -> SUBSET Key]
  /\ Notifies \subseteq Key
  /\ Classify \in (SUBSET BOOLEAN) \ {{}}
  /\ MaxIncidents \in Nat

VARIABLES
  task,      \* by job and attempt: the run of process(job)
  process,   \* by process: its mode and the fields of DurableJobWorker
  notified,  \* jobs whose 'job-failure:<id>' notification was enqueued
  incidents  \* stops and crashes so far

queueVars == <<job, job_attempt, job_retry_request>>
allVars == <<job, job_attempt, job_retry_request,
             task, process, notified, incidents>>

-----------------------------------------------------------------------------
\* aborted stands for leaseLost and controller.signal.aborted, which are only
\* ever read together; result is what the handler did.
NoTask == [proc |-> NULL, phase |-> "none", aborted |-> FALSE, result |-> "none"]

Phases == {"none", "handling", "completing", "rejecting", "failing", "failed",
           "errored", "done"}
Running == Phases \ {"none", "done"}

\* A process that has just started: DurableJobWorker's field initialisers.
\* active and controllers map a job's id to a task (0: no entry); polled holds
\* the rows of a claim on their way to runOnce; overflow and releasing are the
\* releases still to be made, by runOnce and by shutdown; draining is what
\* shutdown waits for.  activeByType is the map's entry for the type of the keys,
\* kept apart from active, and 0 when there is none.
Started(mode) ==
  [mode |-> mode, polled |-> {}, active |-> [j \in JobId |-> 0],
   controllers |-> [j \in JobId |-> 0], activeByType |-> 0, draining |-> {},
   overflow |-> {}, releasing |-> {}]

forcedShutdown(p) == process[p].mode \in {"forcing", "forced"}

TasksOf(p) ==
  {t \in JobId \X AttemptNo :
     task[t[1]][t[2]].proc = p /\ task[t[1]][t[2]].phase \in Running}

\* How many rows of the type may run beside this one: a row whose contract the
\* process does not know is limited by its own concurrency only.
Limit(p, row) == IF job[row[1]].key \in Known[p] THEN TypeLimit ELSE ClaimLimit

ActiveSize(p) == Cardinality({j \in JobId : process[p].active[j] # 0})

WorkerInit ==
  /\ Init
  /\ task = [j \in JobId |-> [n \in AttemptNo |-> NoTask]]
  /\ process = [p \in Process |-> Started("up")]
  /\ notified = {}
  /\ incidents = 0

-----------------------------------------------------------------------------
\* Mutation of Poll: the rows carry the attempt_count from before the claim.
PollStaleRows(p) ==
  /\ process[p].mode = "up"
  /\ process[p].polled = {}
  /\ ActiveSize(p) < ClaimLimit
  /\ \E S \in ClaimBatches(IdOf[p], ClaimLimit - ActiveSize(p)) :
       /\ ClaimBatch(IdOf[p], S)
       /\ process' = [process EXCEPT ![p].polled =
                        {<<j, job[j].attempt_count>> : j \in S}]
  /\ UNCHANGED <<task, notified, incidents>>

\* runOnce up to its await: claim_jobs for the free slots of active.
Poll(p) ==
  /\ process[p].mode = "up"
  /\ process[p].polled = {}
  /\ ActiveSize(p) < ClaimLimit
  /\ \E S \in ClaimBatches(IdOf[p], ClaimLimit - ActiveSize(p)) :
       /\ ClaimBatch(IdOf[p], S)
       /\ \E answer \in {S, {}} :
            process' = [process EXCEPT ![p].polled =
                          {<<j, job[j].attempt_count + 1>> : j \in answer}]
  /\ UNCHANGED <<task, notified, incidents>>

\* The start of the rows T out of those polled; the others are to be released.
\* A known contract's task is in its handler at once; the first step of an
\* unknown one is to fail the job, unless shutdown has been forced.
Start(p, T) ==
  LET first(j) == CHOOSE n \in AttemptNo : <<j, n>> \in T
      entries(map) == [j \in JobId |-> IF \E n \in AttemptNo : <<j, n>> \in T
                                       THEN first(j) ELSE map[j]]
      rows == process[p].polled
  IN /\ task' = [j \in JobId |-> [n \in AttemptNo |->
          IF <<j, n>> \notin T THEN task[j][n]
          ELSE [NoTask EXCEPT
                  !.proc = p,
                  !.phase = IF job[j].key \in Known[p] THEN "handling"
                            ELSE IF forcedShutdown(p) THEN "errored"
                            ELSE "rejecting"]]]
     /\ process' = [process EXCEPT
          ![p].polled = {},
          ![p].active = entries(process[p].active),
          ![p].controllers = entries(process[p].controllers),
          ![p].activeByType = @ + Cardinality(T),
          ![p].overflow = @ \cup {t[1] : t \in rows \ T}]

\* The loop of runOnce over the claimed rows, whatever happened to the process
\* since the poll.  A row starts if fewer than its limit are active when its turn
\* comes, and is released otherwise; the answer may list the rows in any order,
\* so T may start if it does with its rows in the order of their limits.
Receive(p) ==
  LET rows == process[p].polled
      count == process[p].activeByType
  IN /\ rows # {} /\ process[p].mode # "down"
     /\ \E T \in SUBSET rows :
          /\ \A t \in T :
               count + Cardinality({u \in T : Limit(p, u) <= Limit(p, t)}) <= Limit(p, t)
          /\ \A t \in rows \ T : count + Cardinality(T) >= Limit(p, t)
          /\ Start(p, T)
     /\ UNCHANGED <<queueVars, notified, incidents>>

\* Mutation of Finish: the type's count follows the entry of active, so a task
\* whose entry another run of its job took or deleted is not counted down.
FinishByEntry(j, n, result) ==
  LET p == task[j][n].proc IN
  /\ task' = [task EXCEPT ![j][n].phase = "done", ![j][n].result = result]
  /\ process' = [process EXCEPT
       ![p].active[j] = 0, ![p].controllers[j] = 0,
       ![p].activeByType = IF process[p].active[j] = n THEN @ - 1 ELSE @]

\* The finally of process() and of its promise: the entries of the job's id are
\* deleted from both maps, whichever task they belong to, and the count of the
\* type goes down by one, or is deleted at one.
Finish(j, n, result) ==
  LET p == task[j][n].proc IN
  /\ task' = [task EXCEPT ![j][n].phase = "done", ![j][n].result = result]
  /\ process' = [process EXCEPT
       ![p].active[j] = 0, ![p].controllers[j] = 0,
       ![p].activeByType = IF @ <= 1 THEN 0 ELSE @ - 1]

Advance(j, n, phase, result) ==
  /\ task' = [task EXCEPT ![j][n].phase = phase, ![j][n].result = result]
  /\ UNCHANGED process

\* Mutation of HandlerEnds: an error of the handler is taken for a result.
HandlerErrorCompletes(j, n, result) ==
  /\ task[j][n].phase = "handling"
  /\ IF task[j][n].aborted \/ forcedShutdown(task[j][n].proc)
     THEN Finish(j, n, result)
     ELSE Advance(j, n, "completing", result)
  /\ UNCHANGED <<queueVars, notified, incidents>>

\* The handler ends; its result is reported unless the task was aborted.
HandlerEnds(j, n, result) ==
  /\ task[j][n].phase = "handling"
  /\ IF task[j][n].aborted \/ forcedShutdown(task[j][n].proc)
     THEN Finish(j, n, result)
     ELSE Advance(j, n, IF result = "ok" THEN "completing" ELSE "failing", result)
  /\ UNCHANGED <<queueVars, notified, incidents>>

\* runtime.complete: an error is swallowed and leaves the row running.
CompleteCall(j, n) ==
  LET w == IdOf[task[j][n].proc] IN
  /\ task[j][n].phase = "completing"
  /\ \/ CompleteJob(j, w)
     \/ ~HeldBy(j, w) /\ UNCHANGED queueVars
     \/ UNCHANGED queueVars \* the call fails
  /\ Finish(j, n, task[j][n].result)
  /\ UNCHANGED <<notified, incidents>>

\* runtime.fail.  A failed call ends the task without a notification, whether
\* it took effect or not; in the branch for an unknown contract the error is
\* caught by process() and reported as a retryable failure.
FailCall(j, n) ==
  LET p == task[j][n].proc
      w == IdOf[p]
      phase == task[j][n].phase
      retryables == IF phase = "rejecting" THEN {FALSE}
                    ELSE IF job[j].key \in Known[p] THEN Classify ELSE {TRUE}
      effect == \/ \E retryable \in retryables, delay \in RetryDelay :
                     FailJob(j, w, retryable, delay)
                \/ ~HeldBy(j, w) /\ UNCHANGED queueVars
      onError == IF phase = "rejecting" THEN "failing" ELSE "errored"
  IN /\ phase \in {"rejecting", "failing"}
     /\ \/ effect /\ Advance(j, n, "failed", task[j][n].result)
        \/ effect /\ Advance(j, n, onError, task[j][n].result)
        \/ UNCHANGED queueVars /\ Advance(j, n, onError, task[j][n].result)
     /\ UNCHANGED <<notified, incidents>>

\* Mutation of NotifiesTerminal: the last but one attempt counts as the last.
NotifiesEarly(j, n) ==
  /\ job[j].key \in Notifies \cap Known[task[j][n].proc]
  /\ n + 1 >= MaxAttemptsOf[job[j].key]

\* notifyTerminalFailure: it judges by toJobFailure's retryable, which is TRUE
\* for every handler error, and not by what fail_job did.
NotifiesTerminal(j, n) ==
  /\ job[j].key \in Notifies \cap Known[task[j][n].proc]
  /\ n >= MaxAttemptsOf[job[j].key]

\* The rest of the task after fail: the notification, which may fail, and the
\* finally.
FailReturns(j, n) ==
  /\ task[j][n].phase \in {"failed", "errored"}
  /\ \/ /\ task[j][n].phase = "failed"
        /\ NotifiesTerminal(j, n)
        /\ notified' = notified \cup {j}
     \/ UNCHANGED notified
  /\ Finish(j, n, task[j][n].result)
  /\ UNCHANGED <<queueVars, incidents>>

\* One firing of a task's heartbeat timer, which runs until the finally.  Losing
\* the lease only matters to a task whose handler is still running.
Abort(j, n) ==
  task' = [task EXCEPT ![j][n].aborted = @ \/ task[j][n].phase = "handling"]

Heartbeat(j, n) ==
  LET w == IdOf[task[j][n].proc] IN
  /\ task[j][n].phase \in Running
  /\ \/ HeartbeatJob(j, w) /\ UNCHANGED task
     \/ /\ ~(HeldBy(j, w) /\ job[j].lease_left > 0)
        /\ Abort(j, n) /\ UNCHANGED queueVars
     \/ Abort(j, n) /\ UNCHANGED queueVars \* the call fails
  /\ UNCHANGED <<process, notified, incidents>>

-----------------------------------------------------------------------------
\* shutdown() up to its await: with nothing active it returns at once.
Stop(p) ==
  LET entries == {<<j, process[p].active[j]>> : j \in JobId}
      active == {t \in entries : t[2] # 0}
  IN /\ process[p].mode = "up"
     /\ incidents < MaxIncidents
     /\ process' = [process EXCEPT
          ![p].mode = IF active = {} THEN "drained" ELSE "draining",
          ![p].draining = active]
     /\ incidents' = incidents + 1
     /\ UNCHANGED <<queueVars, task, notified>>

\* The tasks shutdown waits for have ended before its timeout.
Drained(p) ==
  /\ process[p].mode = "draining"
  /\ \A t \in process[p].draining : task[t[1]][t[2]].phase = "done"
  /\ process' = [process EXCEPT ![p].mode = "drained", ![p].draining = {}]
  /\ UNCHANGED <<queueVars, task, notified, incidents>>

\* The timeout comes first: abort and release what controllers lists.
ForceShutdown(p) ==
  LET listed == {j \in JobId : process[p].controllers[j] # 0}
  IN /\ process[p].mode = "draining"
     /\ task' = [j \in JobId |-> [n \in AttemptNo |->
          IF j \in listed /\ n = process[p].controllers[j]
             /\ task[j][n].phase = "handling"
          THEN [task[j][n] EXCEPT !.aborted = TRUE] ELSE task[j][n]]]
     /\ process' = [process EXCEPT ![p].mode = "forcing", ![p].draining = {},
                                   ![p].releasing = listed]
     /\ UNCHANGED <<queueVars, notified, incidents>>

ReleaseEffect(j, w) ==
  \/ ReleaseJob(j, w)
  \/ ~HeldBy(j, w) /\ UNCHANGED queueVars
  \/ UNCHANGED queueVars \* the call fails

\* runtime.release for a row beyond the type's limit; nothing waits for it.
ReleaseOverflow(p, j) ==
  /\ j \in process[p].overflow
  /\ ReleaseEffect(j, IdOf[p])
  /\ process' = [process EXCEPT ![p].overflow = @ \ {j}]
  /\ UNCHANGED <<task, notified, incidents>>

\* runtime.release of an active job by shutdown.
ReleaseActive(p, j) ==
  /\ j \in process[p].releasing
  /\ ReleaseEffect(j, IdOf[p])
  /\ process' = [process EXCEPT ![p].releasing = @ \ {j}]
  /\ UNCHANGED <<task, notified, incidents>>

\* stop() resolves after the last release.
Forced(p) ==
  /\ process[p].mode = "forcing"
  /\ process[p].releasing = {}
  /\ process' = [process EXCEPT ![p].mode = "forced"]
  /\ UNCHANGED <<queueVars, task, notified, incidents>>

\* The process is gone, and with it its tasks and all that was in flight.
Gone(p) ==
  /\ task' = [j \in JobId |-> [n \in AttemptNo |->
       IF <<j, n>> \in TasksOf(p)
       THEN [task[j][n] EXCEPT !.phase = "done"] ELSE task[j][n]]]
  /\ process' = [process EXCEPT ![p] = Started("down")]

\* process.exit after stop() has resolved.
Exit(p) ==
  /\ process[p].mode \in {"drained", "forced"}
  /\ Gone(p)
  /\ UNCHANGED <<queueVars, notified, incidents>>

Crash(p) ==
  /\ process[p].mode # "down"
  /\ incidents < MaxIncidents
  /\ Gone(p)
  /\ incidents' = incidents + 1
  /\ UNCHANGED <<queueVars, notified>>

Restart(p) ==
  /\ process[p].mode = "down"
  /\ process' = [process EXCEPT ![p].mode = "up"]
  /\ UNCHANGED <<queueVars, task, notified, incidents>>

\* Producers, the reaper of the jobs service and time.
Environment ==
  /\ \/ \E key \in Key, delay \in RunDelay : EnqueueJob(key, delay)
     \/ \E skew \in Skew : ReapExpiredJobs(skew)
     \/ Tick
  /\ UNCHANGED <<task, process, notified, incidents>>

\* What the event loop of a process does of its own accord.
ProcessStep(p) ==
  \/ Poll(p)
  \/ Receive(p)
  \/ \E t \in TasksOf(p) :
       \/ \E result \in {"ok", "error"} : HandlerEnds(t[1], t[2], result)
       \/ CompleteCall(t[1], t[2])
       \/ FailCall(t[1], t[2])
       \/ FailReturns(t[1], t[2])
  \/ \E j \in JobId : ReleaseOverflow(p, j) \/ ReleaseActive(p, j)
  \/ Drained(p)
  \/ Forced(p)
  \/ Exit(p)
  \/ Restart(p)

WorkerNext ==
  \/ Environment
  \/ \E p \in Process :
       \/ ProcessStep(p)
       \/ \E t \in TasksOf(p) : Heartbeat(t[1], t[2])
       \/ Stop(p)
       \/ ForceShutdown(p)
       \/ Crash(p)

WorkerSpec == WorkerInit /\ [][WorkerNext]_allVars

\* Time passes, the jobs service's interval keeps calling the reaper, and every
\* process keeps doing what its event loop has to do: polls and promises are not
\* starved, a handler returns or throws in the end, a stopped process exits and
\* is started again.  Heartbeats, stops and crashes are not forced to happen.
WorkerFairness ==
  /\ WF_allVars(Tick /\ UNCHANGED <<task, process, notified, incidents>>)
  /\ WF_allVars(/\ \E skew \in Skew : ReapExpiredJobs(skew)
                /\ UNCHANGED <<task, process, notified, incidents>>)
  /\ \A p \in Process : WF_allVars(ProcessStep(p))

FairWorkerSpec == WorkerSpec /\ WorkerFairness

-----------------------------------------------------------------------------
WorkerTypeOK ==
  /\ TypeOK
  /\ task \in [JobId -> [AttemptNo ->
       [proc : Process \cup {NULL}, phase : Phases, aborted : BOOLEAN,
        result : {"none", "ok", "error"}]]]
  /\ process \in [Process ->
       [mode : {"up", "draining", "drained", "forcing", "forced", "down"},
        polled : SUBSET (JobId \X AttemptNo),
        active : [JobId -> 0..MaxAttempts],
        controllers : [JobId -> 0..MaxAttempts],
        activeByType : Nat,
        draining : SUBSET (JobId \X AttemptNo),
        overflow : SUBSET JobId, releasing : SUBSET JobId]]
  /\ notified \subseteq JobId
  /\ incidents \in 0..MaxIncidents

\* An attempt is recorded as completed only after a handler of the job returned
\* in a process with that attempt's worker_id, in that attempt or an earlier one:
\* whatever was lost, late or claimed again, complete_job never credits a job or
\* a worker with work that was not done.
CompletedByItsHolder ==
  \A j \in JobId, n \in AttemptNo :
    job_attempt[j][n].outcome = "completed" =>
      \E m \in AttemptNo :
        /\ m <= n /\ task[j][m].result = "ok"
        /\ IdOf[task[j][m].proc] = job_attempt[j][n].worker_id

\* An attempt is recorded as completed only if it is the one whose handler
\* returned, so the attempt history names the run that did the work.
CompletedByItsAttempt ==
  \A j \in JobId, n \in AttemptNo :
    job_attempt[j][n].outcome = "completed" => task[j][n].result = "ok"

\* activeByType neither drifts up, which would starve the type for good, nor
\* down: it is the number of the process's runs even while two runs of one job
\* share an entry of active and of controllers.  So no process runs more handlers
\* of a contract than its concurrencyLimit.
TypeLimitRespected ==
  \A p \in Process :
    /\ process[p].activeByType = Cardinality(TasksOf(p))
    /\ Cardinality({t \in TasksOf(p) : job[t[1]].key \in Known[p]}) <= TypeLimit

\* Operators are never told that a job is lost while it is still to be worked on,
\* although notifyTerminalFailure judges by the attempt's number and not by the
\* answer of fail_job: the job has ended, if not failed then completed.
NotifiedOnlyIfEnded == \A j \in notified : job[j].status \in Terminal

\* Operators are told of a terminal failure only when the job did fail.
NotifiedOnlyIfFailed == \A j \in notified : job[j].status = "failed"

\* When stop() has resolved, the process holds no lease.
StopReleasesLeases ==
  \A p \in Process : process[p].mode \in {"drained", "forced"} =>
    \A j \in JobId : ~HeldBy(j, IdOf[p])

\* Every accepted job ends completed or failed, through failing calls, lost
\* answers, lost leases, stops and crashes.
EveryJobEnds ==
  \A j \in JobId : Exists(j) ~> job[j].status \in Terminal

\* A job that failed for good and whose contract asks for it is reported.
FailureIsNotified ==
  \A j \in JobId :
    job[j].status = "failed" /\ job[j].key \in Notifies ~> j \in notified
=============================================================================
