------------------------------- MODULE Outbox -------------------------------
(***************************************************************************)
(* The durable queue as the services see it: enqueueJob is called inside   *)
(* the transaction of the change it belongs to, and a worker of another    *)
(* service runs the job later, at least once and in no particular order.   *)
(* A job is its idempotency key, of which its payload is a function.       *)
(*                                                                         *)
(* The module JobQueue is the queue in detail.  Here "queued" is every     *)
(* state but completed: scheduled, running and retry_wait, because a run   *)
(* that ends in an error, a crash or a lost lease leaves the job to be run *)
(* again, and failed, which is a job that is not run again until an        *)
(* operator retries it.                                                    *)
(***************************************************************************)
CONSTANTS
  User,
  DurableJobs,  \* durableJobsEnabled
  NULL

ASSUME OutboxAssumption == DurableJobs \in BOOLEAN

VARIABLES
  queued,    \* jobs that may be run, or run again
  completed  \* jobs a worker reported as completed

outboxVars == <<queued, completed>>

OutboxInit == queued = {} /\ completed = {}

Recorded == queued \cup completed

\* INSERT ... ON CONFLICT (source_service, type, idempotency_key) DO NOTHING:
\* a key that was used once is not enqueued again while its row exists.
Enqueue(K) ==
  /\ queued' = queued \cup (K \ Recorded)
  /\ UNCHANGED completed

EnqueueIfDurable(K) == IF DurableJobs THEN Enqueue(K) ELSE UNCHANGED outboxVars

\* complete_job after the handler returned.
Complete(k) ==
  /\ queued' = queued \ {k}
  /\ completed' = completed \cup {k}

\* The handler ran, and the result is lost: the job is run again.
Repeat == UNCHANGED outboxVars

Ran(k) == Complete(k) \/ Repeat
=============================================================================
