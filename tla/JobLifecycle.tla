---------------------------- MODULE JobLifecycle ----------------------------
(***************************************************************************)
(* What the job runtime promises of a job, with no table, lock, lease or   *)
(* clock: the state model of the runtime's design.  A job is accepted with *)
(* a budget of attempts, is attempted at most that often, ends completed   *)
(* or failed, and then stays as it ended until it is forgotten for good.   *)
(* One step may move several jobs: claims, the reaper and retention work   *)
(* on batches.                                                             *)
(***************************************************************************)
EXTENDS Naturals

CONSTANTS Job, MaxBudget

VARIABLE lifecycle  \* per job: its state, the attempts made and the budget

Waiting == {"queued", "retry_wait"}
Ended == {"completed", "failed"}

States == {"absent", "forgotten", "running"} \cup Waiting \cup Ended

Nothing(state) == [state |-> state, attempts |-> 0, budget |-> 0]

Init == lifecycle = [j \in Job |-> Nothing("absent")]

Becomes(j, state) ==
  lifecycle'[j] = [lifecycle[j] EXCEPT !.state = state]

Accept(j) ==
  /\ lifecycle[j].state = "absent"
  /\ \E b \in 1..MaxBudget :
       lifecycle'[j] = [state |-> "queued", attempts |-> 0, budget |-> b]

Attempt(j) ==
  /\ lifecycle[j].state \in Waiting
  /\ lifecycle[j].attempts < lifecycle[j].budget
  /\ lifecycle'[j] = [lifecycle[j] EXCEPT !.state = "running",
                                          !.attempts = @ + 1]

\* The attempt settles; another is due only if the budget allows one.
Settle(j) ==
  /\ lifecycle[j].state = "running"
  /\ \/ \E end \in Ended : Becomes(j, end)
     \/ /\ lifecycle[j].attempts < lifecycle[j].budget
        /\ Becomes(j, "retry_wait")

Forget(j) ==
  /\ lifecycle[j].state \in Ended
  /\ lifecycle'[j] = Nothing("forgotten")

Move(j) == Accept(j) \/ Attempt(j) \/ Settle(j) \/ Forget(j)

Next ==
  /\ DOMAIN lifecycle' = Job
  /\ \A j \in Job : Move(j) \/ lifecycle'[j] = lifecycle[j]

Spec == Init /\ [][Next]_lifecycle
=============================================================================
