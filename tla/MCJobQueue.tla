----------------------------- MODULE MCJobQueue -----------------------------
(***************************************************************************)
(* Instances of JobQueue small enough for TLC: the contracts of the keys   *)
(* and the services of the workers.                                        *)
(***************************************************************************)
EXTENDS JobQueue, TLC

CONSTANTS k1, k2, w1, w2, w3, auth, notification

ToNotification == [k \in Key |-> notification]
LowAndHigh == (k1 :> 0) @@ (k2 :> 1)
TwoThenOne == (k1 :> 2) @@ (k2 :> 1)
\* w1 and w2 compete for the jobs; w3 works for another service.
TwoAndOther == (w1 :> notification) @@ (w2 :> notification) @@ (w3 :> auth)

JobSymmetry == Permutations(JobId)
JobAndWorkerSymmetry == JobSymmetry \cup Permutations({w1, w2})
=============================================================================
