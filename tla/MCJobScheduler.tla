--------------------------- MODULE MCJobScheduler ---------------------------
(***************************************************************************)
(* Instances of JobScheduler small enough for TLC: the occurrences of the  *)
(* cron expressions and the identities of the ticks.                       *)
(***************************************************************************)
EXTENDS JobScheduler, TLC

CONSTANTS daily, sparse, a1, a2, b1

Times == (daily :> (1 .. 7)) @@ (sparse :> {2, 4, 7})
OnlyDaily == (daily :> (1 .. 7))
\* Two ticks of processes with one pid, one of a third process.
Ids == (a1 :> "jobs-1") @@ (a2 :> "jobs-1") @@ (b1 :> "jobs-2")
OneId == (a1 :> "jobs-1")

SameIdSymmetry == Permutations({a1, a2})
=============================================================================
