---------------------------- MODULE MCJobWorker -----------------------------
(***************************************************************************)
(* Instances of JobWorker small enough for TLC.                            *)
(***************************************************************************)
EXTENDS JobWorker, TLC

CONSTANTS k1, k2, w1, w2, p1, p2, notification

\* One service; the keys' contracts and the processes' identities.
OneTarget == [k \in Key |-> notification]
SamePriority == [k \in Key |-> 0]
TwoEach == [k \in Key |-> 2]
OneService == [w \in Worker |-> notification]
OwnIds == (p1 :> w1) @@ (p2 :> w2)
SharedId == (p1 :> w1) @@ (p2 :> w1)
OneProcess == (p1 :> w1)
BothKnow == [p \in Process |-> Key]
OnlyFirstKnows == (p1 :> {k1}) @@ (p2 :> {})
AlwaysRetryable == {TRUE}
MayRefuse == {TRUE, FALSE}
=============================================================================
