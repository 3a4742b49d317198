-------------------------- MODULE MCDatabaseRunner --------------------------
(***************************************************************************)
(* Commands on a small database: three migrations of two scopes and a seed *)
(* of each set. The old release has no third migration, and its second one *)
(* was edited since.                                                       *)
(***************************************************************************)
EXTENDS DatabaseRunner, TLC

CONSTANTS r1, r2, r3, r4, r5, m1, m2, m3, s1, s2, auth, user, c1, c2

NumberOf == (m1 :> 1) @@ (m2 :> 2) @@ (m3 :> 3) @@ (s1 :> 1) @@ (s2 :> 2)
Scopes == (m1 :> auth) @@ (m2 :> user) @@ (m3 :> auth) @@ (s1 :> auth) @@ (s2 :> user)
OldFiles == [f \in File |-> IF f = m3 THEN NULL ELSE IF f = m2 THEN c2 ELSE c1]
NewFiles == [f \in File |-> c1]
OldAndNew == [r \in Runner |-> IF r = r5 THEN OldFiles ELSE NewFiles]

RunnerSymmetry == Permutations({r1, r2, r3})
=============================================================================
