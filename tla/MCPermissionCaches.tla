------------------------- MODULE MCPermissionCaches -------------------------
(***************************************************************************)
(* Instances of PermissionCaches small enough for TLC.                     *)
(***************************************************************************)
EXTENDS PermissionCaches, TLC

CONSTANTS s1, s2, g1, a1, a2, u1, p1, r1

OneGateway == (s1 :> g1) @@ (s2 :> g1)
InstanceSlotSymmetry == Permutations({a1, a2}) \cup Permutations({s1, s2})
=============================================================================
