------------------------------ MODULE MCSignIn ------------------------------
(***************************************************************************)
(* Instances of SignIn small enough for TLC.                               *)
(***************************************************************************)
EXTENDS SignIn, TLC

CONSTANTS u1, m1, a1, r1, r2

\* Confirmations differ in nothing but their names.
Symmetry == Permutations(Request)
=============================================================================
