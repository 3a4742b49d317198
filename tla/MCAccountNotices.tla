-------------------------- MODULE MCAccountNotices --------------------------
(***************************************************************************)
(* Instances of AccountNotices small enough for TLC.                       *)
(***************************************************************************)
EXTENDS AccountNotices, TLC

CONSTANTS u1, admin, p1, r1, w1, w2, i1, i2

\* A suspended user, besides one who is not there yet.
StartRows == {[NewRow EXCEPT !.suspended = TRUE]}

InAppSetting == {<<"account", "in_app">>}
EmailSetting == {<<"access", "email">>}

\* The grant and the revocation of one request have instants of their own.
InstantOf(job) == IF job.action = "grant" THEN i1 ELSE i2
=============================================================================
