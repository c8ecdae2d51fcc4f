--------------------------- MODULE MCAdminSessions ---------------------------
(***************************************************************************)
(* AdminSessions on one account and two calls at once.                     *)
(***************************************************************************)
EXTENDS AdminSessions, TLC

CONSTANTS a1, t1, t2, t3, r1, r2

SessionSymmetry == Permutations({t1, t2, t3}) \cup Permutations({r1, r2})
=============================================================================
