-------------------------- MODULE MCActivityPublish --------------------------
(***************************************************************************)
(* ActivityPublish on two items and up to two administrators.              *)
(***************************************************************************)
EXTENDS ActivityPublish, TLC

CONSTANTS i1, i2, a1, a2

ActivitySymmetry == Permutations({i1, i2}) \cup Permutations({a1, a2})
=============================================================================
