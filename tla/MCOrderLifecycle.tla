-------------------------- MODULE MCOrderLifecycle --------------------------
(***************************************************************************)
(* Small instances of OrderLifecycle.                                      *)
(***************************************************************************)
EXTENDS OrderLifecycle, TLC

CONSTANTS n1, n2, s1, c1, c2, j1, j2

ClientSymmetry == Permutations({c1, c2})
=============================================================================
