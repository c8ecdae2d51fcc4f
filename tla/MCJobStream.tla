----------------------------- MODULE MCJobStream -----------------------------
(***************************************************************************)
(* JobStream with two browsers.                                            *)
(***************************************************************************)
EXTENDS JobStream

CONSTANTS v1, v2
=============================================================================
