--------------------------- MODULE MCOrderStateFeed ---------------------------
(***************************************************************************)
(* OrderStateFeed on one order, whose five events go through one           *)
(* publisher and two consumers.                                            *)
(***************************************************************************)
EXTENDS OrderStateFeed

CONSTANTS o1, w1, c1, c2
=============================================================================
