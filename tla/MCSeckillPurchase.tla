-------------------------- MODULE MCSeckillPurchase --------------------------
(* Instances of SeckillPurchase for TLC. *)
EXTENDS SeckillPurchase, TLC

CONSTANTS r1, r2, a1, a2, k1

(* Every request comes from a user of its own. *)
OwnUser == [r \in Requests |-> r]
(* One user sends all the requests. *)
OneUser == [r \in Requests |-> "u"]
(* Every request has an idempotency key of its own. *)
OwnKey == [r \in Requests |-> r]

Symmetry == Permutations(Attempts) \cup Permutations(Requests)
=============================================================================
