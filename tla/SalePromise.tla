----------------------------- MODULE SalePromise -----------------------------
(***************************************************************************)
(* What the sale of an activity item promises, whatever stores, topics and *)
(* processes there are: a piece is on offer or somebody holds it, never    *)
(* both; an order is made of a piece its request holds, and keeps it until *)
(* it is closed; nobody holds more than the limit; only what is held goes  *)
(* back on offer.  Pieces may be lost on the way.  SeckillPurchase         *)
(* implements it as long as none of its faults happens.                    *)
(***************************************************************************)
EXTENDS Integers, FiniteSets

CONSTANTS
  Requests, UserOf,
  Limit,    \* pieces of one user; 0 is no limit
  Total     \* pieces in the sale

VARIABLES
  free,    \* pieces on offer
  held,    \* pieces taken, as <<request, kind>>
  order    \* none, live or closed, by request

vars == <<free, held, order>>

(* An order is made of the base piece of its request.  A repeat may take   *)
(* an extra one before it learns that there is an order.                   *)
Kinds == {"base", "extra"}

HeldBy(u) == {p \in held : UserOf[p[1]] = u}

Init ==
  /\ free = Total
  /\ held = {}
  /\ order = [r \in Requests |-> "none"]

(* Some of the pieces may be lost (a process stops and nobody knows of     *)
(* them any more), but never that of a live order.                         *)
Keep(pieces) ==
  /\ held' \subseteq pieces
  /\ \A r \in Requests : order'[r] = "live" => <<r, "base">> \in held'

Take(r, kind) ==
  /\ free > 0
  /\ Limit > 0 => Cardinality(HeldBy(UserOf[r])) < Limit
  /\ free' = free - 1
  /\ Keep(held \cup {<<r, kind>>})
  /\ UNCHANGED order

GiveBack(r, kind) ==
  /\ <<r, kind>> \in held
  /\ free' = free + 1
  /\ Keep(held \ {<<r, kind>>})
  /\ UNCHANGED order

Sell(r) ==
  /\ order[r] = "none"
  /\ <<r, "base">> \in held
  /\ order' = [order EXCEPT ![r] = "live"]
  /\ Keep(held)
  /\ UNCHANGED free

Close(r) ==
  /\ order[r] = "live"
  /\ order' = [order EXCEPT ![r] = "closed"]
  /\ Keep(held)
  /\ UNCHANGED free

Lose == Keep(held) /\ UNCHANGED <<free, order>>

Next ==
  \/ \E r \in Requests, kind \in Kinds : Take(r, kind) \/ GiveBack(r, kind)
  \/ \E r \in Requests : Sell(r) \/ Close(r)
  \/ Lose

Spec == Init /\ [][Next]_vars
=============================================================================
