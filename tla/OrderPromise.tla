---------------------------- MODULE OrderPromise ----------------------------
(***************************************************************************)
(* What order-rpc promises about one purchase, whatever handlers, jobs and *)
(* failures there are: an order goes one way, goods leave only against     *)
(* money, and when an order is abandoned its money and its unit of stock   *)
(* each go back once.  OrderLifecycle implements it.                       *)
(***************************************************************************)
CONSTANTS
  Orders,
  StockOrders   \* orders that hold a unit of products.stock

VARIABLES
  phase,   \* none, open, review, accepted, shipped, completed or abandoned
  money,   \* none, taken, owed or returned
  unit     \* none, held or returned

vars == <<phase, money, unit>>

Init ==
  /\ phase = [o \in Orders |-> "none"]
  /\ money = [o \in Orders |-> "none"]
  /\ unit = [o \in Orders |-> "none"]

Move(o, from, to) == phase[o] \in from /\ phase' = [phase EXCEPT ![o] = to]

Hold(o) ==
  /\ o \in StockOrders /\ phase[o] = "none" /\ unit[o] = "none"
  /\ unit' = [unit EXCEPT ![o] = "held"]
  /\ UNCHANGED <<phase, money>>

(* The order could not be written: the purchase never happens.             *)
Drop(o) ==
  /\ phase[o] = "none" /\ unit[o] = "held"
  /\ unit' = [unit EXCEPT ![o] = "returned"]
  /\ UNCHANGED <<phase, money>>

Place(o) ==
  /\ o \in StockOrders => unit[o] = "held"
  /\ Move(o, {"none"}, "open")
  /\ UNCHANGED <<money, unit>>

Pay(o) ==
  /\ \E next \in {"review", "accepted"} : Move(o, {"open"}, next)
  /\ money' = [money EXCEPT ![o] = "taken"]
  /\ UNCHANGED unit

Accept(o) == Move(o, {"review"}, "accepted") /\ UNCHANGED <<money, unit>>

Ship(o) == Move(o, {"accepted"}, "shipped") /\ UNCHANGED <<money, unit>>

Complete(o) == Move(o, {"shipped"}, "completed") /\ UNCHANGED <<money, unit>>

Abandon(o) ==
  /\ Move(o, {"open", "review"}, "abandoned")
  /\ money' = [money EXCEPT ![o] = IF @ = "taken" THEN "owed" ELSE @]
  /\ UNCHANGED unit

Refund(o) ==
  /\ money[o] = "owed"
  /\ money' = [money EXCEPT ![o] = "returned"]
  /\ UNCHANGED <<phase, unit>>

Return(o) ==
  /\ phase[o] = "abandoned" /\ unit[o] = "held"
  /\ unit' = [unit EXCEPT ![o] = "returned"]
  /\ UNCHANGED <<phase, money>>

Step(o) ==
  \/ Hold(o) \/ Drop(o) \/ Place(o) \/ Pay(o) \/ Accept(o) \/ Ship(o)
  \/ Complete(o) \/ Abandon(o) \/ Refund(o) \/ Return(o)

Next == \E o \in Orders : Step(o)

Safety == Init /\ [][Next]_vars

Spec == Safety /\ \A o \in Orders : WF_vars(Refund(o)) /\ WF_vars(Return(o))
=============================================================================
