------------------------- MODULE OrderPromise_proofs -------------------------
(***************************************************************************)
(* OrderLifecycle implements OrderPromise, for every set of orders,        *)
(* handlers and timeout jobs; and what this rests on: how a row may        *)
(* change, and what the keys of product-rpc say about the handler that     *)
(* creates an order.                                                       *)
(***************************************************************************)
EXTENDS OrderLifecycle_proofs, FiniteSetTheorems

USE DEF Handlers

-----------------------------------------------------------------------------
(* How one row may change.                                                 *)

(* What was said of an order stays true of it.                             *)
Grows(old, new) ==
  /\ Rank[old.status] <= Rank[new.status]
  /\ old.reason # "" => new.reason = old.reason
  /\ old.payment = "Paid" => new.payment = "Paid"

Final(old, new) ==
  old.status = "Closed" =>
    /\ new = [old EXCEPT !.refund = new.refund, !.stockReleased = new.stockReleased]
    /\ old.stockReleased => new.stockReleased
    /\ new.refund # old.refund => old.refund = "Refunding" /\ new.refund = "Refunded"

(* The change is one of the promise, with phase and money as mapped.       *)
Promised(old, new) ==
  \/ /\ PhaseOf(new) = PhaseOf(old) /\ MoneyOf(new) = MoneyOf(old)
  \/ /\ PhaseOf(old) = "open" /\ PhaseOf(new) \in {"review", "accepted"}
     /\ MoneyOf(new) = "taken"
  \/ /\ <<PhaseOf(old), PhaseOf(new)>> \in
          {<<"review", "accepted">>, <<"accepted", "shipped">>,
           <<"shipped", "completed">>}
     /\ MoneyOf(new) = MoneyOf(old)
  \/ /\ PhaseOf(old) \in {"open", "review"} /\ PhaseOf(new) = "abandoned"
     /\ MoneyOf(new) = IF MoneyOf(old) = "taken" THEN "owed" ELSE MoneyOf(old)
  \/ /\ MoneyOf(old) = "owed" /\ MoneyOf(new) = "returned"
     /\ PhaseOf(new) = PhaseOf(old)

RowMove(old, new) ==
  /\ old.status # "Absent" /\ new.status # "Absent"
  /\ new.source = old.source
  /\ Grows(old, new)
  /\ Final(old, new)
  /\ Promised(old, new)

LEMMA Ranks ==
  /\ \A s \in Statuses : Rank[s] \in 0..5
  /\ Rank["Absent"] = 0 /\ Rank["PendingPay"] = 1 /\ Rank["PendingReview"] = 2
  /\ Rank["PendingShip"] = 3 /\ Rank["Shipped"] = 4 /\ Rank["Closed"] = 5
  <1>1. /\ Rank["Absent"] = 0 /\ Rank["PendingPay"] = 1 /\ Rank["PendingReview"] = 2
        /\ Rank["PendingShip"] = 3 /\ Rank["Shipped"] = 4 /\ Rank["Closed"] = 5
    BY DEF Rank, Statuses
  <1> QED BY <1>1 DEF Statuses

LEMMA Orderly ==
  ASSUME NEW s \in Statuses, NEW t \in Statuses,
         \/ s = t \/ s = "Absent" \/ t = "Closed"
         \/ s = "PendingPay" /\ t # "Absent"
         \/ <<s, t>> \in {<<"PendingReview", "PendingShip">>, <<"PendingShip", "Shipped">>}
  PROVE  Rank[s] <= Rank[t]
  <1>1. Rank[s] \in 0..5 /\ Rank[t] \in 0..5 BY Ranks
  <1>2. CASE s = t BY <1>1, <1>2
  <1>3. CASE s = "Absent" BY <1>1, <1>3, Ranks
  <1>4. CASE t = "Closed" BY <1>1, <1>4, Ranks
  <1>5. CASE s = "PendingPay" /\ t # "Absent"
    <2>1. Rank[s] = 1 BY <1>5, Ranks
    <2>2. Rank[t] \in 1..5 BY <1>5, Ranks DEF Statuses
    <2> QED BY <2>1, <2>2
  <1>6. CASE s = "PendingReview" /\ t = "PendingShip"
    <2>1. Rank[s] = 2 /\ Rank[t] = 3 BY <1>6, Ranks
    <2> QED BY <2>1
  <1>7. CASE s = "PendingShip" /\ t = "Shipped"
    <2>1. Rank[s] = 3 /\ Rank[t] = 4 BY <1>7, Ranks
    <2> QED BY <2>1
  <1> QED BY <1>2, <1>3, <1>4, <1>5, <1>6, <1>7

LEMMA CloseUnpaidMove ==
  ASSUME NEW r \in OrderRow, RowFits(r), IsUnpaid(r),
         NEW reason \in {"user_cancel", "pay_timeout"}
  PROVE  RowMove(r, [r EXCEPT !.status = "Closed", !.reason = reason])
  <1> DEFINE n == [r EXCEPT !.status = "Closed", !.reason = reason]
  <1>1. /\ r.status = "PendingPay" /\ r.payment = "Unpaid" /\ r.reason = ""
        /\ n.status = "Closed" /\ n.reason = reason /\ n.payment = "Unpaid"
        /\ n.source = r.source
    BY DEF IsUnpaid, RowFits, OrderRow
  <1>2. Grows(r, n) BY <1>1, Orderly DEF Grows, OrderRow, Statuses
  <1>3. Final(r, n) BY <1>1 DEF Final
  <1>4. Promised(r, n)
    BY <1>1 DEF Promised, PhaseOf, MoneyOf, ReleaseReasons
  <1> QED BY <1>1, <1>2, <1>3, <1>4 DEF RowMove

LEMMA CloseReviewMove ==
  ASSUME NEW r \in OrderRow, RowFits(r), r.status = "PendingReview",
         NEW n \in OrderRow, n.status = "Closed", n.reason \in ReleaseReasons,
         n.refund = "Refunding", n.payment = r.payment, n.source = r.source
  PROVE  RowMove(r, n)
  <1>1. r.payment = "Paid" /\ r.reason = "" /\ r.refund = "None"
    BY DEF RowFits
  <1>2. Grows(r, n) BY <1>1, Orderly DEF Grows, OrderRow
  <1>3. Final(r, n) BY DEF Final
  <1>4. PhaseOf(r) = "review" /\ MoneyOf(r) = "taken"
    BY <1>1 DEF PhaseOf, MoneyOf
  <1>5. PhaseOf(n) = "abandoned" /\ MoneyOf(n) = "owed"
    BY <1>1 DEF PhaseOf, MoneyOf
  <1>6. Promised(r, n) BY <1>4, <1>5 DEF Promised
  <1> QED BY <1>2, <1>3, <1>6 DEF RowMove

LEMMA PayMove ==
  ASSUME NEW r \in OrderRow, RowFits(r), IsUnpaid(r),
         NEW n \in OrderRow, n.status \in {"PendingShip", "PendingReview"},
         n.payment = "Paid", n.refund = r.refund, n.source = r.source
  PROVE  RowMove(r, n)
  <1>1. /\ r.status = "PendingPay" /\ r.payment = "Unpaid" /\ r.reason = ""
        /\ r.refund = "None"
    BY DEF IsUnpaid, RowFits
  <1>2. Grows(r, n) BY <1>1, Orderly DEF Grows, OrderRow
  <1>3. Final(r, n) BY <1>1 DEF Final
  <1>4. PhaseOf(r) = "open" BY <1>1 DEF PhaseOf
  <1>5. PhaseOf(n) \in {"review", "accepted"} /\ MoneyOf(n) = "taken"
    BY <1>1 DEF PhaseOf, MoneyOf
  <1>6. Promised(r, n) BY <1>4, <1>5 DEF Promised
  <1> QED BY <1>1, <1>2, <1>3, <1>6 DEF RowMove

(* One step along the way of a paid order.                                 *)
LEMMA DeliverMove ==
  ASSUME NEW r \in OrderRow, RowFits(r),
         NEW n \in OrderRow,
         \/ r.status = "PendingReview" /\ n.status = "PendingShip" /\ n.reason = r.reason
         \/ r.status = "PendingShip" /\ n.status = "Shipped" /\ n.reason = r.reason
         \/ /\ r.status = "Shipped" /\ n.status = "Closed"
            /\ n.reason \in {"completed", "auto_completed"},
         n.payment = r.payment, n.refund = r.refund, n.source = r.source
  PROVE  RowMove(r, n)
  <1>1. r.payment = "Paid" /\ r.reason = "" /\ r.refund = "None"
    BY DEF RowFits
  <1>2. Grows(r, n) BY <1>1, Orderly DEF Grows, OrderRow
  <1>3. Final(r, n) BY DEF Final
  <1>4. MoneyOf(n) = MoneyOf(r) BY <1>1 DEF MoneyOf
  <1>5. <<PhaseOf(r), PhaseOf(n)>> \in
          {<<"review", "accepted">>, <<"accepted", "shipped">>,
           <<"shipped", "completed">>}
    BY DEF PhaseOf, ReleaseReasons
  <1>6. Promised(r, n) BY <1>4, <1>5 DEF Promised
  <1> QED BY <1>2, <1>3, <1>6 DEF RowMove

LEMMA RefundMove ==
  ASSUME NEW r \in OrderRow, RowFits(r), r.status = "Closed", r.refund = "Refunding"
  PROVE  RowMove(r, [r EXCEPT !.refund = "Refunded"])
  <1> DEFINE n == [r EXCEPT !.refund = "Refunded"]
  <1>1. /\ n.status = r.status /\ n.reason = r.reason /\ n.payment = r.payment
        /\ n.source = r.source /\ n.stockReleased = r.stockReleased
        /\ n.refund = "Refunded"
    BY DEF OrderRow
  <1>2. r.payment = "Paid"
    <2>1. r.reason \in ReleaseReasons
      BY DEF RowFits, OrderRow, CloseReasons
    <2> QED BY <2>1 DEF RowFits
  <1>3. Grows(r, n) BY <1>1, Orderly DEF Grows, OrderRow
  <1>4. n = [r EXCEPT !.refund = n.refund, !.stockReleased = n.stockReleased]
    BY <1>1 DEF OrderRow
  <1>5. Final(r, n) BY <1>1, <1>4 DEF Final
  <1>6. PhaseOf(n) = PhaseOf(r) BY <1>1 DEF PhaseOf
  <1>7. MoneyOf(r) = "owed" /\ MoneyOf(n) = "returned" BY <1>1, <1>2 DEF MoneyOf
  <1>8. Promised(r, n) BY <1>6, <1>7 DEF Promised
  <1> QED BY <1>1, <1>3, <1>5, <1>8 DEF RowMove

LEMMA MarkMove ==
  ASSUME NEW r \in OrderRow, r.status = "Closed"
  PROVE  RowMove(r, [r EXCEPT !.stockReleased = TRUE])
  <1> DEFINE n == [r EXCEPT !.stockReleased = TRUE]
  <1>1. /\ n.status = r.status /\ n.reason = r.reason /\ n.payment = r.payment
        /\ n.source = r.source /\ n.refund = r.refund /\ n.stockReleased
    BY DEF OrderRow
  <1>2. Grows(r, n) BY <1>1, Orderly DEF Grows, OrderRow
  <1>3. n = [r EXCEPT !.refund = n.refund, !.stockReleased = n.stockReleased]
    BY <1>1 DEF OrderRow
  <1>4. Final(r, n) BY <1>1, <1>3 DEF Final
  <1>5. PhaseOf(n) = PhaseOf(r) /\ MoneyOf(n) = MoneyOf(r)
    BY <1>1 DEF PhaseOf, MoneyOf
  <1>6. Promised(r, n) BY <1>5 DEF Promised
  <1> QED BY <1>1, <1>2, <1>4, <1>6 DEF RowMove

-----------------------------------------------------------------------------
(* What a step does to the tables.                                         *)

(* The twelve UPDATEs move the row of the order and the handler goes on.    *)
LEMMA UpdateMoves ==
  ASSUME LifecycleInv, NEW h \in Handlers, Update(h)
  PROVE  /\ session[h] # Idle /\ session[h].step = "update"
         /\ session[h].op \notin {"CreateOrder", "CreateOrderFromSeckill"}
         /\ RowMove(Row(h), order'[session[h].order])
         /\ \A p \in Orders \ {session[h].order} : order'[p] = order[p]
         /\ UNCHANGED <<feed, stockVars>>
         /\ \E next \in {"mark", "release", "emit"} : Goto(h, next)
  <1> USE DEF ExecWithEvent
  <1> DEFINE o == session[h].order
  <1>1. session[h] # Idle /\ session[h].step = "update"
    BY DEF Update, CancelUnpaid, CancelPaidPendingReview, MarkPaidAutoPass,
       MarkPaidManualReview, ReviewApprove, ReviewReject, Ship, UpdateReceived,
       AutoReceive, ClosePayTimeout, CloseReviewTimeoutRefunding, CompleteRefund, At
  <1>2. /\ UNCHANGED <<feed, stockVars>>
        /\ session[h].op \notin {"CreateOrder", "CreateOrderFromSeckill"}
        /\ \E next \in {"mark", "release", "emit"} : Goto(h, next)
    BY DEF Update, CancelUnpaid, CancelPaidPendingReview, MarkPaidAutoPass,
       MarkPaidManualReview, ReviewApprove, ReviewReject, Ship, UpdateReceived,
       AutoReceive, ClosePayTimeout, CloseReviewTimeoutRefunding, CompleteRefund,
       AfterClose
  <1>3. /\ TypeOK /\ o \in Orders
        /\ Row(h) \in OrderRow /\ RowFits(Row(h)) /\ Row(h) = order[o]
    BY <1>1, BusySession DEF LifecycleInv, TypeOK, Row
  <1>4. \E new \in OrderRow : order' = [order EXCEPT ![o] = new] /\ RowMove(Row(h), new)
    <2> DEFINE r == Row(h)
    <2>1. CASE CancelUnpaid(h)
      <3> DEFINE n == [r EXCEPT !.status = "Closed", !.reason = "user_cancel"]
      <3>1. n \in OrderRow /\ RowMove(r, n)
        BY <1>3, <2>1, RowType, CloseUnpaidMove DEF CancelUnpaid
      <3> QED BY <2>1, <3>1 DEF CancelUnpaid
    <2>2. CASE CancelPaidPendingReview(h)
      <3> DEFINE n == [r EXCEPT !.status = "Closed", !.reason = "user_cancel",
                                !.refund = "Refunding"]
      <3>1. n \in OrderRow BY <1>3, RowType
      <3>2. /\ n.status = "Closed" /\ n.reason \in ReleaseReasons
            /\ n.refund = "Refunding" /\ n.payment = r.payment /\ n.source = r.source
        BY <1>3 DEF OrderRow, ReleaseReasons
      <3>3. RowMove(r, n)
        BY <1>3, <2>2, <3>1, <3>2, CloseReviewMove DEF CancelPaidPendingReview
      <3> QED BY <2>2, <3>1, <3>3 DEF CancelPaidPendingReview
    <2>3. CASE MarkPaidAutoPass(h)
      <3> DEFINE n == [r EXCEPT !.status = "PendingShip", !.payment = "Paid",
                                !.review = "Passed"]
      <3>1. n \in OrderRow BY <1>3, RowType
      <3>2. /\ n.status = "PendingShip" /\ n.payment = "Paid"
            /\ n.refund = r.refund /\ n.source = r.source
        BY <1>3 DEF OrderRow
      <3>3. RowMove(r, n) BY <1>3, <2>3, <3>1, <3>2, PayMove DEF MarkPaidAutoPass
      <3> QED BY <2>3, <3>1, <3>3 DEF MarkPaidAutoPass
    <2>4. CASE MarkPaidManualReview(h)
      <3> DEFINE n == [r EXCEPT !.status = "PendingReview", !.payment = "Paid",
                                !.review = "ManualPending"]
      <3>1. n \in OrderRow BY <1>3, RowType
      <3>2. /\ n.status = "PendingReview" /\ n.payment = "Paid"
            /\ n.refund = r.refund /\ n.source = r.source
        BY <1>3 DEF OrderRow
      <3>3. RowMove(r, n) BY <1>3, <2>4, <3>1, <3>2, PayMove DEF MarkPaidManualReview
      <3> QED BY <2>4, <3>1, <3>3 DEF MarkPaidManualReview
    <2>5. CASE ReviewApprove(h)
      <3> DEFINE n == [r EXCEPT !.status = "PendingShip", !.review = "Passed"]
      <3>1. n \in OrderRow BY <1>3, RowType
      <3>2. /\ n.status = "PendingShip" /\ n.reason = r.reason
            /\ n.payment = r.payment /\ n.refund = r.refund /\ n.source = r.source
        BY <1>3 DEF OrderRow
      <3>3. RowMove(r, n)
        BY <1>3, <2>5, <3>1, <3>2, DeliverMove DEF ReviewApprove, IsManualPending
      <3> QED BY <2>5, <3>1, <3>3 DEF ReviewApprove
    <2>6. CASE ReviewReject(h)
      <3> DEFINE n == [r EXCEPT !.status = "Closed", !.reason = "audit_reject",
                                !.review = "Rejected", !.refund = "Refunding"]
      <3>1. n \in OrderRow BY <1>3, RowType
      <3>2. /\ n.status = "Closed" /\ n.reason \in ReleaseReasons
            /\ n.refund = "Refunding" /\ n.payment = r.payment /\ n.source = r.source
        BY <1>3 DEF OrderRow, ReleaseReasons
      <3>3. RowMove(r, n)
        BY <1>3, <2>6, <3>1, <3>2, CloseReviewMove DEF ReviewReject, IsManualPending
      <3> QED BY <2>6, <3>1, <3>3 DEF ReviewReject
    <2>7. CASE Ship(h)
      <3> DEFINE n == [r EXCEPT !.status = "Shipped", !.shipping = "Shipped"]
      <3>1. n \in OrderRow BY <1>3, RowType
      <3>2. /\ n.status = "Shipped" /\ n.reason = r.reason
            /\ n.payment = r.payment /\ n.refund = r.refund /\ n.source = r.source
        BY <1>3 DEF OrderRow
      <3>3. RowMove(r, n) BY <1>3, <2>7, <3>1, <3>2, DeliverMove DEF Ship
      <3> QED BY <2>7, <3>1, <3>3 DEF Ship
    <2>8. CASE UpdateReceived(h)
      <3> DEFINE n == [r EXCEPT !.status = "Closed", !.reason = "completed",
                                !.shipping = "Received"]
      <3>1. n \in OrderRow BY <1>3, RowType
      <3>2. /\ n.status = "Closed" /\ n.reason = "completed"
            /\ n.payment = r.payment /\ n.refund = r.refund /\ n.source = r.source
        BY <1>3 DEF OrderRow
      <3>3. RowMove(r, n)
        BY <1>3, <2>8, <3>1, <3>2, DeliverMove DEF UpdateReceived, IsShipped
      <3> QED BY <2>8, <3>1, <3>3 DEF UpdateReceived
    <2>9. CASE AutoReceive(h)
      <3> DEFINE n == [r EXCEPT !.status = "Closed", !.reason = "auto_completed",
                                !.shipping = "Received"]
      <3>1. n \in OrderRow BY <1>3, RowType
      <3>2. /\ n.status = "Closed" /\ n.reason = "auto_completed"
            /\ n.payment = r.payment /\ n.refund = r.refund /\ n.source = r.source
        BY <1>3 DEF OrderRow
      <3>3. RowMove(r, n)
        BY <1>3, <2>9, <3>1, <3>2, DeliverMove DEF AutoReceive, IsShipped
      <3> QED BY <2>9, <3>1, <3>3 DEF AutoReceive
    <2>10. CASE ClosePayTimeout(h)
      <3> DEFINE n == [r EXCEPT !.status = "Closed", !.reason = "pay_timeout"]
      <3>1. n \in OrderRow /\ RowMove(r, n)
        BY <1>3, <2>10, RowType, CloseUnpaidMove DEF ClosePayTimeout
      <3> QED BY <2>10, <3>1 DEF ClosePayTimeout
    <2>11. CASE CloseReviewTimeoutRefunding(h)
      <3> DEFINE n == [r EXCEPT !.status = "Closed", !.reason = "audit_timeout",
                                !.review = "TimeoutReject", !.refund = "Refunding"]
      <3>1. n \in OrderRow BY <1>3, RowType
      <3>2. /\ n.status = "Closed" /\ n.reason \in ReleaseReasons
            /\ n.refund = "Refunding" /\ n.payment = r.payment /\ n.source = r.source
        BY <1>3 DEF OrderRow, ReleaseReasons
      <3>3. RowMove(r, n)
        BY <1>3, <2>11, <3>1, <3>2, CloseReviewMove
        DEF CloseReviewTimeoutRefunding, IsManualPending
      <3> QED BY <2>11, <3>1, <3>3 DEF CloseReviewTimeoutRefunding
    <2>12. CASE CompleteRefund(h)
      <3> DEFINE n == [r EXCEPT !.refund = "Refunded"]
      <3>1. n \in OrderRow /\ RowMove(r, n)
        BY <1>3, <2>12, RowType, RefundMove DEF CompleteRefund
      <3> QED BY <2>12, <3>1 DEF CompleteRefund
    <2> QED
      BY <2>1, <2>2, <2>3, <2>4, <2>5, <2>6, <2>7, <2>8, <2>9, <2>10, <2>11, <2>12
      DEF Update
  <1>5. /\ RowMove(Row(h), order'[o])
        /\ \A p \in Orders \ {o} : order'[p] = order[p]
    BY <1>3, <1>4 DEF TypeOK
  <1> QED BY <1>1, <1>2, <1>5

LEMMA MarkMoves ==
  ASSUME LifecycleInv, NEW h \in Handlers, MarkStockReleased(h)
  PROVE  /\ session[h] # Idle /\ session[h].step = "mark"
         /\ RowMove(Row(h), order'[session[h].order])
         /\ \A p \in Orders \ {session[h].order} : order'[p] = order[p]
  <1> DEFINE o == session[h].order
  <1>1. session[h] # Idle /\ session[h].step = "mark"
    BY DEF MarkStockReleased, At
  <1>2. /\ TypeOK /\ o \in Orders /\ Row(h) \in OrderRow /\ Row(h) = order[o]
        /\ order[o].status = "Closed"
    BY <1>1, BusySession DEF LifecycleInv, TypeOK, Row, SessionFits, Abandoned
  <1>3. order'[o] = [Row(h) EXCEPT !.stockReleased = TRUE]
    BY <1>2 DEF MarkStockReleased, TypeOK
  <1>4. \A p \in Orders \ {o} : order'[p] = order[p]
    BY <1>2 DEF MarkStockReleased, TypeOK
  <1> QED BY <1>1, <1>2, <1>3, <1>4, MarkMove

Inserted(old, new) ==
  old = NoOrder /\ \E source \in {"normal", "seckill"} : new = NewOrder(source)

RowChange(old, new) == new = old \/ RowMove(old, new) \/ Inserted(old, new)

(* A handler or a job that starts changes nothing yet.                     *)
LEMMA Starts ==
  ASSUME NEW h \in Handlers, NEW o \in Orders,
         \/ h \in Clients /\ Request(h, o)
         \/ h \in Jobs /\ TimeoutJob(h, o)
  PROVE  /\ UNCHANGED <<order, feed, stockVars>>
         /\ \E step \in Steps \ {"emit", "compensate"}, op \in ClientOps \cup JobOps :
              /\ Start(h, step, op, o)
              /\ op = "CreateOrder" => CreateOrder(h, o) /\ step = "reserve"
  <1>1. CASE CreateOrder(h, o)
    BY <1>1 DEF CreateOrder, Steps, ClientOps
  <1>2. CASE CreateOrderFromSeckill(h, o)
    BY <1>2 DEF CreateOrderFromSeckill, Steps, ClientOps
  <1>3. ASSUME NEW op \in (ClientOps \cup JobOps) \ {"CreateOrder"}, StartUpdate(h, op, o)
        PROVE  /\ UNCHANGED <<order, feed, stockVars>>
               /\ \E step \in Steps \ {"emit", "compensate"} : Start(h, step, op, o)
    BY <1>3 DEF StartUpdate, Steps
  <1>4. CASE CancelOrder(h, o)
    BY <1>3, <1>4 DEF CancelOrder, ClientOps
  <1>5. CASE ConfirmPaymentAndInfo(h, o)
    BY <1>3, <1>5 DEF ConfirmPaymentAndInfo, ClientOps
  <1>6. CASE ReviewOrderAdmin(h, o) BY <1>3, <1>6 DEF ReviewOrderAdmin, ClientOps
  <1>7. CASE ShipOrderAdmin(h, o) BY <1>3, <1>7 DEF ShipOrderAdmin, ClientOps
  <1>8. CASE ConfirmReceipt(h, o) BY <1>3, <1>8 DEF ConfirmReceipt, ClientOps
  <1>9. CASE HandlePayTimeout(h, o) BY <1>3, <1>9 DEF HandlePayTimeout, JobOps
  <1>10. CASE HandleReviewTimeout(h, o) BY <1>3, <1>10 DEF HandleReviewTimeout, JobOps
  <1>11. CASE HandleStockReleaseRetry(h, o)
    BY <1>11 DEF HandleStockReleaseRetry, JobOps, Steps
  <1>12. CASE HandleRefundCompletion(h, o)
    BY <1>3, <1>12 DEF HandleRefundCompletion, JobOps
  <1>13. CASE HandleAutoReceive(h, o) BY <1>3, <1>13 DEF HandleAutoReceive, JobOps
  <1> QED
    BY <1>1, <1>2, <1>4, <1>5, <1>6, <1>7, <1>8, <1>9, <1>10, <1>11, <1>12, <1>13
    DEF Request, TimeoutJob

LEMMA Continues ==
  ASSUME LifecycleInv, NEW h \in Handlers, Continue(h) \/ Fail(h)
  PROVE  /\ TypeOK /\ session[h] # Idle /\ session[h] \in Busy
         /\ session[h].order \in Orders /\ SessionFits(session[h])
         /\ Row(h) = order[session[h].order] /\ order[session[h].order] \in OrderRow
  <1>1. session[h] # Idle
    BY UpdateMoves
    DEF Continue, Fail, ReserveForOrder, InsertOrder, InsertOrderFailed,
        InsertSeckillOrder, ReplaySeckillOrder, CompensateReleaseStock,
        ReleaseStockForOrder, MarkStockReleased, MarkSkipped,
        EmitSeckillOrderStateEvent, At
  <1> QED BY <1>1, BusySession DEF LifecycleInv, TypeOK, Row

LEMMA InsertChange ==
  ASSUME TypeOK, NEW o \in Orders, NEW source \in {"normal", "seckill"},
         InsertRow(o, source)
  PROVE  /\ order[o] = NoOrder /\ order'[o] = NewOrder(source)
         /\ \A p \in Orders \ {o} : order'[p] = order[p]
  BY DEF InsertRow, TypeOK

(* Every step changes every row as the promise allows, or inserts it.      *)
LEMMA Changes ==
  ASSUME LifecycleInv, [Next]_vars, NEW o \in Orders
  PROVE  RowChange(order[o], order'[o])
  <1>1. ASSUME order' = order PROVE RowChange(order[o], order'[o])
    BY <1>1 DEF RowChange
  <1>2. CASE \E c \in Clients, p \in Orders : Request(c, p)
    BY <1>1, <1>2, Starts
  <1>3. CASE \E j \in Jobs, p \in Orders : TimeoutJob(j, p)
    BY <1>1, <1>3, Starts
  <1>4. ASSUME NEW h \in Handlers, Continue(h) \/ Fail(h)
        PROVE  RowChange(order[o], order'[o])
    <2>1. /\ TypeOK /\ session[h].order \in Orders
          /\ Row(h) = order[session[h].order]
      BY <1>4, Continues
    <2>2. CASE order' = order BY <1>1, <2>2
    <2>3. CASE Update(h) BY <2>1, <2>3, UpdateMoves DEF RowChange
    <2>4. CASE MarkStockReleased(h) BY <2>1, <2>4, MarkMoves DEF RowChange
    <2>5. CASE \E source \in {"normal", "seckill"} : InsertRow(session[h].order, source)
      BY <2>1, <2>5, InsertChange DEF RowChange, Inserted
    <2> QED BY <1>4, <2>2, <2>3, <2>4, <2>5, OrderAssumption
      DEF Continue, Fail, ReserveForOrder, InsertOrder, InsertOrderFailed,
          InsertSeckillOrder, ReplaySeckillOrder, CompensateReleaseStock,
          ReleaseStockForOrder, MarkSkipped, EmitSeckillOrderStateEvent
  <1>5. CASE SetProductShelf \/ UNCHANGED vars
    BY <1>1, <1>5 DEF SetProductShelf, vars
  <1> QED BY <1>2, <1>3, <1>4, <1>5 DEF Next

LEMMA ChangeGrows ==
  ASSUME NEW old \in OrderRow, NEW new \in OrderRow, RowChange(old, new)
  PROVE  /\ Grows(old, new) /\ Final(old, new)
         /\ old.status # "Absent" => new.status # "Absent"
  <1>1. CASE new = old
    <2>1. Grows(old, new) BY <1>1, Orderly DEF Grows, OrderRow
    <2>2. Final(old, new) BY <1>1 DEF Final, OrderRow
    <2> QED BY <1>1, <2>1, <2>2
  <1>2. CASE RowMove(old, new) BY <1>2 DEF RowMove
  <1>3. CASE Inserted(old, new)
    <2>1. old.status = "Absent" /\ old.reason = "" /\ old.payment = "Unpaid"
      BY <1>3 DEF Inserted, NoOrder
    <2>2. Grows(old, new) BY <2>1, Orderly DEF Grows, OrderRow
    <2> QED BY <2>1, <2>2 DEF Final
  <1> QED BY <1>1, <1>2, <1>3 DEF RowChange

(* A closed order is not reopened, closed again for another reason or       *)
(* refunded twice, whichever handlers raced for it.                        *)
THEOREM ClosedOrdersStay == Spec => ClosedIsFinal
  <1> DEFINE Stays ==
        \A o \in Orders : order[o].status = "Closed" =>
          /\ order'[o] = [order[o] EXCEPT !.refund = order'[o].refund,
                                          !.stockReleased = order'[o].stockReleased]
          /\ order[o].stockReleased => order'[o].stockReleased
          /\ order'[o].refund # order[o].refund =>
               order[o].refund = "Refunding" /\ order'[o].refund = "Refunded"
  <1>1. LifecycleInv /\ [Next]_vars => Stays
    <2> SUFFICES ASSUME LifecycleInv, [Next]_vars, NEW o \in Orders,
                        order[o].status = "Closed"
                 PROVE  Final(order[o], order'[o])
      BY DEF Final
    <2>1. LifecycleInv' BY NextInv
    <2>2. order[o] \in OrderRow /\ order'[o] \in OrderRow
      BY <2>1 DEF LifecycleInv, TypeOK
    <2> QED BY <2>2, Changes, ChangeGrows
  <1>2. LifecycleInv /\ [Next]_vars => [Stays]_vars BY <1>1
  <1> QED BY <1>2, LifecycleCorrect, PTL DEF Spec, ClosedIsFinal

-----------------------------------------------------------------------------
(* What seckill-rpc is told.                                               *)

(* The created event is emitted for a row that was inserted.               *)
CreatedEmits ==
  \A h \in Handlers :
    session[h] # Idle /\ session[h].step = "emit"
      /\ session[h].op = "CreateOrderFromSeckill"
    => order[session[h].order].status # "Absent"

Told(e) ==
  /\ Rank[e.status] <= Rank[order[e.order].status]
  /\ e.reason # "" => e.reason = order[e.order].reason
  /\ e.payment = "Paid" => order[e.order].payment = "Paid"

LEMMA ToldStays ==
  ASSUME LifecycleInv, [Next]_vars, NEW e \in Event, Told(e)
  PROVE  Told(e)'
  <1> DEFINE o == e.order
  <1>1. LifecycleInv' BY NextInv
  <1>2. o \in Orders /\ e.status \in Statuses BY DEF Event
  <1>3. order[o] \in OrderRow /\ order'[o] \in OrderRow
    BY <1>1, <1>2 DEF LifecycleInv, TypeOK
  <1>4. Grows(order[o], order'[o]) BY <1>2, <1>3, Changes, ChangeGrows
  <1>5. /\ Rank[e.status] \in 0..5 /\ Rank[order[o].status] \in 0..5
        /\ Rank[order'[o].status] \in 0..5
    BY <1>2, <1>3, Ranks DEF OrderRow
  <1>6. /\ Rank[e.status] <= Rank[order[o].status]
        /\ Rank[order[o].status] <= Rank[order'[o].status]
    BY <1>4 DEF Told, Grows
  <1>7. Rank[e.status] <= Rank[order'[o].status] BY <1>5, <1>6
  <1>8. /\ e.reason # "" => e.reason = order'[o].reason
        /\ e.payment = "Paid" => order'[o].payment = "Paid"
    BY <1>4 DEF Told, Grows
  <1> QED BY <1>7, <1>8 DEF Told

LEMMA NextTold ==
  LifecycleInv /\ CreatedEmits /\ FeedNeverAhead /\ [Next]_vars => FeedNeverAhead'
  <1> SUFFICES ASSUME LifecycleInv, CreatedEmits, FeedNeverAhead, [Next]_vars,
                      NEW e \in feed'
               PROVE  Told(e)'
    BY DEF FeedNeverAhead, Told
  <1>1. feed \subseteq Event BY DEF LifecycleInv, TypeOK
  <1>2. CASE e \in feed
    BY <1>1, <1>2, ToldStays DEF FeedNeverAhead, Told
  <1>3. ASSUME NEW h \in Handlers, EmitSeckillOrderStateEvent(h), e \notin feed
        PROVE  Told(e)'
    <2> DEFINE o == session[h].order
    <2> DEFINE row == EmittedRow(session[h].op, Row(h))
    <2>1. /\ TypeOK /\ session[h] # Idle /\ o \in Orders
          /\ Row(h) = order[o] /\ order[o] \in OrderRow
      BY <1>3, Continues DEF Continue
    <2>2. /\ e = [order |-> o, status |-> row.status,
                  payment |-> row.payment, reason |-> row.reason]
          /\ order' = order /\ session[h].step = "emit"
      BY <1>3 DEF EmitSeckillOrderStateEvent, At
    <2>3. CASE session[h].op = "CreateOrderFromSeckill"
      <3>1. row.status = "PendingPay" /\ row.reason = "" /\ row.payment = "Unpaid"
        BY <2>3 DEF EmittedRow, NewOrder, NoOrder
      <3>2. order[o].status # "Absent" BY <2>1, <2>2, <2>3 DEF CreatedEmits
      <3>3. Rank["PendingPay"] <= Rank[order[o].status]
        BY <2>1, <3>2, Orderly DEF OrderRow, Statuses
      <3> QED BY <2>2, <3>1, <3>3 DEF Told
    <2>4. CASE session[h].op # "CreateOrderFromSeckill"
      <3>1. row = order[o] BY <2>1, <2>4 DEF EmittedRow
      <3>2. Rank[order[o].status] <= Rank[order[o].status]
        BY <2>1, Orderly DEF OrderRow
      <3> QED BY <2>2, <3>1, <3>2 DEF Told
    <2> QED BY <2>3, <2>4
  <1>4. CASE feed' = feed BY <1>2, <1>4
  <1>5. feed' = feed \/ \E h \in Handlers : EmitSeckillOrderStateEvent(h)
    <2>1. CASE \E c \in Clients, o \in Orders : Request(c, o) BY <2>1, Starts
    <2>2. CASE \E j \in Jobs, o \in Orders : TimeoutJob(j, o) BY <2>2, Starts
    <2>3. CASE \E h \in Handlers : Continue(h) \/ Fail(h)
      BY <2>3, UpdateMoves
      DEF Continue, Fail, ReserveForOrder, InsertOrder, InsertOrderFailed,
          InsertSeckillOrder, ReplaySeckillOrder, CompensateReleaseStock,
          ReleaseStockForOrder, MarkStockReleased, MarkSkipped
    <2>4. CASE SetProductShelf \/ UNCHANGED vars
      BY <2>4 DEF SetProductShelf, vars
    <2> QED BY <2>1, <2>2, <2>3, <2>4 DEF Next
  <1> QED BY <1>2, <1>3, <1>4, <1>5

LEMMA HandlerMoves ==
  ASSUME TypeOK, NEW h \in Handlers, session[h] # Idle
  PROVE  /\ Return(h) =>
              session'[h] = Idle /\ \A i \in Handlers \ {h} : session'[i] = session[i]
         /\ \A next \in Steps : Goto(h, next) =>
              /\ session'[h] = [session[h] EXCEPT !.step = next]
              /\ session'[h].step = next
              /\ session'[h].op = session[h].op /\ session'[h].order = session[h].order
              /\ session'[h] # Idle
              /\ \A i \in Handlers \ {h} : session'[i] = session[i]
  <1>1. session[h] \in Busy BY BusySession
  <1>2. Return(h) =>
          session'[h] = Idle /\ \A i \in Handlers \ {h} : session'[i] = session[i]
    BY DEF Return, TypeOK
  <1>3. ASSUME NEW next \in Steps, Goto(h, next)
        PROVE  /\ session'[h] = [session[h] EXCEPT !.step = next]
               /\ \A i \in Handlers \ {h} : session'[i] = session[i]
    BY <1>3 DEF Goto, TypeOK
  <1>4. ASSUME NEW next \in Steps
        PROVE  LET s == [session[h] EXCEPT !.step = next]
               IN  /\ s.step = next /\ s.op = session[h].op
                   /\ s.order = session[h].order /\ s # Idle
    <2> DEFINE s == [session[h] EXCEPT !.step = next]
    <2>1. s.step = next /\ s.op = session[h].op /\ s.order = session[h].order
      BY <1>1 DEF Busy
    <2>2. s # Idle
      BY <2>1 DEF Idle, Steps
    <2> QED BY <2>1, <2>2
  <1> QED BY <1>2, <1>3, <1>4

LEMMA StartMoves ==
  ASSUME TypeOK, NEW h \in Handlers, NEW step, NEW op, NEW o, Start(h, step, op, o)
  PROVE  /\ session[h] = Idle /\ session'[h] = [step |-> step, op |-> op, order |-> o]
         /\ \A i \in Handlers \ {h} : session'[i] = session[i]
  BY DEF Start, TypeOK

LEMMA NextEmits == LifecycleInv /\ CreatedEmits /\ [Next]_vars => CreatedEmits'
  <1> SUFFICES ASSUME LifecycleInv, CreatedEmits, [Next]_vars, NEW i \in Handlers,
                      session'[i] # Idle, session'[i].step = "emit",
                      session'[i].op = "CreateOrderFromSeckill"
               PROVE  order'[session'[i].order].status # "Absent"
    BY DEF CreatedEmits
  <1>1. LifecycleInv' BY NextInv
  <1>2. CASE session'[i] = session[i]
    <2>1. session[i].order \in Orders BY <1>2, BusySession DEF LifecycleInv
    <2>2. order[session[i].order].status # "Absent" BY <1>2 DEF CreatedEmits
    <2> QED BY <1>1, <1>2, <2>1, <2>2, Changes, ChangeGrows DEF LifecycleInv, TypeOK
  <1>0. ASSUME NEW h \in Handlers, NEW o \in Orders,
               \/ h \in Clients /\ Request(h, o)
               \/ h \in Jobs /\ TimeoutJob(h, o)
        PROVE  session'[i] = session[i]
    <2>1. PICK step \in Steps \ {"emit", "compensate"}, op \in ClientOps \cup JobOps :
            Start(h, step, op, o)
      BY <1>0, Starts
    <2>2. /\ session'[h] = [step |-> step, op |-> op, order |-> o]
          /\ \A k \in Handlers \ {h} : session'[k] = session[k]
      BY <2>1, StartMoves DEF LifecycleInv
    <2>3. session'[h].step # "emit" BY <2>2
    <2> QED BY <2>2, <2>3
  <1>3. CASE \E c \in Clients, o \in Orders : Request(c, o)
    BY <1>0, <1>2, <1>3
  <1>4. CASE \E j \in Jobs, o \in Orders : TimeoutJob(j, o)
    BY <1>0, <1>2, <1>4
  <1>5. ASSUME NEW h \in Handlers, Continue(h) \/ Fail(h)
        PROVE  order'[session'[i].order].status # "Absent"
    <2> DEFINE o == session[h].order
    <2>1. /\ TypeOK /\ session[h] # Idle /\ o \in Orders /\ SessionFits(session[h])
      BY <1>5, Continues
    <2>2. CASE Return(h) BY <1>2, <2>1, <2>2, HandlerMoves
    <2>3. CASE InsertSeckillOrder(h)
      <3>1. order'[o] = NewOrder("seckill")
        BY <2>1, <2>3, InsertChange DEF InsertSeckillOrder
      <3>2. NewOrder("seckill").status # "Absent" BY DEF NewOrder, NoOrder
      <3>3. Goto(h, "emit") BY <2>3 DEF InsertSeckillOrder
      <3>4. /\ session'[h].order = o
            /\ \A k \in Handlers \ {h} : session'[k] = session[k]
        BY <2>1, <3>3, HandlerMoves DEF Steps
      <3>5. CASE i = h BY <3>1, <3>2, <3>4, <3>5
      <3>6. CASE i # h BY <1>2, <3>4, <3>6
      <3> QED BY <3>5, <3>6
    <2>4. ASSUME NEW next \in Steps, Goto(h, next),
                 next # "emit" \/ session[h].op # "CreateOrderFromSeckill"
          PROVE  order'[session'[i].order].status # "Absent"
      BY <1>2, <2>1, <2>4, HandlerMoves
    <2>5. CASE Update(h) BY <2>4, <2>5, UpdateMoves DEF Steps
    <2>6. CASE MarkStockReleased(h) \/ MarkSkipped(h)
      <3>1. session[h].op # "CreateOrderFromSeckill"
        BY <2>1, <2>6
        DEF MarkStockReleased, MarkSkipped, At, SessionFits, ReleasingOps
      <3> QED BY <2>2, <2>4, <2>6, <3>1 DEF MarkStockReleased, MarkSkipped, Steps
    <2> QED BY <1>5, <2>2, <2>3, <2>4, <2>5, <2>6
      DEF Continue, Fail, ReserveForOrder, InsertOrder, InsertOrderFailed,
          ReplaySeckillOrder, CompensateReleaseStock, ReleaseStockForOrder,
          EmitSeckillOrderStateEvent, Steps
  <1>6. CASE SetProductShelf \/ UNCHANGED vars
    BY <1>2, <1>6 DEF SetProductShelf, vars
  <1> QED BY <1>3, <1>4, <1>5, <1>6 DEF Next

(* Whatever is emitted, by whichever handler and however late, the order    *)
(* has been there: seckill-rpc never acts on a close that did not happen.   *)
THEOREM FeedFollows == Spec => []FeedNeverAhead
  <1> DEFINE Inv == CreatedEmits /\ FeedNeverAhead
  <1>1. Init => Inv BY DEF Init, CreatedEmits, FeedNeverAhead
  <1>2. LifecycleInv /\ Inv /\ [Next]_vars => Inv' BY NextTold, NextEmits
  <1>3. Inv => FeedNeverAhead OBVIOUS
  <1> QED BY <1>1, <1>2, <1>3, LifecycleCorrect, PTL DEF Spec

-----------------------------------------------------------------------------
(* What the keys of product-rpc say of the handler that creates an order.   *)

Creating(h) == session[h] # Idle /\ session[h].op = "CreateOrder"

Fresh(o) ==
  <<o, "reserve">> \notin reserved /\ \A s \in ReleaseSuffixes : <<o, s>> \notin released

CreatorFits(h) ==
  LET o == session[h].order IN
  /\ session[h].step \in {"reserve", "create", "compensate"}
  /\ order[o] = NoOrder
  /\ session[h].step = "reserve" => Fresh(o)
  /\ session[h].step # "reserve" => HoldsUnit(o)

RowKeys(o) ==
  /\ \A s \in ReleaseSuffixes : <<o, s>> \in released => <<o, "reserve">> \in reserved
  /\ order[o].status # "Absent" =>
       /\ o \in SeckillOrders => order[o].source = "seckill"
       /\ o \notin SeckillOrders =>
            <<o, "reserve">> \in reserved /\ <<o, "release:create_fail">> \notin released

UnitInv ==
  /\ \A h \in Handlers : Creating(h) => CreatorFits(h)
  /\ \A h, i \in Handlers :
       Creating(h) /\ Creating(i) /\ session[h].order = session[i].order => h = i
  /\ \A o \in Orders : RowKeys(o)

(* Rows that exist go on existing, keys stay, and no handler begins to     *)
(* create: nothing UnitInv says is disturbed.                              *)
LEMMA UnitFrame ==
  ASSUME LifecycleInv, UnitInv, reserved' = reserved, released' = released,
         \A o \in Orders :
           order'[o] = order[o] \/ RowMove(order[o], order'[o]),
         \A i \in Handlers :
           \/ session'[i] = session[i]
           \/ session'[i] = Idle
           \/ session'[i].op # "CreateOrder"
           \/ /\ Creating(i) /\ session[i].step = "create"
              /\ session'[i] = [session[i] EXCEPT !.step = "compensate"]
  PROVE  UnitInv'
  <1>1. \A o \in Orders : /\ Fresh(o)' = Fresh(o)
                          /\ HoldsUnit(o)' = HoldsUnit(o)
    BY DEF Fresh, HoldsUnit
  <1>2. ASSUME NEW i \in Handlers, Creating(i)'
        PROVE  /\ Creating(i) /\ session'[i].order = session[i].order
               /\ session[i].order \in Orders
               /\ \/ session'[i].step = session[i].step
                  \/ session[i].step = "create" /\ session'[i].step = "compensate"
    <2>1. CASE session'[i] = session[i]
      BY <1>2, <2>1, BusySession DEF Creating, LifecycleInv
    <2>2. CASE /\ Creating(i) /\ session[i].step = "create"
               /\ session'[i] = [session[i] EXCEPT !.step = "compensate"]
      <3>1. session[i] \in Busy BY <2>2, BusySession DEF Creating, LifecycleInv
      <3> QED BY <2>2, <3>1 DEF Busy
    <2> QED BY <1>2, <2>1, <2>2 DEF Creating
  <1>3. \A o \in Orders : order[o] = NoOrder => order'[o] = NoOrder
    <2>1. NoOrder.status = "Absent" BY DEF NoOrder
    <2> QED BY <2>1 DEF RowMove
  <1>4. ASSUME NEW i \in Handlers, Creating(i)' PROVE CreatorFits(i)'
    <2>1. CreatorFits(i) BY <1>2, <1>4 DEF UnitInv
    <2> QED BY <1>1, <1>2, <1>3, <1>4, <2>1 DEF CreatorFits
  <1>5. ASSUME NEW o \in Orders PROVE RowKeys(o)'
    <2>1. RowKeys(o) BY DEF UnitInv
    <2>2. /\ order'[o].status # "Absent" => order[o].status # "Absent"
          /\ order'[o].source = order[o].source
      BY DEF RowMove
    <2> QED BY <2>1, <2>2 DEF RowKeys
  <1>6. \A h, i \in Handlers :
          (Creating(h) /\ Creating(i) /\ session[h].order = session[i].order)' => h = i
    BY <1>2 DEF UnitInv
  <1> QED BY <1>4, <1>5, <1>6 DEF UnitInv

LEMMA StartUnits ==
  ASSUME LifecycleInv, UnitInv, NEW h \in Handlers, NEW o \in Orders,
         \/ h \in Clients /\ Request(h, o)
         \/ h \in Jobs /\ TimeoutJob(h, o)
  PROVE  UnitInv'
  <1>1. UNCHANGED <<order, feed, stockVars>> BY Starts
  <1>2. reserved' = reserved /\ released' = released BY <1>1 DEF stockVars
  <1>3. PICK step \in Steps \ {"emit", "compensate"}, op \in ClientOps \cup JobOps :
          /\ Start(h, step, op, o)
          /\ op = "CreateOrder" => CreateOrder(h, o) /\ step = "reserve"
    BY Starts
  <1>4. /\ session[h] = Idle /\ session'[h] = [step |-> step, op |-> op, order |-> o]
        /\ \A i \in Handlers \ {h} : session'[i] = session[i]
    BY <1>3, StartMoves DEF LifecycleInv
  <1>5. CASE op # "CreateOrder"
    <2>1. \A i \in Handlers : session'[i] = session[i] \/ session'[i].op # "CreateOrder"
      BY <1>4, <1>5
    <2> QED BY <1>1, <1>2, <2>1, UnitFrame
  <1>6. CASE op = "CreateOrder"
    <2>1. /\ step = "reserve" /\ order[o] = NoOrder /\ <<o, "reserve">> \notin reserved
          /\ \A i \in Handlers : session[i] # Idle => session[i].order # o
      BY <1>3, <1>6 DEF CreateOrder
    <2>2. Fresh(o) BY <2>1 DEF Fresh, UnitInv, RowKeys
    <2>3. \A p \in Orders : Fresh(p)' = Fresh(p) /\ HoldsUnit(p)' = HoldsUnit(p)
      BY <1>2 DEF Fresh, HoldsUnit
    <2>4. session'[h].step = "reserve" /\ session'[h].op = "CreateOrder" /\ session'[h].order = o
      BY <1>4, <1>6, <2>1
    <2>5. ASSUME NEW i \in Handlers, Creating(i)' PROVE CreatorFits(i)'
      <3>1. CASE i = h
        BY <1>1, <2>1, <2>2, <2>3, <2>4, <3>1 DEF CreatorFits
      <3>2. CASE i # h
        <4>1. session'[i] = session[i] BY <1>4, <3>2
        <4>2. session[i].order \in Orders
          BY <2>5, <4>1, BusySession DEF Creating, LifecycleInv
        <4>3. CreatorFits(i) BY <2>5, <4>1 DEF Creating, UnitInv
        <4> QED BY <1>1, <2>3, <4>1, <4>2, <4>3 DEF CreatorFits
      <3> QED BY <3>1, <3>2
    <2>6. ASSUME NEW i \in Handlers, NEW k \in Handlers, Creating(i)', Creating(k)',
                 session'[i].order = session'[k].order
          PROVE  i = k
      <3>1. \A j \in Handlers \ {h} : Creating(j)' =>
              session'[j] = session[j] /\ Creating(j) /\ session[j].order # o
        BY <1>4, <2>1 DEF Creating
      <3> QED BY <2>4, <2>6, <3>1 DEF UnitInv
    <2>7. \A p \in Orders : RowKeys(p)' BY <1>1, <1>2 DEF RowKeys, UnitInv
    <2> QED BY <2>5, <2>6, <2>7 DEF UnitInv
  <1> QED BY <1>5, <1>6

(* A step of the one handler that creates o: others create other orders.    *)
LEMMA CreatorStep ==
  ASSUME LifecycleInv, UnitInv, NEW h \in Handlers, Creating(h),
         NEW o, o = session[h].order,
         \A p \in Orders \ {o} : order'[p] = order[p],
         \A p \in Orders \ {o}, s \in Suffixes :
           /\ <<p, s>> \in reserved' <=> <<p, s>> \in reserved
           /\ <<p, s>> \in released' <=> <<p, s>> \in released,
         \A i \in Handlers \ {h} : session'[i] = session[i],
         \/ session'[h] = Idle
         \/ session'[h].order = o /\ CreatorFits(h)',
         RowKeys(o)'
  PROVE  UnitInv'
  <1>1. o \in Orders BY BusySession DEF Creating, LifecycleInv
  <1>2. \A p \in Orders \ {o} : /\ Fresh(p)' = Fresh(p)
                                /\ HoldsUnit(p)' = HoldsUnit(p)
    <2>1. "reserve" \in Suffixes /\ ReleaseSuffixes \subseteq Suffixes
      BY DEF Suffixes, ReleaseSuffixes
    <2> QED BY <2>1 DEF Fresh, HoldsUnit
  <1>3. ASSUME NEW i \in Handlers \ {h}, Creating(i)'
        PROVE  /\ Creating(i) /\ session'[i].order = session[i].order
               /\ session[i].order \in Orders \ {o}
               /\ CreatorFits(i)'
    <2>1. session'[i] = session[i] /\ Creating(i) BY <1>3 DEF Creating
    <2>2. session[i].order \in Orders \ {o}
      BY <2>1, BusySession DEF Creating, LifecycleInv, UnitInv
    <2>3. CreatorFits(i) BY <2>1 DEF UnitInv
    <2> QED BY <1>2, <2>1, <2>2, <2>3 DEF CreatorFits
  <1>4. \A i \in Handlers : Creating(i)' => CreatorFits(i)'
    BY <1>3 DEF Creating
  <1>5. \A i, k \in Handlers :
          (Creating(i) /\ Creating(k) /\ session[i].order = session[k].order)' => i = k
    <2> SUFFICES ASSUME NEW i \in Handlers, NEW k \in Handlers, Creating(i)', Creating(k)',
                        session'[i].order = session'[k].order
                 PROVE  i = k
      OBVIOUS
    <2>1. CASE i # h /\ k # h BY <1>3, <2>1 DEF UnitInv
    <2>2. CASE i = h /\ k # h BY <1>3, <2>2 DEF Creating
    <2>3. CASE i # h /\ k = h BY <1>3, <2>3 DEF Creating
    <2> QED BY <2>1, <2>2, <2>3
  <1>6. \A p \in Orders : RowKeys(p)'
    <2>1. ASSUME NEW p \in Orders \ {o} PROVE RowKeys(p)'
      <3>1. RowKeys(p) BY DEF UnitInv
      <3> QED BY <3>1 DEF RowKeys, Suffixes, ReleaseSuffixes
    <2> QED BY <2>1
  <1> QED BY <1>4, <1>5, <1>6 DEF UnitInv

LEMMA ReserveUnits ==
  ASSUME LifecycleInv, UnitInv, NEW h \in Handlers, ReserveForOrder(h)
  PROVE  /\ UnitInv'
         /\ session[h].order \in Orders \ SeckillOrders
         /\ order[session[h].order] = NoOrder /\ Fresh(session[h].order)
         /\ order' = order /\ released' = released /\ stock' = stock - 1 /\ stock >= 1
         /\ reserved' = reserved \cup {<<session[h].order, "reserve">>}
  <1>0. PICK o : o = session[h].order OBVIOUS
  <1>1. /\ TypeOK /\ session[h] # Idle /\ o \in Orders /\ session[h].step = "reserve"
        /\ SessionFits(session[h])
    BY <1>0, Continues DEF Continue, ReserveForOrder, At
  <1>2. Creating(h) BY <1>0, <1>1 DEF SessionFits, Creating
  <1>3. CreatorFits(h) BY <1>2 DEF UnitInv
  <1>4. Fresh(o) /\ order[o] = NoOrder BY <1>0, <1>1, <1>3 DEF CreatorFits
  <1>5. /\ reserved' = reserved \cup {<<o, "reserve">>} /\ released' = released
        /\ stock' = stock - 1 /\ stock >= 1
    BY <1>0, <1>4 DEF ReserveForOrder, Fresh, Product!ReserveStock, Product!ReserveReplayed,
       Product!ReserveApplied
  <1>6. order' = order /\ Goto(h, "create") BY DEF ReserveForOrder
  <1>7. /\ session'[h].step = "create" /\ session'[h].order = o
        /\ \A i \in Handlers \ {h} : session'[i] = session[i]
    BY <1>0, <1>1, <1>6, HandlerMoves DEF Steps
  <1>8. HoldsUnit(o)' BY <1>4, <1>5 DEF Fresh, HoldsUnit
  <1>9. CreatorFits(h)'
    BY <1>0, <1>4, <1>6, <1>7, <1>8 DEF CreatorFits
  <1>10. RowKeys(o)'
    <2>1. NoOrder.status = "Absent" BY DEF NoOrder
    <2> QED BY <1>4, <1>5, <1>6, <2>1 DEF RowKeys
  <1>11. \A p \in Orders \ {o}, s \in Suffixes :
           /\ <<p, s>> \in reserved' <=> <<p, s>> \in reserved
           /\ <<p, s>> \in released' <=> <<p, s>> \in released
    BY <1>5
  <1>12. UnitInv' BY <1>2, <1>6, <1>7, <1>9, <1>10, <1>11, <1>0, CreatorStep
  <1>13. o \notin SeckillOrders BY <1>0, <1>1 DEF SessionFits
  <1> QED BY <1>0, <1>1, <1>4, <1>5, <1>6, <1>12, <1>13

LEMMA InsertUnits ==
  ASSUME LifecycleInv, UnitInv, NEW h \in Handlers, InsertOrder(h)
  PROVE  UnitInv' /\ HoldsUnit(session[h].order)
  <1>0. PICK o : o = session[h].order OBVIOUS
  <1>1. /\ TypeOK /\ session[h] # Idle /\ o \in Orders /\ session[h].step = "create"
        /\ SessionFits(session[h]) /\ Creating(h) /\ CreatorFits(h)
    BY <1>0, Continues DEF Continue, InsertOrder, At, Creating, UnitInv
  <1>2. o \notin SeckillOrders BY <1>0, <1>1 DEF SessionFits, Creating
  <1>3. HoldsUnit(o) BY <1>0, <1>1 DEF CreatorFits
  <1>4. \A p \in Orders \ {o} : order'[p] = order[p]
    BY <1>0, <1>1, InsertChange, OrderAssumption DEF InsertOrder
  <1>5. reserved' = reserved /\ released' = released BY DEF InsertOrder, stockVars
  <1>6. session'[h] = Idle /\ \A i \in Handlers \ {h} : session'[i] = session[i]
    BY <1>0, <1>1, HandlerMoves DEF InsertOrder
  <1>7. RowKeys(o)'
    <2>1. "release:create_fail" \in ReleaseSuffixes BY DEF ReleaseSuffixes, Suffixes
    <2> QED BY <1>2, <1>3, <1>5, <2>1 DEF RowKeys, HoldsUnit
  <1>8. UnitInv' BY <1>1, <1>4, <1>5, <1>6, <1>7, <1>0, CreatorStep
  <1> QED BY <1>0, <1>3, <1>8

LEMMA CompensateUnits ==
  ASSUME LifecycleInv, UnitInv, NEW h \in Handlers, CompensateReleaseStock(h)
  PROVE  /\ UnitInv'
         /\ session[h].order \in Orders \ SeckillOrders
         /\ HoldsUnit(session[h].order) /\ order[session[h].order] = NoOrder
         /\ order' = order /\ reserved' = reserved /\ stock' = stock + 1
         /\ released' = released \cup {<<session[h].order, "release:create_fail">>}
  <1>0. PICK o : o = session[h].order OBVIOUS
  <1>1. /\ TypeOK /\ session[h] # Idle /\ o \in Orders /\ session[h].step = "compensate"
        /\ SessionFits(session[h])
    BY <1>0, Continues DEF Continue, CompensateReleaseStock, At
  <1>2. Creating(h) /\ CreatorFits(h) BY <1>0, <1>1 DEF SessionFits, Creating, UnitInv
  <1>3. HoldsUnit(o) /\ order[o] = NoOrder BY <1>0, <1>1, <1>2 DEF CreatorFits
  <1>4. "release:create_fail" \in ReleaseSuffixes BY DEF ReleaseSuffixes, Suffixes
  <1>5. /\ released' = released \cup {<<o, "release:create_fail">>} /\ reserved' = reserved
        /\ stock' = stock + 1
    BY <1>0, <1>3, <1>4 DEF CompensateReleaseStock, HoldsUnit, Product!ReleaseStock,
       Product!ReleaseReplayed, Product!ReleaseApplied
  <1>6. order' = order /\ Return(h) BY DEF CompensateReleaseStock
  <1>7. session'[h] = Idle /\ \A i \in Handlers \ {h} : session'[i] = session[i]
    BY <1>0, <1>1, <1>6, HandlerMoves
  <1>8. RowKeys(o)'
    <2>1. NoOrder.status = "Absent" BY DEF NoOrder
    <2> QED BY <1>3, <1>5, <1>6, <2>1 DEF RowKeys, HoldsUnit
  <1>9. UnitInv' BY <1>2, <1>5, <1>6, <1>7, <1>8, <1>0, CreatorStep
  <1>10. o \notin SeckillOrders BY <1>0, <1>1 DEF SessionFits
  <1> QED BY <1>0, <1>1, <1>3, <1>5, <1>6, <1>9, <1>10

(* A step of a handler that creates nothing, on an order nobody creates.    *)
LEMMA OutsiderStep ==
  ASSUME LifecycleInv, UnitInv, NEW h \in Handlers, NEW o \in Orders,
         \A i \in Handlers : Creating(i) => session[i].order # o,
         \A p \in Orders \ {o} : order'[p] = order[p],
         \A p \in Orders \ {o}, s \in Suffixes :
           /\ <<p, s>> \in reserved' <=> <<p, s>> \in reserved
           /\ <<p, s>> \in released' <=> <<p, s>> \in released,
         \A i \in Handlers \ {h} : session'[i] = session[i],
         ~ Creating(h)',
         RowKeys(o)'
  PROVE  UnitInv'
  <1>1. "reserve" \in Suffixes /\ ReleaseSuffixes \subseteq Suffixes
    BY DEF Suffixes, ReleaseSuffixes
  <1>2. \A p \in Orders \ {o} : /\ Fresh(p)' = Fresh(p)
                                /\ HoldsUnit(p)' = HoldsUnit(p)
    BY <1>1 DEF Fresh, HoldsUnit
  <1>3. ASSUME NEW i \in Handlers, Creating(i)'
        PROVE  /\ Creating(i) /\ session'[i].order = session[i].order
               /\ CreatorFits(i)'
    <2>1. session'[i] = session[i] /\ Creating(i) BY <1>3 DEF Creating
    <2>2. session[i].order \in Orders \ {o}
      BY <2>1, BusySession DEF Creating, LifecycleInv
    <2>3. CreatorFits(i) BY <2>1 DEF UnitInv
    <2> QED BY <1>2, <2>1, <2>2, <2>3 DEF CreatorFits
  <1>4. \A i, k \in Handlers :
          (Creating(i) /\ Creating(k) /\ session[i].order = session[k].order)' => i = k
    BY <1>3 DEF UnitInv
  <1>5. \A p \in Orders : RowKeys(p)'
    <2>1. ASSUME NEW p \in Orders \ {o} PROVE RowKeys(p)'
      <3>1. RowKeys(p) BY DEF UnitInv
      <3> QED BY <1>1, <3>1 DEF RowKeys, Suffixes, ReleaseSuffixes
    <2> QED BY <2>1
  <1> QED BY <1>3, <1>4, <1>5 DEF UnitInv

LEMMA InsertSeckillUnits ==
  ASSUME LifecycleInv, UnitInv, NEW h \in Handlers, InsertSeckillOrder(h)
  PROVE  UnitInv'
  <1>0. PICK o : o = session[h].order OBVIOUS
  <1>1. /\ TypeOK /\ session[h] # Idle /\ o \in Orders /\ session[h].step = "create"
        /\ session[h].op = "CreateOrderFromSeckill" /\ SessionFits(session[h])
    BY <1>0, Continues DEF Continue, InsertSeckillOrder, At
  <1>2. o \in SeckillOrders BY <1>0, <1>1 DEF SessionFits
  <1>3. /\ order'[o] = NewOrder("seckill")
        /\ \A p \in Orders \ {o} : order'[p] = order[p]
    BY <1>0, <1>1, InsertChange DEF InsertSeckillOrder
  <1>4. reserved' = reserved /\ released' = released BY DEF InsertSeckillOrder, stockVars
  <1>5. /\ session'[h].op = "CreateOrderFromSeckill"
        /\ \A i \in Handlers \ {h} : session'[i] = session[i]
    BY <1>1, HandlerMoves DEF InsertSeckillOrder, Steps
  <1>6. ASSUME NEW i \in Handlers, Creating(i) PROVE session[i].order # o
    <2>1. CreatorFits(i) /\ SessionFits(session[i])
      BY <1>6 DEF UnitInv, LifecycleInv, Creating
    <2> QED BY <1>2, <1>6, <2>1 DEF CreatorFits, SessionFits, Creating
  <1>7. ~ Creating(h)' BY <1>5 DEF Creating
  <1>8. RowKeys(o)'
    <2>1. NewOrder("seckill").source = "seckill" BY DEF NewOrder, NoOrder
    <2>2. RowKeys(o) BY <1>1 DEF UnitInv
    <2> QED BY <1>2, <1>3, <1>4, <2>1, <2>2 DEF RowKeys
  <1> QED BY <1>1, <1>3, <1>4, <1>5, <1>6, <1>7, <1>8, OutsiderStep

(* The first release finds the unit held; a repeated one is answered from   *)
(* its record.                                                             *)
LEMMA ReleaseUnits ==
  ASSUME LifecycleInv, UnitInv, NEW h \in Handlers, ReleaseStockForOrder(h)
  PROVE  /\ UnitInv'
         /\ order' = order /\ reserved' = reserved
         /\ session[h].order \in Orders \ SeckillOrders /\ Abandoned(session[h].order)
         /\ \/ released' = released /\ stock' = stock
            \/ /\ HoldsUnit(session[h].order) /\ stock' = stock + 1
               /\ \E s \in ReleaseSuffixes :
                    released' = released \cup {<<session[h].order, s>>}
  <1>0. PICK o : o = session[h].order OBVIOUS
  <1>1. /\ TypeOK /\ session[h] # Idle /\ o \in Orders /\ session[h].step = "release"
        /\ session[h] \in Busy /\ SessionFits(session[h]) /\ Row(h) = order[o]
    BY <1>0, Continues DEF Continue, ReleaseStockForOrder, At
  <1>2. /\ Abandoned(o) /\ order[o].source = "normal"
        /\ session[h].op \in ReleasingOps
    BY <1>0, <1>1 DEF SessionFits
  <1>3. PICK s : s = ReleaseSuffix[order[o].reason] OBVIOUS
  <1>4. s \in ReleaseSuffixes \ {"release:create_fail"}
    BY <1>2, <1>3 DEF Abandoned, ReleaseSuffix, ReleaseReasons, ReleaseSuffixes, Suffixes
  <1>5. HandlerSuffix(session[h].op, Row(h)) = s
    BY <1>0, <1>1, <1>3 DEF SessionFits
  <1>6. order[o].status # "Absent" BY <1>2 DEF Abandoned
  <1>7. /\ o \notin SeckillOrders /\ <<o, "reserve">> \in reserved
        /\ <<o, "release:create_fail">> \notin released
    BY <1>1, <1>2, <1>6 DEF UnitInv, RowKeys
  <1>8. <<o, s>> \notin released => HoldsUnit(o)
    BY <1>1, <1>3, <1>7 DEF HoldsUnit, LifecycleInv, ReleaseMatchesClose
  <1>9. /\ order' = order /\ reserved' = reserved /\ Goto(h, "mark")
        /\ \/ <<o, s>> \in released /\ released' = released /\ stock' = stock
           \/ /\ <<o, s>> \notin released /\ stock' = stock + 1
              /\ released' = released \cup {<<o, s>>}
    BY <1>0, <1>5 DEF ReleaseStockForOrder, Product!ReleaseStock, Product!ReleaseReplayed,
       Product!ReleaseApplied, Product!stockVars
  <1>10. /\ session'[h].op = session[h].op
         /\ \A i \in Handlers \ {h} : session'[i] = session[i]
    BY <1>1, <1>9, HandlerMoves DEF Steps
  <1>11. ~ Creating(h)' BY <1>2, <1>10 DEF Creating, ReleasingOps
  <1>12. ASSUME NEW i \in Handlers, Creating(i) PROVE session[i].order # o
    <2>1. order[session[i].order] = NoOrder BY <1>12 DEF UnitInv, CreatorFits
    <2>2. NoOrder.status = "Absent" BY DEF NoOrder
    <2> QED BY <1>6, <2>1, <2>2
  <1>13. RowKeys(o)'
    <2>1. RowKeys(o) BY <1>1 DEF UnitInv
    <2> QED BY <1>4, <1>7, <1>9, <2>1 DEF RowKeys
  <1>14. \A p \in Orders \ {o}, t \in Suffixes :
           /\ <<p, t>> \in reserved' <=> <<p, t>> \in reserved
           /\ <<p, t>> \in released' <=> <<p, t>> \in released
    BY <1>9
  <1>15. UnitInv' BY <1>1, <1>9, <1>10, <1>11, <1>12, <1>13, <1>14, OutsiderStep
  <1>16. \/ released' = released /\ stock' = stock
         \/ /\ HoldsUnit(o) /\ stock' = stock + 1
            /\ \E t \in ReleaseSuffixes : released' = released \cup {<<o, t>>}
    BY <1>4, <1>8, <1>9
  <1> QED BY <1>0, <1>1, <1>2, <1>7, <1>9, <1>15, <1>16

-----------------------------------------------------------------------------
(* The five kinds of steps.                                                *)

RowsButOne(o) == \A p \in Orders \ {o} : order'[p] = order[p]

KeysKept == reserved' = reserved /\ released' = released /\ stock' = stock

Moves(o) == KeysKept /\ RowsButOne(o) /\ RowMove(order[o], order'[o])

Inserts(o) ==
  /\ KeysKept /\ RowsButOne(o) /\ Inserted(order[o], order'[o])
  /\ o \notin SeckillOrders => HoldsUnit(o)

Holds(o) ==
  /\ order' = order /\ order[o] = NoOrder /\ o \notin SeckillOrders /\ Fresh(o)
  /\ reserved' = reserved \cup {<<o, "reserve">>} /\ released' = released
  /\ stock >= 1 /\ stock' = stock - 1

GivesBack(o) ==
  /\ order' = order
  /\ order[o] = NoOrder \/ Abandoned(o)
  /\ o \notin SeckillOrders /\ HoldsUnit(o)
  /\ reserved' = reserved
  /\ \E s \in ReleaseSuffixes : released' = released \cup {<<o, s>>}
  /\ stock' = stock + 1

Kinds ==
  \/ KeysKept /\ order' = order
  \/ \E o \in Orders : Moves(o) \/ Inserts(o) \/ Holds(o) \/ GivesBack(o)

LEMMA NextUnits ==
  ASSUME AmbiguousCommit = FALSE, LifecycleInv, UnitInv, [Next]_vars
  PROVE  UnitInv' /\ Kinds
  <1>1. ASSUME NEW h \in Handlers, NEW o \in Orders,
               \/ h \in Clients /\ Request(h, o)
               \/ h \in Jobs /\ TimeoutJob(h, o)
        PROVE  UnitInv' /\ Kinds
    <2>1. UnitInv' BY <1>1, StartUnits
    <2>2. UNCHANGED <<order, stockVars>> BY <1>1, Starts
    <2> QED BY <2>1, <2>2 DEF Kinds, KeysKept, stockVars
  <1>2. ASSUME NEW h \in Handlers, Continue(h) \/ Fail(h)
        PROVE  UnitInv' /\ Kinds
    <2>0. PICK o : o = session[h].order OBVIOUS
    <2>1. /\ TypeOK /\ session[h] # Idle /\ session[h] \in Busy /\ o \in Orders
          /\ SessionFits(session[h]) /\ Row(h) = order[o]
      BY <1>2, <2>0, Continues
    <2>2. ASSUME KeysKept, order' = order \/ Moves(o),
                 \/ Return(h)
                 \/ \E next \in Steps : Goto(h, next) /\ session[h].op # "CreateOrder"
                 \/ /\ Goto(h, "compensate") /\ session[h].op = "CreateOrder"
                    /\ session[h].step = "create"
          PROVE  UnitInv' /\ Kinds
      <3>1. /\ \A i \in Handlers \ {h} : session'[i] = session[i]
            /\ \/ session'[h] = Idle
               \/ session'[h].op # "CreateOrder"
               \/ /\ Creating(h) /\ session[h].step = "create"
                  /\ session'[h] = [session[h] EXCEPT !.step = "compensate"]
        BY <2>1, <2>2, HandlerMoves DEF Steps, Creating
      <3>2. \A p \in Orders : order'[p] = order[p] \/ RowMove(order[p], order'[p])
        BY <2>2 DEF Moves, RowsButOne
      <3>3. UnitInv' BY <2>2, <3>1, <3>2, UnitFrame DEF KeysKept
      <3> QED BY <2>1, <2>2, <3>3 DEF Kinds
    <2>3. CASE ReserveForOrder(h)
      BY <2>0, <2>3, ReserveUnits DEF Kinds, Holds
    <2>4. CASE InsertOrder(h)
      <3>1. UnitInv' /\ HoldsUnit(o) BY <2>0, <2>4, InsertUnits
      <3>2. PICK source \in {"normal", "seckill"} : InsertRow(o, source)
        BY <2>0, <2>4, OrderAssumption DEF InsertOrder
      <3>3. Inserts(o)
        BY <2>1, <2>4, <3>1, <3>2, InsertChange
        DEF InsertOrder, Inserts, KeysKept, RowsButOne, Inserted, stockVars
      <3> QED BY <2>1, <3>1, <3>3 DEF Kinds
    <2>5. CASE InsertOrderFailed(h)
      <3>1. /\ KeysKept /\ order' = order /\ Goto(h, "compensate")
            /\ session[h].op = "CreateOrder" /\ session[h].step = "create"
        BY <2>5 DEF InsertOrderFailed, KeysKept, stockVars, At
      <3> QED BY <2>2, <3>1
    <2>6. CASE InsertSeckillOrder(h)
      <3>1. UnitInv' BY <2>6, InsertSeckillUnits
      <3>2. InsertRow(o, "seckill") BY <2>0, <2>6 DEF InsertSeckillOrder
      <3>3. o \in SeckillOrders BY <2>0, <2>1, <2>6 DEF InsertSeckillOrder, At, SessionFits
      <3>4. Inserts(o)
        BY <2>1, <2>6, <3>2, <3>3, InsertChange
        DEF InsertSeckillOrder, Inserts, KeysKept, RowsButOne, Inserted, stockVars
      <3> QED BY <2>1, <3>1, <3>4 DEF Kinds
    <2>7. CASE ReplaySeckillOrder(h)
      BY <2>2, <2>7 DEF ReplaySeckillOrder, KeysKept, stockVars
    <2>8. CASE CompensateReleaseStock(h)
      <3>1. "release:create_fail" \in ReleaseSuffixes BY DEF ReleaseSuffixes, Suffixes
      <3> QED BY <2>0, <2>8, <3>1, CompensateUnits DEF Kinds, GivesBack
    <2>9. CASE Update(h)
      <3>1. /\ KeysKept /\ Moves(o) /\ session[h].op # "CreateOrder"
            /\ \E next \in Steps : Goto(h, next)
        BY <2>0, <2>1, <2>9, UpdateMoves DEF KeysKept, stockVars, Moves, RowsButOne, Steps
      <3> QED BY <2>2, <3>1
    <2>10. CASE ReleaseStockForOrder(h)
      BY <2>0, <2>10, ReleaseUnits DEF Kinds, KeysKept, GivesBack
    <2>11. session[h].step = "mark" => session[h].op # "CreateOrder"
      BY <2>1 DEF SessionFits, ReleasingOps
    <2>12. CASE MarkStockReleased(h)
      <3>1. KeysKept /\ Moves(o) /\ session[h].op # "CreateOrder"
        BY <2>0, <2>1, <2>11, <2>12, MarkMoves
        DEF MarkStockReleased, KeysKept, stockVars, Moves, RowsButOne
      <3>2. Return(h) \/ Goto(h, "emit") BY <2>12 DEF MarkStockReleased
      <3> QED BY <2>2, <3>1, <3>2 DEF Steps
    <2>13. CASE MarkSkipped(h)
      <3>1. KeysKept /\ order' = order /\ session[h].op # "CreateOrder" /\ Goto(h, "emit")
        BY <2>11, <2>13 DEF MarkSkipped, KeysKept, stockVars, At
      <3> QED BY <2>2, <3>1 DEF Steps
    <2>14. CASE EmitSeckillOrderStateEvent(h) \/ Fail(h)
      BY <2>2, <2>14 DEF EmitSeckillOrderStateEvent, Fail, KeysKept, stockVars
    <2> QED
      BY <1>2, <2>3, <2>4, <2>5, <2>6, <2>7, <2>8, <2>9, <2>10, <2>12, <2>13, <2>14
      DEF Continue
  <1>3. CASE SetProductShelf \/ UNCHANGED vars
    <2>1. KeysKept /\ order' = order /\ session' = session
      BY <1>3 DEF SetProductShelf, Product!SetShelf, vars, KeysKept
    <2>2. UnitInv' BY <2>1, UnitFrame DEF KeysKept
    <2> QED BY <2>1, <2>2 DEF Kinds
  <1> QED BY <1>1, <1>2, <1>3 DEF Next

LEMMA InitUnits == Init => UnitInv
  <1> SUFFICES ASSUME Init PROVE UnitInv OBVIOUS
  <1>1. \A h \in Handlers : ~ Creating(h) BY DEF Init, Creating
  <1>2. \A o \in Orders : order[o].status = "Absent" BY DEF Init, NoOrder
  <1>3. released = {} BY DEF Init, Product!StockInit
  <1> QED BY <1>1, <1>2, <1>3 DEF UnitInv, RowKeys

LEMMA UnitsCorrect ==
  ASSUME AmbiguousCommit = FALSE
  PROVE  Spec => []UnitInv
  <1>1. LifecycleInv /\ UnitInv /\ [Next]_vars => UnitInv' BY NextUnits
  <1> QED BY <1>1, InitUnits, LifecycleCorrect, PTL DEF Spec

LEMMA LiveHolds == LifecycleInv /\ UnitInv => LiveOrderHoldsUnit
  <1> SUFFICES ASSUME LifecycleInv, UnitInv, NEW o \in Orders \ SeckillOrders,
                      order[o].status # "Absent", ~ Abandoned(o)
               PROVE  HoldsUnit(o)
    BY DEF LiveOrderHoldsUnit
  <1>1. <<o, "reserve">> \in reserved /\ <<o, "release:create_fail">> \notin released
    BY DEF UnitInv, RowKeys
  <1>2. \A s \in ReleaseSuffixes \ {"release:create_fail"} : <<o, s>> \notin released
    BY DEF LifecycleInv, ReleaseMatchesClose
  <1> QED BY <1>1, <1>2 DEF HoldsUnit

(* If an error of COMMIT means that nothing was committed, an order that    *)
(* may be or was delivered has its unit of the product, which neither the   *)
(* compensation of a failed creation nor the retry job gave back.          *)
THEOREM LiveOrdersHoldUnits ==
  ASSUME AmbiguousCommit = FALSE
  PROVE  Spec => []LiveOrderHoldsUnit
  <1> QED BY LiveHolds, UnitsCorrect, LifecycleCorrect, PTL

(* Under the same assumption the unit of an order goes back under one of    *)
(* its five keys only, so that product-rpc recognises every repetition.     *)
THEOREM UnitsReturnOnce ==
  ASSUME AmbiguousCommit = FALSE
  PROVE  Spec => []ReleasedAtMostOnce
  <1>1. LifecycleInv /\ UnitInv => ReleasedAtMostOnce
    <2> SUFFICES ASSUME LifecycleInv, UnitInv, NEW o \in Orders,
                        NEW s \in ReleaseSuffixes, NEW t \in ReleaseSuffixes,
                        <<o, s>> \in released, <<o, t>> \in released
                 PROVE  s = t
      BY DEF ReleasedAtMostOnce
    <2> DEFINE F == "release:create_fail"
    <2>1. CASE s # F /\ t # F BY <2>1 DEF LifecycleInv, ReleaseMatchesClose
    <2>2. ASSUME NEW u \in ReleaseSuffixes \ {F}, <<o, u>> \in released
          PROVE  <<o, F>> \notin released
      <3>1. Abandoned(o) /\ order[o].source = "normal"
        BY <2>2 DEF LifecycleInv, ReleaseMatchesClose
      <3>2. order[o].status # "Absent" BY <3>1 DEF Abandoned
      <3> QED BY <3>1, <3>2 DEF UnitInv, RowKeys
    <2> QED BY <2>1, <2>2
  <1> QED BY <1>1, UnitsCorrect, LifecycleCorrect, PTL

-----------------------------------------------------------------------------
(* Stock and the orders that hold a unit of it.                            *)

Holders == {o \in Orders \ SeckillOrders : HoldsUnit(o)}

StockSum == IsFiniteSet(Holders) /\ stock + Cardinality(Holders) = InitialStock

LEMMA NextSum ==
  ASSUME LifecycleInv, StockSum, Kinds
  PROVE  StockSum'
  <1>1. Cardinality(Holders) \in Nat /\ stock \in Nat
    BY FS_CardinalityType DEF StockSum, LifecycleInv, TypeOK, Product!StockTypeOK
  <1>2. CASE KeysKept
    <2>1. Holders' = Holders BY <1>2 DEF KeysKept, Holders, HoldsUnit
    <2> QED BY <1>2, <2>1 DEF KeysKept, StockSum
  <1>3. ASSUME NEW o \in Orders, Holds(o) PROVE StockSum'
    <2>1. o \notin Holders BY <1>3 DEF Holds, Fresh, Holders, HoldsUnit
    <2>2. /\ \A p \in Orders \ {o} : HoldsUnit(p)' = HoldsUnit(p)
          /\ HoldsUnit(o)' /\ o \notin SeckillOrders
      BY <1>3 DEF Holds, Fresh, HoldsUnit
    <2>3. Holders' = Holders \cup {o} BY <2>2 DEF Holders
    <2>4. IsFiniteSet(Holders') /\ Cardinality(Holders') = Cardinality(Holders) + 1
      BY <2>1, <2>3, FS_AddElement DEF StockSum
    <2>5. stock' = stock - 1 /\ stock + Cardinality(Holders) = InitialStock
      BY <1>3 DEF Holds, StockSum
    <2>6. (stock - 1) + (Cardinality(Holders) + 1) = stock + Cardinality(Holders)
      BY <1>1
    <2> QED BY <2>4, <2>5, <2>6 DEF StockSum
  <1>4. ASSUME NEW o \in Orders, GivesBack(o) PROVE StockSum'
    <2>1. o \in Holders BY <1>4 DEF GivesBack, Holders
    <2>2. /\ \A p \in Orders \ {o} : HoldsUnit(p)' = HoldsUnit(p)
          /\ ~ HoldsUnit(o)'
      BY <1>4 DEF GivesBack, HoldsUnit
    <2>3. Holders' = Holders \ {o} BY <2>2 DEF Holders
    <2>4. IsFiniteSet(Holders') /\ Cardinality(Holders') = Cardinality(Holders) - 1
      BY <2>1, <2>3, FS_RemoveElement DEF StockSum
    <2>5. stock' = stock + 1 /\ stock + Cardinality(Holders) = InitialStock
      BY <1>4 DEF GivesBack, StockSum
    <2>6. (stock + 1) + (Cardinality(Holders) - 1) = stock + Cardinality(Holders)
      BY <1>1
    <2> QED BY <2>4, <2>5, <2>6 DEF StockSum
  <1> QED BY <1>2, <1>3, <1>4 DEF Kinds, Moves, Inserts, KeysKept

LEMMA InitSum == Init => StockSum
  <1> SUFFICES ASSUME Init PROVE StockSum OBVIOUS
  <1>1. Holders = {} /\ stock = InitialStock
    BY DEF Init, Product!StockInit, Holders, HoldsUnit
  <1> QED BY <1>1, FS_EmptySet, OrderAssumption DEF StockSum

(* There are never more orders open or delivered than units were entered,   *)
(* however many buyers race for the last unit: each holds a unit of its     *)
(* own, and stock does not go below zero.                                  *)
THEOREM NeverOversold ==
  ASSUME AmbiguousCommit = FALSE
  PROVE  Spec => []NoOversell
  <1>1. LifecycleInv /\ UnitInv /\ StockSum /\ [Next]_vars => StockSum'
    BY NextUnits, NextSum
  <1>2. LifecycleInv /\ UnitInv /\ StockSum => NoOversell
    <2> SUFFICES ASSUME LifecycleInv, UnitInv, StockSum PROVE NoOversell OBVIOUS
    <2> DEFINE L == {o \in Orders \ SeckillOrders :
                       order[o].status # "Absent" /\ ~ Abandoned(o)}
    <2>1. L \subseteq Holders BY LiveHolds DEF LiveOrderHoldsUnit, Holders
    <2>2. /\ Cardinality(L) <= Cardinality(Holders)
          /\ Cardinality(L) \in Nat /\ Cardinality(Holders) \in Nat
      BY <2>1, FS_Subset, FS_CardinalityType DEF StockSum
    <2>3. stock \in Nat /\ stock + Cardinality(Holders) = InitialStock
      BY DEF LifecycleInv, TypeOK, Product!StockTypeOK, StockSum
    <2>4. Cardinality(L) <= InitialStock BY <2>2, <2>3
    <2> QED BY <2>4 DEF NoOversell
  <1> QED BY <1>1, <1>2, InitSum, UnitsCorrect, LifecycleCorrect, PTL DEF Spec

-----------------------------------------------------------------------------
(* The refinement.                                                         *)

Phases == [o \in Orders |-> PhaseOf(order[o])]
Money == [o \in Orders |-> MoneyOf(order[o])]
Units == [o \in Orders |-> UnitOf(o)]

LEMMA Absent ==
  /\ PhaseOf(NoOrder) = "none" /\ MoneyOf(NoOrder) = "none"
  /\ \A source : PhaseOf(NewOrder(source)) = "open" /\ MoneyOf(NewOrder(source)) = "none"
  BY DEF PhaseOf, MoneyOf, NoOrder, NewOrder

LEMMA UnitsKept ==
  ASSUME KeysKept PROVE Units' = Units
  BY DEF KeysKept, Units, UnitOf, HoldsUnit

LEMMA PromiseKept ==
  ASSUME LifecycleInv, UnitInv, Kinds
  PROVE  Promise!Next \/ UNCHANGED Promise!vars
  <1> USE DEF Phases, Money, Units
  <1>1. CASE KeysKept /\ order' = order
    BY <1>1, UnitsKept DEF Promise!vars
  <1>2. ASSUME NEW o \in Orders, Holds(o) PROVE Promise!Hold(o)
    <2>1. Phases' = Phases /\ Money' = Money BY <1>2 DEF Holds
    <2>2. Phases[o] = "none" BY <1>2, Absent DEF Holds
    <2>3. Units[o] = "none" BY <1>2 DEF Holds, Fresh, UnitOf
    <2>4. UnitOf(o)' = "held" BY <1>2 DEF Holds, Fresh, UnitOf, HoldsUnit
    <2>5. \A p \in Orders \ {o} : UnitOf(p)' = UnitOf(p)
      BY <1>2 DEF Holds, UnitOf, HoldsUnit
    <2>6. Units' = [Units EXCEPT ![o] = "held"] BY <2>4, <2>5
    <2>7. o \in Orders \ SeckillOrders BY <1>2 DEF Holds
    <2> QED BY <2>1, <2>2, <2>3, <2>6, <2>7 DEF Promise!Hold
  <1>3. ASSUME NEW o \in Orders, GivesBack(o)
        PROVE  Promise!Drop(o) \/ Promise!Return(o)
    <2>1. Phases' = Phases /\ Money' = Money BY <1>3 DEF GivesBack
    <2>2. Units[o] = "held" BY <1>3 DEF GivesBack, UnitOf, HoldsUnit
    <2>3. UnitOf(o)' = "returned" BY <1>3 DEF GivesBack, UnitOf, HoldsUnit
    <2>4. \A p \in Orders \ {o} : UnitOf(p)' = UnitOf(p)
      BY <1>3 DEF GivesBack, UnitOf, HoldsUnit
    <2>5. Units' = [Units EXCEPT ![o] = "returned"] BY <2>3, <2>4
    <2>6. Phases[o] \in {"none", "abandoned"}
      <3>1. CASE order[o] = NoOrder BY <3>1, Absent
      <3>2. CASE Abandoned(o) BY <3>2 DEF Abandoned, PhaseOf
      <3> QED BY <1>3, <3>1, <3>2 DEF GivesBack
    <2> QED BY <2>1, <2>2, <2>5, <2>6 DEF Promise!Drop, Promise!Return
  <1>4. ASSUME NEW o \in Orders, Inserts(o) PROVE Promise!Place(o)
    <2>1. Units' = Units BY <1>4, UnitsKept DEF Inserts
    <2>2. PICK source \in {"normal", "seckill"} :
            order[o] = NoOrder /\ order'[o] = NewOrder(source)
      BY <1>4 DEF Inserts, Inserted
    <2>3. /\ PhaseOf(order[o]) = "none" /\ PhaseOf(order'[o]) = "open"
          /\ MoneyOf(order'[o]) = MoneyOf(order[o])
      BY <2>2, Absent
    <2>4. Phases' = [Phases EXCEPT ![o] = "open"] /\ Money' = Money
      BY <1>4, <2>3 DEF Inserts, RowsButOne
    <2>5. o \in Orders \ SeckillOrders => Units[o] = "held"
      BY <1>4 DEF Inserts, UnitOf, HoldsUnit
    <2> QED BY <2>1, <2>3, <2>4, <2>5 DEF Promise!Place, Promise!Move
  <1>5. ASSUME NEW o \in Orders, Moves(o)
        PROVE  Promise!Next \/ UNCHANGED Promise!vars
    <2> DEFINE old == order[o]
               new == order'[o]
    <2>1. Units' = Units BY <1>5, UnitsKept DEF Moves
    <2>2. /\ Phases' = [Phases EXCEPT ![o] = PhaseOf(new)]
          /\ Money' = [Money EXCEPT ![o] = MoneyOf(new)]
      BY <1>5 DEF Moves, RowsButOne
    <2>3. Promised(old, new) BY <1>5 DEF Moves, RowMove
    <2>4. Phases[o] = PhaseOf(old) /\ Money[o] = MoneyOf(old) OBVIOUS
    <2>5. /\ PhaseOf(new) = PhaseOf(old) => Phases' = Phases
          /\ MoneyOf(new) = MoneyOf(old) => Money' = Money
      BY <2>2, <2>4
    <2> HIDE DEF old, new
    <2>6. CASE PhaseOf(new) = PhaseOf(old) /\ MoneyOf(new) = MoneyOf(old)
      BY <2>1, <2>5, <2>6 DEF Promise!vars
    <2>7. CASE /\ PhaseOf(old) = "open" /\ PhaseOf(new) \in {"review", "accepted"}
               /\ MoneyOf(new) = "taken"
      <3>1. Promise!Pay(o)
        BY <2>1, <2>2, <2>4, <2>7 DEF Promise!Pay, Promise!Move
      <3> QED BY <3>1 DEF Promise!Next, Promise!Step
    <2>8. CASE /\ <<PhaseOf(old), PhaseOf(new)>> \in
                    {<<"review", "accepted">>, <<"accepted", "shipped">>,
                     <<"shipped", "completed">>}
               /\ MoneyOf(new) = MoneyOf(old)
      <3>1. Promise!Accept(o) \/ Promise!Ship(o) \/ Promise!Complete(o)
        BY <2>1, <2>2, <2>4, <2>5, <2>8
        DEF Promise!Accept, Promise!Ship, Promise!Complete, Promise!Move
      <3> QED BY <3>1 DEF Promise!Next, Promise!Step
    <2>9. CASE /\ PhaseOf(old) \in {"open", "review"} /\ PhaseOf(new) = "abandoned"
               /\ MoneyOf(new) = IF MoneyOf(old) = "taken" THEN "owed" ELSE MoneyOf(old)
      <3>1. Promise!Abandon(o)
        BY <2>1, <2>2, <2>4, <2>9 DEF Promise!Abandon, Promise!Move
      <3> QED BY <3>1 DEF Promise!Next, Promise!Step
    <2>10. CASE /\ MoneyOf(old) = "owed" /\ MoneyOf(new) = "returned"
                /\ PhaseOf(new) = PhaseOf(old)
      <3>1. Promise!Refund(o) BY <2>1, <2>2, <2>4, <2>5, <2>10 DEF Promise!Refund
      <3> QED BY <3>1 DEF Promise!Next, Promise!Step
    <2> QED BY <2>3, <2>6, <2>7, <2>8, <2>9, <2>10 DEF Promised
  <1> QED BY <1>1, <1>2, <1>3, <1>4, <1>5 DEF Kinds, Promise!Next, Promise!Step

(* order-rpc implements its promise: whatever handlers and jobs interleave  *)
(* and fail, the life of each order, its money and its unit take steps of   *)
(* OrderPromise only.                                                      *)
THEOREM PromiseRefined ==
  ASSUME AmbiguousCommit = FALSE
  PROVE  Spec => KeepsPromise
  <1>1. Init => Promise!Init
    BY Absent DEF Init, Promise!Init, Product!StockInit, UnitOf
  <1>2. LifecycleInv /\ UnitInv /\ [Next]_vars => [Promise!Next]_(Promise!vars)
    BY NextUnits, PromiseKept
  <1> QED BY <1>1, <1>2, UnitsCorrect, LifecycleCorrect, PTL
    DEF Spec, KeepsPromise, Promise!Safety
=============================================================================
