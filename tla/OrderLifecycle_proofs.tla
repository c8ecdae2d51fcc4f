----------------------- MODULE OrderLifecycle_proofs -----------------------
(***************************************************************************)
(* Proofs about OrderLifecycle, for every set of orders, handlers and      *)
(* timeout jobs.                                                           *)
(***************************************************************************)
EXTENDS OrderLifecycle, TLAPS

Steps == {"reserve", "create", "compensate", "update", "release", "mark", "emit"}

USE DEF Handlers

(* The session of a handler under way is a record of Busy.                 *)
LEMMA BusySession ==
  ASSUME TypeOK, NEW h \in Handlers, session[h] # Idle
  PROVE  /\ session[h] \in Busy
         /\ session[h].order \in Orders
         /\ session[h].op \in ClientOps \cup JobOps
         /\ session[h].step \in Steps
  BY DEF TypeOK, Busy, Steps

LEMMA StartType ==
  ASSUME TypeOK, NEW h \in Handlers, NEW step \in Steps,
         NEW op \in ClientOps \cup JobOps, NEW o \in Orders,
         Start(h, step, op, o)
  PROVE  session' \in [Handlers -> Busy \cup {Idle}]
  BY DEF TypeOK, Start, Busy, Steps

LEMMA GotoType ==
  ASSUME TypeOK, NEW h \in Handlers, NEW step \in Steps,
         session[h] # Idle, Goto(h, step)
  PROVE  session' \in [Handlers -> Busy \cup {Idle}]
  <1>1. session[h] \in Busy BY BusySession
  <1>2. [session[h] EXCEPT !.step = step] \in Busy BY <1>1 DEF Busy, Steps
  <1> QED BY <1>2 DEF TypeOK, Goto

LEMMA ReturnType ==
  ASSUME TypeOK, NEW h \in Handlers, Return(h)
  PROVE  session' \in [Handlers -> Busy \cup {Idle}]
  BY DEF TypeOK, Return

(* What product-rpc does to its own state keeps its types.                 *)
LEMMA StockType ==
  ASSUME Product!StockTypeOK, NEW k \in Orders \X Suffixes,
         Product!ReserveStock(k, 1) \/ Product!ReleaseStock(k, 1)
  PROVE  Product!StockTypeOK'
  BY DEF Product!StockTypeOK, Product!ReserveStock, Product!ReleaseStock,
         Product!ReserveReplayed, Product!ReserveApplied,
         Product!ReleaseReplayed, Product!ReleaseApplied, Product!stockVars

LEMMA StockUnchanged ==
  ASSUME Product!StockTypeOK, UNCHANGED stockVars
  PROVE  Product!StockTypeOK'
  BY DEF Product!StockTypeOK, stockVars

(* A row stays a row when one of its fields takes a value of its type.     *)
LEMMA FieldType ==
  ASSUME NEW r \in OrderRow
  PROVE  /\ \A v \in Statuses : [r EXCEPT !.status = v] \in OrderRow
         /\ \A v \in CloseReasons : [r EXCEPT !.reason = v] \in OrderRow
         /\ [r EXCEPT !.payment = "Paid"] \in OrderRow
         /\ \A v \in {"ManualPending", "Passed", "Rejected", "TimeoutReject"} :
              [r EXCEPT !.review = v] \in OrderRow
         /\ \A v \in {"Shipped", "Received"} : [r EXCEPT !.shipping = v] \in OrderRow
         /\ \A v \in {"Refunding", "Refunded"} : [r EXCEPT !.refund = v] \in OrderRow
         /\ [r EXCEPT !.stockReleased = TRUE] \in OrderRow
  <1>1. \A v \in Statuses : [r EXCEPT !.status = v] \in OrderRow BY DEF OrderRow
  <1>2. \A v \in CloseReasons : [r EXCEPT !.reason = v] \in OrderRow BY DEF OrderRow
  <1>3. [r EXCEPT !.payment = "Paid"] \in OrderRow BY DEF OrderRow
  <1>4. \A v \in {"ManualPending", "Passed", "Rejected", "TimeoutReject"} :
          [r EXCEPT !.review = v] \in OrderRow
    BY DEF OrderRow
  <1>5. \A v \in {"Shipped", "Received"} : [r EXCEPT !.shipping = v] \in OrderRow
    BY DEF OrderRow
  <1>6. \A v \in {"Refunding", "Refunded"} : [r EXCEPT !.refund = v] \in OrderRow
    BY DEF OrderRow
  <1>7. [r EXCEPT !.stockReleased = TRUE] \in OrderRow BY DEF OrderRow
  <1> QED BY <1>1, <1>2, <1>3, <1>4, <1>5, <1>6, <1>7

(* Every row the repository writes is a row.                               *)
LEMMA RowType ==
  ASSUME NEW r \in OrderRow
  PROVE  /\ [r EXCEPT !.status = "Closed", !.reason = "user_cancel"] \in OrderRow
         /\ [r EXCEPT !.status = "Closed", !.reason = "user_cancel", !.refund = "Refunding"] \in OrderRow
         /\ [r EXCEPT !.status = "PendingShip", !.payment = "Paid", !.review = "Passed"] \in OrderRow
         /\ [r EXCEPT !.status = "PendingReview", !.payment = "Paid", !.review = "ManualPending"] \in OrderRow
         /\ [r EXCEPT !.status = "PendingShip", !.review = "Passed"] \in OrderRow
         /\ [r EXCEPT !.status = "Closed", !.reason = "audit_reject", !.review = "Rejected", !.refund = "Refunding"] \in OrderRow
         /\ [r EXCEPT !.status = "Shipped", !.shipping = "Shipped"] \in OrderRow
         /\ [r EXCEPT !.status = "Closed", !.reason = "completed", !.shipping = "Received"] \in OrderRow
         /\ [r EXCEPT !.status = "Closed", !.reason = "auto_completed", !.shipping = "Received"] \in OrderRow
         /\ [r EXCEPT !.status = "Closed", !.reason = "pay_timeout"] \in OrderRow
         /\ [r EXCEPT !.status = "Closed", !.reason = "audit_timeout", !.review = "TimeoutReject", !.refund = "Refunding"] \in OrderRow
         /\ [r EXCEPT !.refund = "Refunded"] \in OrderRow
  <1>1. [r EXCEPT !.status = "Closed", !.reason = "user_cancel"] \in OrderRow
    BY FieldType DEF Statuses, CloseReasons, ReleaseReasons
  <1>2. [r EXCEPT !.status = "Closed", !.reason = "user_cancel", !.refund = "Refunding"] \in OrderRow
    BY FieldType DEF Statuses, CloseReasons, ReleaseReasons
  <1>3. [r EXCEPT !.status = "PendingShip", !.payment = "Paid", !.review = "Passed"] \in OrderRow
    BY FieldType DEF Statuses, CloseReasons, ReleaseReasons
  <1>4. [r EXCEPT !.status = "PendingReview", !.payment = "Paid", !.review = "ManualPending"] \in OrderRow
    BY FieldType DEF Statuses, CloseReasons, ReleaseReasons
  <1>5. [r EXCEPT !.status = "PendingShip", !.review = "Passed"] \in OrderRow
    BY FieldType DEF Statuses, CloseReasons, ReleaseReasons
  <1>6. [r EXCEPT !.status = "Closed", !.reason = "audit_reject", !.review = "Rejected", !.refund = "Refunding"] \in OrderRow
    BY FieldType DEF Statuses, CloseReasons, ReleaseReasons
  <1>7. [r EXCEPT !.status = "Shipped", !.shipping = "Shipped"] \in OrderRow
    BY FieldType DEF Statuses, CloseReasons, ReleaseReasons
  <1>8. [r EXCEPT !.status = "Closed", !.reason = "completed", !.shipping = "Received"] \in OrderRow
    BY FieldType DEF Statuses, CloseReasons, ReleaseReasons
  <1>9. [r EXCEPT !.status = "Closed", !.reason = "auto_completed", !.shipping = "Received"] \in OrderRow
    BY FieldType DEF Statuses, CloseReasons, ReleaseReasons
  <1>10. [r EXCEPT !.status = "Closed", !.reason = "pay_timeout"] \in OrderRow
    BY FieldType DEF Statuses, CloseReasons, ReleaseReasons
  <1>11. [r EXCEPT !.status = "Closed", !.reason = "audit_timeout", !.review = "TimeoutReject", !.refund = "Refunding"] \in OrderRow
    BY FieldType DEF Statuses, CloseReasons, ReleaseReasons
  <1>12. [r EXCEPT !.refund = "Refunded"] \in OrderRow
    BY FieldType DEF Statuses, CloseReasons, ReleaseReasons
  <1> QED BY <1>1, <1>2, <1>3, <1>4, <1>5, <1>6, <1>7, <1>8, <1>9, <1>10, <1>11, <1>12

(* Each UPDATE writes a row of the table.                                  *)
LEMMA UpdateType ==
  ASSUME TypeOK, NEW h \in Handlers, Update(h)
  PROVE  TypeOK'
  <1> DEFINE o == session[h].order
  <1>1. session[h] # Idle
    BY DEF Update, CancelUnpaid, CancelPaidPendingReview, MarkPaidAutoPass,
       MarkPaidManualReview, ReviewApprove, ReviewReject, Ship, UpdateReceived,
       AutoReceive, ClosePayTimeout, CloseReviewTimeoutRefunding, CompleteRefund,
       ExecWithEvent, At
  <1>2. o \in Orders /\ order[o] \in OrderRow BY <1>1, BusySession DEF TypeOK
  <1>3. /\ UNCHANGED <<feed, stockVars>>
        /\ \E next \in {"mark", "release", "emit"} : Goto(h, next)
    BY DEF Update, CancelUnpaid, CancelPaidPendingReview, MarkPaidAutoPass,
       MarkPaidManualReview, ReviewApprove, ReviewReject, Ship, UpdateReceived,
       AutoReceive, ClosePayTimeout, CloseReviewTimeoutRefunding, CompleteRefund,
       ExecWithEvent, AfterClose
  <1>4. order' \in [Orders -> OrderRow]
    <2> USE <1>2, RowType DEF TypeOK, ExecWithEvent, Row
    <2>1. CASE CancelUnpaid(h) BY <2>1 DEF CancelUnpaid
    <2>2. CASE CancelPaidPendingReview(h) BY <2>2 DEF CancelPaidPendingReview
    <2>3. CASE MarkPaidAutoPass(h) BY <2>3 DEF MarkPaidAutoPass
    <2>4. CASE MarkPaidManualReview(h) BY <2>4 DEF MarkPaidManualReview
    <2>5. CASE ReviewApprove(h) BY <2>5 DEF ReviewApprove
    <2>6. CASE ReviewReject(h) BY <2>6 DEF ReviewReject
    <2>7. CASE Ship(h) BY <2>7 DEF Ship
    <2>8. CASE UpdateReceived(h) BY <2>8 DEF UpdateReceived
    <2>9. CASE AutoReceive(h) BY <2>9 DEF AutoReceive
    <2>10. CASE ClosePayTimeout(h) BY <2>10 DEF ClosePayTimeout
    <2>11. CASE CloseReviewTimeoutRefunding(h) BY <2>11 DEF CloseReviewTimeoutRefunding
    <2>12. CASE CompleteRefund(h) BY <2>12 DEF CompleteRefund
    <2> QED BY <2>1, <2>2, <2>3, <2>4, <2>5, <2>6, <2>7, <2>8, <2>9, <2>10, <2>11, <2>12 DEF Update
  <1>6. session' \in [Handlers -> Busy \cup {Idle}] BY <1>1, <1>3, GotoType DEF Steps
  <1>7. Product!StockTypeOK' BY <1>3, StockUnchanged DEF TypeOK
  <1> QED BY <1>3, <1>4, <1>6, <1>7 DEF TypeOK

LEMMA InsertRowType ==
  ASSUME TypeOK, NEW o \in Orders, NEW source \in {"normal", "seckill"},
         InsertRow(o, source)
  PROVE  order' \in [Orders -> OrderRow]
  <1>1. NewOrder(source) \in OrderRow
    BY DEF NewOrder, NoOrder, OrderRow, Statuses, CloseReasons
  <1> QED BY <1>1 DEF TypeOK, InsertRow

(* The event a handler emits is a well-formed one.                         *)
LEMMA EmitType ==
  ASSUME TypeOK, NEW h \in Handlers, EmitSeckillOrderStateEvent(h)
  PROVE  TypeOK'
  <1>1. session[h] # Idle BY DEF EmitSeckillOrderStateEvent, At
  <1>2. session[h].order \in Orders /\ Row(h) \in OrderRow
    BY <1>1, BusySession DEF TypeOK, Row
  <1>3. NewOrder("seckill") \in OrderRow
    BY DEF NewOrder, NoOrder, OrderRow, Statuses, CloseReasons
  <1>4. EmittedRow(session[h].op, Row(h)) \in OrderRow BY <1>2, <1>3 DEF EmittedRow
  <1>5. \A row \in OrderRow :
          [order |-> session[h].order, status |-> row.status,
           payment |-> row.payment, reason |-> row.reason] \in Event
    BY <1>2 DEF OrderRow, Event
  <1>6. feed' \subseteq Event BY <1>4, <1>5 DEF EmitSeckillOrderStateEvent, TypeOK
  <1>7. session' \in [Handlers -> Busy \cup {Idle}]
    BY ReturnType DEF EmitSeckillOrderStateEvent
  <1>8. Product!StockTypeOK'
    BY StockUnchanged DEF TypeOK, EmitSeckillOrderStateEvent
  <1> QED BY <1>6, <1>7, <1>8 DEF TypeOK, EmitSeckillOrderStateEvent

(* A handler that starts changes nothing but its session.                  *)
LEMMA StartKeepsType ==
  ASSUME TypeOK, NEW h \in Handlers, NEW step \in Steps,
         NEW op \in ClientOps \cup JobOps, NEW o \in Orders,
         Start(h, step, op, o), UNCHANGED <<order, feed, stockVars>>
  PROVE  TypeOK'
  BY StartType, StockUnchanged DEF TypeOK

LEMMA RequestType ==
  ASSUME TypeOK, NEW c \in Clients, NEW o \in Orders, Request(c, o)
  PROVE  TypeOK'
  <1> USE DEF Steps, ClientOps
  <1>1. CASE CreateOrder(c, o) BY <1>1, StartKeepsType DEF CreateOrder
  <1>2. CASE CreateOrderFromSeckill(c, o)
    BY <1>2, StartKeepsType DEF CreateOrderFromSeckill
  <1>3. CASE CancelOrder(c, o) BY <1>3, StartKeepsType DEF CancelOrder, StartUpdate
  <1>4. CASE ConfirmPaymentAndInfo(c, o)
    BY <1>4, StartKeepsType DEF ConfirmPaymentAndInfo, StartUpdate
  <1>5. CASE ReviewOrderAdmin(c, o)
    BY <1>5, StartKeepsType DEF ReviewOrderAdmin, StartUpdate
  <1>6. CASE ShipOrderAdmin(c, o)
    BY <1>6, StartKeepsType DEF ShipOrderAdmin, StartUpdate
  <1>7. CASE ConfirmReceipt(c, o)
    BY <1>7, StartKeepsType DEF ConfirmReceipt, StartUpdate
  <1> QED BY <1>1, <1>2, <1>3, <1>4, <1>5, <1>6, <1>7 DEF Request

LEMMA TimeoutJobType ==
  ASSUME TypeOK, NEW j \in Jobs, NEW o \in Orders, TimeoutJob(j, o)
  PROVE  TypeOK'
  <1> USE DEF Steps, JobOps
  <1>1. CASE HandlePayTimeout(j, o)
    BY <1>1, StartKeepsType DEF HandlePayTimeout, StartUpdate
  <1>2. CASE HandleReviewTimeout(j, o)
    BY <1>2, StartKeepsType DEF HandleReviewTimeout, StartUpdate
  <1>3. CASE HandleStockReleaseRetry(j, o)
    BY <1>3, StartKeepsType DEF HandleStockReleaseRetry
  <1>4. CASE HandleRefundCompletion(j, o)
    BY <1>4, StartKeepsType DEF HandleRefundCompletion, StartUpdate
  <1>5. CASE HandleAutoReceive(j, o)
    BY <1>5, StartKeepsType DEF HandleAutoReceive, StartUpdate
  <1> QED BY <1>1, <1>2, <1>3, <1>4, <1>5 DEF TimeoutJob

-----------------------------------------------------------------------------
(* What an UPDATE may do to a row without disturbing the other handlers.    *)

Reasoned(row) == row.status = "Closed" /\ row.reason \in ReleaseReasons

RowStep(old, new) ==
  /\ RowFits(new)
  /\ old.status # "Absent" /\ new.status # "Absent"
  /\ new.source = old.source
  /\ new.stockReleased = old.stockReleased
  /\ Reasoned(old) => Reasoned(new) /\ new.reason = old.reason

(* The step that follows a close knows what was closed.                    *)
NextFits(op, row, next) ==
  /\ next \in {"release", "mark"} => op \in ReleasingOps /\ Reasoned(row)
  /\ next = "release" =>
       row.source = "normal" /\ HandlerSuffix(op, row) = ReleaseSuffix[row.reason]
  /\ next = "mark" => row.source = "seckill"

(* Each row the repository writes is a RowStep of the row its WHERE clause  *)
(* selects.                                                                *)
LEMMA CloseUnpaidStep ==
  ASSUME NEW r \in OrderRow, RowFits(r), IsUnpaid(r),
         NEW reason \in {"user_cancel", "pay_timeout"}
  PROVE  RowStep(r, [r EXCEPT !.status = "Closed", !.reason = reason])
  BY DEF RowStep, RowFits, IsUnpaid, Reasoned, OrderRow, ReleaseReasons

LEMMA CloseReviewStep ==
  ASSUME NEW r \in OrderRow, RowFits(r), r.status = "PendingReview"
  PROVE  /\ RowStep(r, [r EXCEPT !.status = "Closed", !.reason = "user_cancel",
                                 !.refund = "Refunding"])
         /\ \A review \in {"Rejected", "TimeoutReject"},
              reason \in {"audit_reject", "audit_timeout"} :
              RowStep(r, [r EXCEPT !.status = "Closed", !.reason = reason,
                                   !.review = review, !.refund = "Refunding"])
  <1>1. RowStep(r, [r EXCEPT !.status = "Closed", !.reason = "user_cancel",
                             !.refund = "Refunding"])
    BY DEF RowStep, RowFits, Reasoned, OrderRow, ReleaseReasons
  <1>2. ASSUME NEW review \in {"Rejected", "TimeoutReject"},
               NEW reason \in {"audit_reject", "audit_timeout"}
        PROVE  RowStep(r, [r EXCEPT !.status = "Closed", !.reason = reason,
                                    !.review = review, !.refund = "Refunding"])
    BY DEF RowStep, RowFits, Reasoned, OrderRow, ReleaseReasons
  <1> QED BY <1>1, <1>2

LEMMA PayStep ==
  ASSUME NEW r \in OrderRow, RowFits(r), IsUnpaid(r)
  PROVE  /\ RowStep(r, [r EXCEPT !.status = "PendingShip", !.payment = "Paid",
                                 !.review = "Passed"])
         /\ RowStep(r, [r EXCEPT !.status = "PendingReview", !.payment = "Paid",
                                 !.review = "ManualPending"])
  <1>1. RowStep(r, [r EXCEPT !.status = "PendingShip", !.payment = "Paid",
                             !.review = "Passed"])
    BY DEF RowStep, RowFits, IsUnpaid, Reasoned, OrderRow, ReleaseReasons
  <1>2. RowStep(r, [r EXCEPT !.status = "PendingReview", !.payment = "Paid",
                             !.review = "ManualPending"])
    BY DEF RowStep, RowFits, IsUnpaid, Reasoned, OrderRow, ReleaseReasons
  <1> QED BY <1>1, <1>2

LEMMA DeliverStep ==
  ASSUME NEW r \in OrderRow, RowFits(r)
  PROVE  /\ IsManualPending(r) =>
              RowStep(r, [r EXCEPT !.status = "PendingShip", !.review = "Passed"])
         /\ r.status = "PendingShip" =>
              RowStep(r, [r EXCEPT !.status = "Shipped", !.shipping = "Shipped"])
         /\ \A reason \in {"completed", "auto_completed"} :
              IsShipped(r) =>
                RowStep(r, [r EXCEPT !.status = "Closed", !.reason = reason,
                                     !.shipping = "Received"])
         /\ r.status = "Closed" /\ r.refund = "Refunding" =>
              RowStep(r, [r EXCEPT !.refund = "Refunded"])
  <1> USE DEF RowStep, RowFits, Reasoned, OrderRow, ReleaseReasons
  <1>1. IsManualPending(r) =>
          RowStep(r, [r EXCEPT !.status = "PendingShip", !.review = "Passed"])
    BY DEF IsManualPending
  <1>2. r.status = "PendingShip" =>
          RowStep(r, [r EXCEPT !.status = "Shipped", !.shipping = "Shipped"])
    OBVIOUS
  <1>3. ASSUME NEW reason \in {"completed", "auto_completed"}, IsShipped(r)
        PROVE  RowStep(r, [r EXCEPT !.status = "Closed", !.reason = reason,
                                    !.shipping = "Received"])
    BY <1>3 DEF IsShipped
  <1>4. r.status = "Closed" /\ r.refund = "Refunding" =>
          RowStep(r, [r EXCEPT !.refund = "Refunded"])
    BY DEF CloseReasons
  <1> QED BY <1>1, <1>2, <1>3, <1>4

(* The suffix a handler releases under is the one of the reason it wrote.   *)
LEMMA SuffixOfClose ==
  ASSUME NEW r \in OrderRow
  PROVE  /\ \A op \in {"CancelUnpaid", "CancelPaidPendingReview"} :
              r.reason = "user_cancel" =>
                HandlerSuffix(op, r) = ReleaseSuffix[r.reason]
         /\ r.reason = "audit_reject" =>
              HandlerSuffix("ReviewReject", r) = ReleaseSuffix[r.reason]
         /\ r.reason = "pay_timeout" =>
              HandlerSuffix("ClosePayTimeout", r) = ReleaseSuffix[r.reason]
         /\ r.reason = "audit_timeout" =>
              HandlerSuffix("CloseReviewTimeoutRefunding", r) = ReleaseSuffix[r.reason]
         /\ r.reason \in ReleaseReasons =>
              HandlerSuffix("StockReleaseRetry", r) = ReleaseSuffix[r.reason]
  BY DEF HandlerSuffix, ReleaseSuffix, ReleaseReasons

(* A RowStep by one handler keeps the invariant, if the handler goes on as  *)
(* NextFits says.                                                          *)
LEMMA RowStepKeepsInv ==
  ASSUME LifecycleInv, TypeOK', NEW h \in Handlers, session[h] # Idle,
         NEW new \in OrderRow, RowStep(Row(h), new),
         order' = [order EXCEPT ![session[h].order] = new],
         NEW next \in {"release", "mark", "emit"}, Goto(h, next),
         NextFits(session[h].op, new, next),
         UNCHANGED <<feed, stockVars>>
  PROVE  LifecycleInv'
  <1> DEFINE o == session[h].order
  <1>1. TypeOK /\ o \in Orders /\ session[h] \in Busy
    BY BusySession DEF LifecycleInv
  <1>2. order'[o] = new /\ \A p \in Orders \ {o} : order'[p] = order[p]
    BY <1>1 DEF TypeOK
  <1>3. \A p \in Orders : RowStep(order[p], order'[p]) \/ order'[p] = order[p]
    BY <1>1, <1>2 DEF Row
  <1>4. \A p \in Orders : RowFits(order'[p])
    BY <1>3 DEF LifecycleInv, RowStep
  <1>5. \A p \in Orders :
          /\ order'[p].source = order[p].source
          /\ Abandoned(p) => Abandoned(p)' /\ order'[p].reason = order[p].reason
    BY <1>3 DEF RowStep, Abandoned, Reasoned
  <1>6. released' = released /\ reserved' = reserved BY DEF stockVars
  <1>7. /\ session'[h] = [session[h] EXCEPT !.step = next]
        /\ \A i \in Handlers \ {h} : session'[i] = session[i]
    BY <1>1 DEF Goto, TypeOK
  <1>8. SessionFits(session[h])'
    BY <1>1, <1>2, <1>7 DEF SessionFits, NextFits, Abandoned, Reasoned, Busy
  <1>9. ASSUME NEW i \in Handlers, i # h, session[i] # Idle
        PROVE  SessionFits(session[i])'
    <2>1. session[i] \in Busy /\ session[i].order \in Orders
      BY <1>1, <1>9, BusySession
    <2>2. SessionFits(session[i]) BY <1>9 DEF LifecycleInv
    <2>3. session'[i] = session[i] BY <1>7, <1>9
    <2>4. Abandoned(session[i].order) =>
            HandlerSuffix(session[i].op, order'[session[i].order])
              = HandlerSuffix(session[i].op, order[session[i].order])
      BY <1>5, <2>1 DEF HandlerSuffix
    <2>5. UnitBack(session[i].order) /\ Abandoned(session[i].order) =>
            UnitBack(session[i].order)'
      BY <1>5, <1>6, <2>1, <2>3 DEF UnitBack
    <2> QED BY <1>5, <2>1, <2>2, <2>3, <2>4, <2>5 DEF SessionFits
  <1>10. ReleaseMatchesClose'
    BY <1>5, <1>6 DEF LifecycleInv, ReleaseMatchesClose, Abandoned
  <1>11. FlagFits'
    <2> SUFFICES ASSUME NEW p \in Orders,
                        order'[p].stockReleased, order'[p].source = "normal"
                 PROVE  UnitBack(p)'
      BY DEF FlagFits
    <2>1. order[p].stockReleased /\ order[p].source = "normal"
      BY <1>3, <1>5 DEF RowStep
    <2>2. Abandoned(p)
      BY <2>1 DEF LifecycleInv, RowFits, Abandoned, ReleaseReasons
    <2> QED BY <1>5, <1>6, <2>1, <2>2 DEF LifecycleInv, FlagFits, UnitBack
  <1>12. SourceFits'
    BY <1>3, <1>5, <1>6 DEF LifecycleInv, SourceFits, RowStep
  <1>13. \A i \in Handlers : session'[i] # Idle => SessionFits(session[i])'
    BY <1>7, <1>8, <1>9
  <1> QED BY <1>4, <1>10, <1>11, <1>12, <1>13 DEF LifecycleInv

LEMMA UpdateKeepsInv ==
  ASSUME LifecycleInv, NEW h \in Handlers, Update(h)
  PROVE  LifecycleInv'
  <1>1. /\ session[h] # Idle /\ Row(h) \in OrderRow /\ RowFits(Row(h))
        /\ session[h].order \in Orders /\ TypeOK
    <2>1. session[h] # Idle
      BY DEF Update, CancelUnpaid, CancelPaidPendingReview, MarkPaidAutoPass,
         MarkPaidManualReview, ReviewApprove, ReviewReject, Ship, UpdateReceived,
         AutoReceive, ClosePayTimeout, CloseReviewTimeoutRefunding, CompleteRefund,
         ExecWithEvent, At
    <2>2. session[h].order \in Orders BY <2>1, BusySession DEF LifecycleInv
    <2> QED BY <2>1, <2>2 DEF LifecycleInv, TypeOK, Row
  <1>2. TypeOK' BY <1>1, UpdateType
  <1>3. CASE CancelUnpaid(h)
    <2> DEFINE new == [Row(h) EXCEPT !.status = "Closed", !.reason = "user_cancel"]
    <2>1. new \in OrderRow /\ RowStep(Row(h), new)
      BY <1>1, <1>3, RowType, CloseUnpaidStep DEF CancelUnpaid, ExecWithEvent
    <2>2. NextFits(session[h].op, new, AfterClose(h))
      BY <1>1, <1>3, SuffixOfClose, <2>1
      DEF CancelUnpaid, ExecWithEvent, NextFits, AfterClose, Reasoned, ReleasingOps,
          ReleaseReasons, OrderRow
    <2>3. AfterClose(h) \in {"release", "mark", "emit"} BY DEF AfterClose
    <2> QED BY <1>1, <1>2, <1>3, <2>1, <2>2, <2>3, RowStepKeepsInv DEF CancelUnpaid, ExecWithEvent
  <1>4. CASE CancelPaidPendingReview(h)
    <2> DEFINE new == [Row(h) EXCEPT !.status = "Closed", !.reason = "user_cancel", !.refund = "Refunding"]
    <2>1. new \in OrderRow /\ RowStep(Row(h), new)
      BY <1>1, <1>4, RowType, CloseReviewStep DEF CancelPaidPendingReview, ExecWithEvent
    <2>2. NextFits(session[h].op, new, AfterClose(h))
      BY <1>1, <1>4, SuffixOfClose, <2>1
      DEF CancelPaidPendingReview, ExecWithEvent, NextFits, AfterClose, Reasoned, ReleasingOps,
          ReleaseReasons, OrderRow
    <2>3. AfterClose(h) \in {"release", "mark", "emit"} BY DEF AfterClose
    <2> QED BY <1>1, <1>2, <1>4, <2>1, <2>2, <2>3, RowStepKeepsInv DEF CancelPaidPendingReview, ExecWithEvent
  <1>5. CASE MarkPaidAutoPass(h)
    <2> DEFINE new == [Row(h) EXCEPT !.status = "PendingShip", !.payment = "Paid", !.review = "Passed"]
    <2>1. new \in OrderRow /\ RowStep(Row(h), new)
      BY <1>1, <1>5, RowType, PayStep DEF MarkPaidAutoPass, ExecWithEvent
    <2>2. NextFits(session[h].op, new, "emit") BY DEF NextFits
    <2> QED BY <1>1, <1>2, <1>5, <2>1, <2>2, RowStepKeepsInv DEF MarkPaidAutoPass, ExecWithEvent
  <1>6. CASE MarkPaidManualReview(h)
    <2> DEFINE new == [Row(h) EXCEPT !.status = "PendingReview", !.payment = "Paid", !.review = "ManualPending"]
    <2>1. new \in OrderRow /\ RowStep(Row(h), new)
      BY <1>1, <1>6, RowType, PayStep DEF MarkPaidManualReview, ExecWithEvent
    <2>2. NextFits(session[h].op, new, "emit") BY DEF NextFits
    <2> QED BY <1>1, <1>2, <1>6, <2>1, <2>2, RowStepKeepsInv DEF MarkPaidManualReview, ExecWithEvent
  <1>7. CASE ReviewApprove(h)
    <2> DEFINE new == [Row(h) EXCEPT !.status = "PendingShip", !.review = "Passed"]
    <2>1. new \in OrderRow /\ RowStep(Row(h), new)
      BY <1>1, <1>7, RowType, DeliverStep DEF ReviewApprove, ExecWithEvent
    <2>2. NextFits(session[h].op, new, "emit") BY DEF NextFits
    <2> QED BY <1>1, <1>2, <1>7, <2>1, <2>2, RowStepKeepsInv DEF ReviewApprove, ExecWithEvent
  <1>8. CASE ReviewReject(h)
    <2> DEFINE new == [Row(h) EXCEPT !.status = "Closed", !.reason = "audit_reject", !.review = "Rejected", !.refund = "Refunding"]
    <2>1. new \in OrderRow /\ RowStep(Row(h), new)
      BY <1>1, <1>8, RowType, CloseReviewStep DEF ReviewReject, ExecWithEvent, IsManualPending
    <2>2. NextFits(session[h].op, new, AfterClose(h))
      BY <1>1, <1>8, SuffixOfClose, <2>1
      DEF ReviewReject, ExecWithEvent, NextFits, AfterClose, Reasoned, ReleasingOps,
          ReleaseReasons, OrderRow
    <2>3. AfterClose(h) \in {"release", "mark", "emit"} BY DEF AfterClose
    <2> QED BY <1>1, <1>2, <1>8, <2>1, <2>2, <2>3, RowStepKeepsInv DEF ReviewReject, ExecWithEvent
  <1>9. CASE Ship(h)
    <2> DEFINE new == [Row(h) EXCEPT !.status = "Shipped", !.shipping = "Shipped"]
    <2>1. new \in OrderRow /\ RowStep(Row(h), new)
      BY <1>1, <1>9, RowType, DeliverStep DEF Ship, ExecWithEvent
    <2>2. NextFits(session[h].op, new, "emit") BY DEF NextFits
    <2> QED BY <1>1, <1>2, <1>9, <2>1, <2>2, RowStepKeepsInv DEF Ship, ExecWithEvent
  <1>10. CASE UpdateReceived(h)
    <2> DEFINE new == [Row(h) EXCEPT !.status = "Closed", !.reason = "completed", !.shipping = "Received"]
    <2>1. new \in OrderRow /\ RowStep(Row(h), new)
      BY <1>1, <1>10, RowType, DeliverStep DEF UpdateReceived, ExecWithEvent
    <2>2. NextFits(session[h].op, new, "emit") BY DEF NextFits
    <2> QED BY <1>1, <1>2, <1>10, <2>1, <2>2, RowStepKeepsInv DEF UpdateReceived, ExecWithEvent
  <1>11. CASE AutoReceive(h)
    <2> DEFINE new == [Row(h) EXCEPT !.status = "Closed", !.reason = "auto_completed", !.shipping = "Received"]
    <2>1. new \in OrderRow /\ RowStep(Row(h), new)
      BY <1>1, <1>11, RowType, DeliverStep DEF AutoReceive, ExecWithEvent
    <2>2. NextFits(session[h].op, new, "emit") BY DEF NextFits
    <2> QED BY <1>1, <1>2, <1>11, <2>1, <2>2, RowStepKeepsInv DEF AutoReceive, ExecWithEvent
  <1>12. CASE ClosePayTimeout(h)
    <2> DEFINE new == [Row(h) EXCEPT !.status = "Closed", !.reason = "pay_timeout"]
    <2>1. new \in OrderRow /\ RowStep(Row(h), new)
      BY <1>1, <1>12, RowType, CloseUnpaidStep DEF ClosePayTimeout, ExecWithEvent
    <2>2. NextFits(session[h].op, new, AfterClose(h))
      BY <1>1, <1>12, SuffixOfClose, <2>1
      DEF ClosePayTimeout, ExecWithEvent, NextFits, AfterClose, Reasoned, ReleasingOps,
          ReleaseReasons, OrderRow
    <2>3. AfterClose(h) \in {"release", "mark", "emit"} BY DEF AfterClose
    <2> QED BY <1>1, <1>2, <1>12, <2>1, <2>2, <2>3, RowStepKeepsInv DEF ClosePayTimeout, ExecWithEvent
  <1>13. CASE CloseReviewTimeoutRefunding(h)
    <2> DEFINE new == [Row(h) EXCEPT !.status = "Closed", !.reason = "audit_timeout", !.review = "TimeoutReject", !.refund = "Refunding"]
    <2>1. new \in OrderRow /\ RowStep(Row(h), new)
      BY <1>1, <1>13, RowType, CloseReviewStep DEF CloseReviewTimeoutRefunding, ExecWithEvent, IsManualPending
    <2>2. NextFits(session[h].op, new, AfterClose(h))
      BY <1>1, <1>13, SuffixOfClose, <2>1
      DEF CloseReviewTimeoutRefunding, ExecWithEvent, NextFits, AfterClose, Reasoned, ReleasingOps,
          ReleaseReasons, OrderRow
    <2>3. AfterClose(h) \in {"release", "mark", "emit"} BY DEF AfterClose
    <2> QED BY <1>1, <1>2, <1>13, <2>1, <2>2, <2>3, RowStepKeepsInv DEF CloseReviewTimeoutRefunding, ExecWithEvent
  <1>14. CASE CompleteRefund(h)
    <2> DEFINE new == [Row(h) EXCEPT !.refund = "Refunded"]
    <2>1. new \in OrderRow /\ RowStep(Row(h), new)
      BY <1>1, <1>14, RowType, DeliverStep DEF CompleteRefund, ExecWithEvent
    <2>2. NextFits(session[h].op, new, "emit") BY DEF NextFits
    <2> QED BY <1>1, <1>2, <1>14, <2>1, <2>2, RowStepKeepsInv DEF CompleteRefund, ExecWithEvent
  <1> QED BY <1>3, <1>4, <1>5, <1>6, <1>7, <1>8, <1>9, <1>10, <1>11, <1>12, <1>13, <1>14 DEF Update

-----------------------------------------------------------------------------
(* Steps that leave the orders table and the release records alone.         *)
LEMMA QuietStepKeepsInv ==
  ASSUME LifecycleInv, TypeOK', order' = order, released' = released,
         \A o \in Orders : <<o, "reserve">> \in reserved' =>
           <<o, "reserve">> \in reserved \/ o \notin SeckillOrders,
         \A h \in Handlers :
           session'[h] = session[h] \/ session'[h] = Idle \/ SessionFits(session[h])'
  PROVE  LifecycleInv'
  <1>1. ASSUME NEW h \in Handlers, session'[h] # Idle
        PROVE  SessionFits(session[h])'
    BY <1>1 DEF LifecycleInv, SessionFits, UnitBack, Abandoned
  <1>2. ReleaseMatchesClose' /\ FlagFits'
    BY DEF LifecycleInv, ReleaseMatchesClose, FlagFits, UnitBack, Abandoned
  <1>3. SourceFits' BY DEF LifecycleInv, SourceFits
  <1> QED BY <1>1, <1>2, <1>3 DEF LifecycleInv

(* A handler starts at a step it may start at.                             *)
LEMMA StartKeepsInv ==
  ASSUME LifecycleInv, NEW h \in Handlers, NEW step \in Steps,
         NEW op \in ClientOps \cup JobOps, NEW o \in Orders,
         Start(h, step, op, o), UNCHANGED <<order, feed, stockVars>>,
         SessionFits([step |-> step, op |-> op, order |-> o])
  PROVE  LifecycleInv'
  <1>1. TypeOK' BY StartKeepsType DEF LifecycleInv
  <1>2. /\ session'[h] = [step |-> step, op |-> op, order |-> o]
        /\ \A i \in Handlers \ {h} : session'[i] = session[i]
    BY DEF LifecycleInv, TypeOK, Start
  <1>3. SessionFits(session[h])'
    BY <1>2 DEF SessionFits, UnitBack, Abandoned, stockVars
  <1> QED BY <1>1, <1>2, <1>3, QuietStepKeepsInv DEF stockVars

LEMMA UpdateStartFits ==
  ASSUME NEW op \in ClientOps \cup JobOps, NEW o \in Orders
  PROVE  SessionFits([step |-> "update", op |-> op, order |-> o])
  BY DEF SessionFits

LEMMA RequestKeepsInv ==
  ASSUME LifecycleInv, NEW c \in Clients, NEW o \in Orders, Request(c, o)
  PROVE  LifecycleInv'
  <1> USE DEF Steps, ClientOps
  <1>1. CASE CreateOrder(c, o)
    <2>1. SessionFits([step |-> "reserve", op |-> "CreateOrder", order |-> o])
      BY <1>1 DEF CreateOrder, SessionFits
    <2> QED BY <1>1, <2>1, StartKeepsInv DEF CreateOrder
  <1>2. CASE CreateOrderFromSeckill(c, o)
    <2>1. SessionFits([step |-> "create", op |-> "CreateOrderFromSeckill", order |-> o])
      BY <1>2 DEF CreateOrderFromSeckill, SessionFits
    <2> QED BY <1>2, <2>1, StartKeepsInv DEF CreateOrderFromSeckill
  <1>3. CASE CancelOrder(c, o)
    BY <1>3, StartKeepsInv, UpdateStartFits DEF CancelOrder, StartUpdate
  <1>4. CASE ConfirmPaymentAndInfo(c, o)
    BY <1>4, StartKeepsInv, UpdateStartFits DEF ConfirmPaymentAndInfo, StartUpdate
  <1>5. CASE ReviewOrderAdmin(c, o)
    BY <1>5, StartKeepsInv, UpdateStartFits DEF ReviewOrderAdmin, StartUpdate
  <1>6. CASE ShipOrderAdmin(c, o)
    BY <1>6, StartKeepsInv, UpdateStartFits DEF ShipOrderAdmin, StartUpdate
  <1>7. CASE ConfirmReceipt(c, o)
    BY <1>7, StartKeepsInv, UpdateStartFits DEF ConfirmReceipt, StartUpdate
  <1> QED BY <1>1, <1>2, <1>3, <1>4, <1>5, <1>6, <1>7 DEF Request

LEMMA TimeoutJobKeepsInv ==
  ASSUME LifecycleInv, NEW j \in Jobs, NEW o \in Orders, TimeoutJob(j, o)
  PROVE  LifecycleInv'
  <1> USE DEF Steps, JobOps
  <1>1. CASE HandlePayTimeout(j, o)
    BY <1>1, StartKeepsInv, UpdateStartFits DEF HandlePayTimeout, StartUpdate
  <1>2. CASE HandleReviewTimeout(j, o)
    BY <1>2, StartKeepsInv, UpdateStartFits DEF HandleReviewTimeout, StartUpdate
  <1>3. CASE HandleStockReleaseRetry(j, o)
    <2>1. order[o] \in OrderRow BY DEF LifecycleInv, TypeOK
    <2>2. CASE order[o].source = "seckill"
      <3>1. SessionFits([step |-> "mark", op |-> "StockReleaseRetry", order |-> o])
        BY <1>3, <2>2 DEF HandleStockReleaseRetry, SessionFits, ReleasingOps, Abandoned
      <3> QED BY <1>3, <2>2, <3>1, StartKeepsInv DEF HandleStockReleaseRetry
    <2>3. CASE order[o].source # "seckill"
      <3>1. SessionFits([step |-> "release", op |-> "StockReleaseRetry", order |-> o])
        BY <1>3, <2>1, <2>3, SuffixOfClose
        DEF HandleStockReleaseRetry, SessionFits, ReleasingOps, Abandoned, OrderRow
      <3> QED BY <1>3, <2>3, <3>1, StartKeepsInv DEF HandleStockReleaseRetry
    <2> QED BY <2>2, <2>3
  <1>4. CASE HandleRefundCompletion(j, o)
    BY <1>4, StartKeepsInv, UpdateStartFits DEF HandleRefundCompletion, StartUpdate
  <1>5. CASE HandleAutoReceive(j, o)
    BY <1>5, StartKeepsInv, UpdateStartFits DEF HandleAutoReceive, StartUpdate
  <1> QED BY <1>1, <1>2, <1>3, <1>4, <1>5 DEF TimeoutJob

(* An insert writes a new row where there was none.                        *)
LEMMA InsertKeepsInv ==
  ASSUME LifecycleInv, NEW h \in Handlers, session[h] # Idle,
         NEW source \in {"normal", "seckill"},
         session[h].order \in SeckillOrders \/ source \in CreateSources,
         InsertRow(session[h].order, source),
         NEW next \in {"idle", "emit", "compensate"},
         next = "idle" => Return(h),
         next # "idle" => Goto(h, next),
         next = "compensate" =>
           session[h].order \notin SeckillOrders /\ session[h].op = "CreateOrder",
         UNCHANGED <<feed, stockVars>>
  PROVE  LifecycleInv'
  <1> DEFINE o == session[h].order
  <1>1. TypeOK /\ o \in Orders /\ session[h] \in Busy
    BY BusySession DEF LifecycleInv
  <1>2. order' \in [Orders -> OrderRow] BY <1>1, InsertRowType
  <1>3. session' \in [Handlers -> Busy \cup {Idle}]
    BY <1>1, ReturnType, GotoType DEF Steps
  <1>4. TypeOK' BY <1>1, <1>2, <1>3, StockUnchanged DEF TypeOK
  <1>5. /\ order[o] = NoOrder /\ order'[o] = NewOrder(source)
        /\ \A p \in Orders \ {o} : order'[p] = order[p]
    BY <1>1 DEF TypeOK, InsertRow
  <1>6. RowFits(order'[o])
    BY <1>5 DEF RowFits, NewOrder, NoOrder, ReleaseReasons
  <1>7. ~ Abandoned(o)
    <2>1. NoOrder.status = "Absent" BY DEF NoOrder
    <2> QED BY <1>5, <2>1 DEF Abandoned
  <1>8. released' = released /\ reserved' = reserved BY DEF stockVars
  <1>9. ASSUME NEW i \in Handlers, session'[i] # Idle
        PROVE  SessionFits(session[i])'
    <2>1. CASE i = h
      <3>1. session'[h] = [session[h] EXCEPT !.step = next] /\ next # "idle"
        BY <1>1, <1>9, <2>1 DEF Goto, Return, TypeOK
      <3> QED BY <1>1, <2>1, <3>1 DEF SessionFits, Busy
    <2>2. CASE i # h
      <3>1. session'[i] = session[i]
        BY <1>1, <2>2 DEF Goto, Return, TypeOK
      <3>2. SessionFits(session[i]) /\ session[i] \in Busy /\ session[i].order \in Orders
        BY <1>1, <1>9, <3>1, BusySession DEF LifecycleInv
      <3> QED BY <1>5, <1>7, <1>8, <3>1, <3>2 DEF SessionFits, Abandoned, UnitBack
    <2> QED BY <2>1, <2>2
  <1>10. ReleaseMatchesClose'
    BY <1>5, <1>7, <1>8 DEF LifecycleInv, ReleaseMatchesClose, Abandoned
  <1>11. FlagFits' BY <1>5, <1>8 DEF LifecycleInv, FlagFits, NewOrder, NoOrder, UnitBack
  <1>12. SourceFits'
    <2>1. order'[o].source = source BY <1>5 DEF NewOrder, NoOrder
    <2> QED BY <1>5, <1>8, <2>1 DEF LifecycleInv, SourceFits
  <1>13. \A p \in Orders : RowFits(order[p])' BY <1>5, <1>6 DEF LifecycleInv
  <1> QED BY <1>4, <1>9, <1>10, <1>11, <1>12, <1>13 DEF LifecycleInv

(* The release goes under the key of the reason the order was closed for.   *)
LEMMA ReleaseKeepsInv ==
  ASSUME LifecycleInv, NEW h \in Handlers, ReleaseStockForOrder(h)
  PROVE  LifecycleInv'
  <1> DEFINE o == session[h].order
             k == <<o, ReleaseSuffix[order[o].reason]>>
  <1>1. session[h] # Idle /\ session[h].step = "release"
    BY DEF ReleaseStockForOrder, At
  <1>2. TypeOK /\ o \in Orders /\ session[h] \in Busy
    BY <1>1, BusySession DEF LifecycleInv
  <1>3. /\ session[h].op \in ReleasingOps /\ Abandoned(o)
        /\ order[o].source = "normal"
        /\ HandlerSuffix(session[h].op, order[o]) = ReleaseSuffix[order[o].reason]
    BY <1>1 DEF LifecycleInv, SessionFits
  <1>4. k \in Orders \X Suffixes
    BY <1>2, <1>3 DEF Abandoned, ReleaseReasons, ReleaseSuffix, Suffixes
  <1>5. Product!ReleaseStock(k, 1) /\ Goto(h, "mark") /\ UNCHANGED <<order, feed>>
    BY <1>3 DEF ReleaseStockForOrder, Row
  <1>6. /\ released' = released \cup {k}
        /\ reserved' = reserved
    BY <1>5 DEF Product!ReleaseStock, Product!ReleaseReplayed,
       Product!ReleaseApplied, Product!stockVars
  <1>7. TypeOK'
    <2>1. Product!StockTypeOK' BY <1>2, <1>4, <1>5, StockType DEF TypeOK
    <2>2. session' \in [Handlers -> Busy \cup {Idle}]
      BY <1>1, <1>2, <1>5, GotoType DEF Steps
    <2> QED BY <1>2, <1>5, <2>1, <2>2 DEF TypeOK
  <1>8. ASSUME NEW i \in Handlers, session'[i] # Idle
        PROVE  SessionFits(session[i])'
    <2>1. CASE i = h
      <3>1. session'[h] = [session[h] EXCEPT !.step = "mark"]
        BY <1>2, <1>5 DEF Goto, TypeOK
      <3> QED BY <1>2, <1>3, <1>5, <1>6, <2>1, <3>1
        DEF SessionFits, UnitBack, Abandoned, Busy
    <2>2. CASE i # h
      <3>1. session'[i] = session[i] BY <1>2, <1>5, <2>2 DEF Goto, TypeOK
      <3>2. SessionFits(session[i]) BY <1>8, <3>1 DEF LifecycleInv
      <3> QED BY <1>5, <1>6, <3>1, <3>2 DEF SessionFits, UnitBack, Abandoned
    <2> QED BY <2>1, <2>2
  <1>9. ReleaseMatchesClose'
    BY <1>3, <1>5, <1>6 DEF LifecycleInv, ReleaseMatchesClose, Abandoned
  <1>10. FlagFits' /\ SourceFits'
    BY <1>5, <1>6 DEF LifecycleInv, FlagFits, SourceFits, UnitBack
  <1> QED BY <1>5, <1>7, <1>8, <1>9, <1>10 DEF LifecycleInv

(* The flag is set by a handler that has seen the unit go back.            *)
LEMMA MarkKeepsInv ==
  ASSUME LifecycleInv, NEW h \in Handlers, MarkStockReleased(h)
  PROVE  LifecycleInv'
  <1> DEFINE o == session[h].order
  <1>1. session[h] # Idle /\ session[h].step = "mark"
    BY DEF MarkStockReleased, At
  <1>2. TypeOK /\ o \in Orders /\ session[h] \in Busy
    BY <1>1, BusySession DEF LifecycleInv
  <1>3. Abandoned(o) /\ (order[o].source = "normal" => UnitBack(o))
    BY <1>1 DEF LifecycleInv, SessionFits
  <1>4. /\ order' = [order EXCEPT ![o].stockReleased = TRUE]
        /\ UNCHANGED <<feed, stockVars>>
        /\ Return(h) \/ Goto(h, "emit")
    BY DEF MarkStockReleased
  <1>5. /\ order'[o] = [order[o] EXCEPT !.stockReleased = TRUE]
        /\ \A p \in Orders \ {o} : order'[p] = order[p]
    BY <1>2, <1>4 DEF TypeOK
  <1>6. order[o] \in OrderRow /\ RowFits(order[o]) BY <1>2 DEF LifecycleInv, TypeOK
  <1>7. order'[o] \in OrderRow BY <1>5, <1>6, FieldType
  <1>8. RowFits(order'[o])
    BY <1>3, <1>5, <1>6 DEF RowFits, OrderRow, Abandoned
  <1>9. TypeOK'
    <2>1. session' \in [Handlers -> Busy \cup {Idle}]
      BY <1>1, <1>2, <1>4, ReturnType, GotoType DEF Steps
    <2>2. order' \in [Orders -> OrderRow] BY <1>2, <1>4, <1>5, <1>7 DEF TypeOK
    <2> QED BY <1>2, <1>4, <2>1, <2>2, StockUnchanged DEF TypeOK
  <1>10. \A p \in Orders :
           /\ order'[p].source = order[p].source /\ order'[p].reason = order[p].reason
           /\ order'[p].status = order[p].status
    BY <1>5, <1>6 DEF OrderRow
  <1>11. released' = released /\ reserved' = reserved BY <1>4 DEF stockVars
  <1>12. ASSUME NEW i \in Handlers, session'[i] # Idle
         PROVE  SessionFits(session[i])'
    <2>1. CASE i = h
      <3>1. session'[h] = [session[h] EXCEPT !.step = "emit"]
        BY <1>2, <1>4, <1>12, <2>1 DEF Goto, Return, TypeOK
      <3> QED BY <1>2, <2>1, <3>1 DEF SessionFits, Busy
    <2>2. CASE i # h
      <3>1. session'[i] = session[i] BY <1>2, <1>4, <2>2 DEF Goto, Return, TypeOK
      <3>2. SessionFits(session[i]) /\ session[i].order \in Orders
        BY <1>2, <1>12, <3>1, BusySession DEF LifecycleInv
      <3>3. HandlerSuffix(session[i].op, order'[session[i].order])
              = HandlerSuffix(session[i].op, order[session[i].order])
        BY <1>10, <3>2 DEF HandlerSuffix
      <3> QED BY <1>10, <1>11, <3>1, <3>2, <3>3 DEF SessionFits, UnitBack, Abandoned
    <2> QED BY <2>1, <2>2
  <1>13. ReleaseMatchesClose'
    BY <1>10, <1>11 DEF LifecycleInv, ReleaseMatchesClose, Abandoned
  <1>14. FlagFits'
    BY <1>3, <1>5, <1>10, <1>11 DEF LifecycleInv, FlagFits, UnitBack
  <1>15. SourceFits' BY <1>10, <1>11 DEF LifecycleInv, SourceFits
  <1>16. \A p \in Orders : RowFits(order[p])' BY <1>5, <1>8 DEF LifecycleInv
  <1> QED BY <1>9, <1>12, <1>13, <1>14, <1>15, <1>16 DEF LifecycleInv

(* A handler that only moves on, or stops, knows no more than before.       *)
LEMMA MoveKeepsInv ==
  ASSUME LifecycleInv, TypeOK', NEW h \in Handlers, session[h] # Idle,
         order' = order, released' = released,
         \A o \in Orders : <<o, "reserve">> \in reserved' =>
           <<o, "reserve">> \in reserved \/ o \notin SeckillOrders,
         \/ Return(h)
         \/ Goto(h, "emit")
         \/ /\ \E next \in {"create", "compensate"} : Goto(h, next)
            /\ session[h].order \notin SeckillOrders
            /\ session[h].op = "CreateOrder"
  PROVE  LifecycleInv'
  <1>1. TypeOK /\ session[h] \in Busy BY BusySession DEF LifecycleInv
  <1>2. ASSUME NEW i \in Handlers
        PROVE  session'[i] = session[i] \/ session'[i] = Idle \/ SessionFits(session[i])'
    <2>1. CASE i # h BY <1>1, <2>1 DEF Goto, Return, TypeOK
    <2>2. CASE i = h /\ Return(h) BY <1>1, <2>2 DEF Return, TypeOK
    <2>3. CASE i = h /\ \E next \in {"emit", "create", "compensate"} :
                           Goto(h, next) /\ 
                (next # "emit" => /\ session[h].order \notin SeckillOrders
                                  /\ session[h].op = "CreateOrder")
      <3>1. PICK next \in {"emit", "create", "compensate"} :
              Goto(h, next) /\ 
                (next # "emit" => /\ session[h].order \notin SeckillOrders
                                  /\ session[h].op = "CreateOrder")
        BY <2>3
      <3>2. session'[h] = [session[h] EXCEPT !.step = next]
        BY <1>1, <3>1 DEF Goto, TypeOK
      <3>3. /\ session'[h].step = next
            /\ session'[h].order = session[h].order /\ session'[h].op = session[h].op
        BY <1>1, <3>2 DEF Busy
      <3> QED BY <2>3, <3>1, <3>3 DEF SessionFits
    <2> QED BY <2>1, <2>2, <2>3
  <1> QED BY <1>2, QuietStepKeepsInv

LEMMA ContinueKeepsInv ==
  ASSUME LifecycleInv, NEW h \in Handlers, Continue(h) \/ Fail(h)
  PROVE  LifecycleInv'
  <1>0. /\ session[h] # Idle
        /\ TypeOK /\ session[h].order \in Orders
        /\ SessionFits(session[h])
    <2>1. session[h] # Idle
      <3>1. CASE Update(h)
        BY <3>1
        DEF Update, CancelUnpaid, CancelPaidPendingReview, MarkPaidAutoPass,
           MarkPaidManualReview, ReviewApprove, ReviewReject, Ship, UpdateReceived,
           AutoReceive, ClosePayTimeout, CloseReviewTimeoutRefunding, CompleteRefund,
           ExecWithEvent, At
      <3> QED BY <3>1
        DEF Continue, Fail, ReserveForOrder, InsertOrder, InsertOrderFailed,
            InsertSeckillOrder, ReplaySeckillOrder, CompensateReleaseStock,
            ReleaseStockForOrder, MarkStockReleased, MarkSkipped,
            EmitSeckillOrderStateEvent, At
    <2> QED BY <2>1, BusySession DEF LifecycleInv
  <1> DEFINE o == session[h].order
  <1>1. CASE ReserveForOrder(h)
    <2>1. o \notin SeckillOrders /\ session[h].op = "CreateOrder"
      BY <1>0, <1>1 DEF ReserveForOrder, At, SessionFits
    <2>2. <<o, "reserve">> \in Orders \X Suffixes BY <1>0 DEF Suffixes
    <2>3. released' = released /\ reserved' \subseteq reserved \cup {<<o, "reserve">>}
      BY <1>1 DEF ReserveForOrder, Product!ReserveStock, Product!ReserveReplayed,
         Product!ReserveApplied, Product!stockVars
    <2>4. TypeOK'
      BY <1>0, <1>1, <2>2, StockType, GotoType DEF ReserveForOrder, TypeOK, Steps
    <2> QED BY <1>0, <1>1, <2>1, <2>3, <2>4, MoveKeepsInv DEF ReserveForOrder
  <1>2. CASE InsertOrder(h)
    BY <1>0, <1>2, InsertKeepsInv, OrderAssumption DEF InsertOrder
  <1>3. CASE InsertOrderFailed(h)
    <2>1. o \notin SeckillOrders /\ session[h].op = "CreateOrder"
      BY <1>0, <1>3 DEF InsertOrderFailed, At, SessionFits
    <2>2. CASE order' = order
      <3>1. TypeOK' BY <1>0, <1>3, <2>2, StockUnchanged, GotoType
        DEF InsertOrderFailed, TypeOK, Steps
      <3> QED BY <1>0, <1>3, <2>1, <2>2, <3>1, MoveKeepsInv
        DEF InsertOrderFailed, stockVars
    <2>3. CASE \E source \in CreateSources : InsertRow(o, source)
      BY <1>0, <1>3, <2>1, <2>3, InsertKeepsInv, OrderAssumption DEF InsertOrderFailed
    <2> QED BY <1>3, <2>2, <2>3 DEF InsertOrderFailed
  <1>4. CASE InsertSeckillOrder(h)
    <2>1. o \in SeckillOrders
      BY <1>0, <1>4 DEF InsertSeckillOrder, At, SessionFits
    <2> QED BY <1>0, <1>4, <2>1, InsertKeepsInv DEF InsertSeckillOrder
  <1>5. CASE ReplaySeckillOrder(h)
    <2>1. TypeOK' BY <1>0, <1>5, StockUnchanged, ReturnType DEF ReplaySeckillOrder, TypeOK
    <2> QED BY <1>0, <1>5, <2>1, MoveKeepsInv DEF ReplaySeckillOrder, stockVars
  <1>6. CASE CompensateReleaseStock(h)
    <2>1. <<o, "release:create_fail">> \in Orders \X Suffixes BY <1>0 DEF Suffixes
    <2>2. /\ released' = released \cup {<<o, "release:create_fail">>}
          /\ reserved' = reserved
      BY <1>6 DEF CompensateReleaseStock, Product!ReleaseStock,
         Product!ReleaseReplayed, Product!ReleaseApplied, Product!stockVars
    <2>3. TypeOK'
      BY <1>0, <1>6, <2>1, StockType, ReturnType DEF CompensateReleaseStock, TypeOK
    <2>4. ASSUME NEW i \in Handlers, session'[i] # Idle
          PROVE  SessionFits(session[i])'
      <3>1. session'[i] = session[i]
        BY <1>0, <1>6, <2>4 DEF CompensateReleaseStock, Return, TypeOK
      <3>2. SessionFits(session[i]) BY <2>4, <3>1 DEF LifecycleInv
      <3> QED BY <1>6, <2>2, <3>1, <3>2
        DEF CompensateReleaseStock, SessionFits, UnitBack, Abandoned
    <2>5. ReleaseMatchesClose'
      BY <1>6, <2>2 DEF CompensateReleaseStock, LifecycleInv, ReleaseMatchesClose, Abandoned
    <2>6. FlagFits' /\ SourceFits'
      BY <1>6, <2>2 DEF CompensateReleaseStock, LifecycleInv, FlagFits, SourceFits, UnitBack
    <2> QED BY <1>6, <2>3, <2>4, <2>5, <2>6 DEF CompensateReleaseStock, LifecycleInv
  <1>7. CASE Update(h) BY <1>7, UpdateKeepsInv
  <1>8. CASE ReleaseStockForOrder(h) BY <1>8, ReleaseKeepsInv
  <1>9. CASE MarkStockReleased(h) BY <1>9, MarkKeepsInv
  <1>10. CASE MarkSkipped(h)
    <2>1. TypeOK' BY <1>0, <1>10, StockUnchanged, GotoType DEF MarkSkipped, TypeOK, Steps
    <2> QED BY <1>0, <1>10, <2>1, MoveKeepsInv DEF MarkSkipped, stockVars
  <1>11. CASE EmitSeckillOrderStateEvent(h)
    <2>1. TypeOK' BY <1>0, <1>11, EmitType
    <2> QED BY <1>0, <1>11, <2>1, MoveKeepsInv DEF EmitSeckillOrderStateEvent, stockVars
  <1>12. CASE Fail(h)
    <2>1. TypeOK' BY <1>0, <1>12, StockUnchanged, ReturnType DEF Fail, TypeOK
    <2> QED BY <1>0, <1>12, <2>1, MoveKeepsInv DEF Fail, stockVars
  <1> QED BY <1>1, <1>2, <1>3, <1>4, <1>5, <1>6, <1>7, <1>8, <1>9, <1>10, <1>11, <1>12
    DEF Continue

LEMMA InitInv == Init => LifecycleInv
  <1> SUFFICES ASSUME Init PROVE LifecycleInv OBVIOUS
  <1>1. NoOrder \in OrderRow /\ RowFits(NoOrder) /\ ~ NoOrder.stockReleased
        /\ NoOrder.status = "Absent"
    BY DEF NoOrder, OrderRow, Statuses, CloseReasons, RowFits, ReleaseReasons
  <1>2. TypeOK
    BY <1>1, OrderAssumption
    DEF Init, TypeOK, Product!StockInit, Product!StockTypeOK
  <1>3. released = {} /\ reserved = {} BY DEF Init, Product!StockInit
  <1>4. \A o \in Orders : order[o] = NoOrder BY DEF Init
  <1>5. \A h \in Handlers : session[h] = Idle BY DEF Init
  <1>6. ReleaseMatchesClose /\ FlagFits /\ SourceFits
    BY <1>1, <1>3, <1>4 DEF ReleaseMatchesClose, FlagFits, SourceFits
  <1> QED BY <1>1, <1>2, <1>4, <1>5, <1>6 DEF LifecycleInv

LEMMA NextInv == LifecycleInv /\ [Next]_vars => LifecycleInv'
  <1> SUFFICES ASSUME LifecycleInv, [Next]_vars PROVE LifecycleInv' OBVIOUS
  <1>1. CASE \E c \in Clients, o \in Orders : Request(c, o) BY <1>1, RequestKeepsInv
  <1>2. CASE \E j \in Jobs, o \in Orders : TimeoutJob(j, o)
    BY <1>2, TimeoutJobKeepsInv
  <1>3. CASE \E h \in Handlers : Continue(h) \/ Fail(h)
    BY <1>3, ContinueKeepsInv
  <1>4. CASE SetProductShelf
    <2>1. /\ UNCHANGED <<order, session, feed, stock, reserved, released>>
          /\ onShelf' \in BOOLEAN
      BY <1>4 DEF SetProductShelf, Product!SetShelf
    <2>2. TypeOK' BY <2>1 DEF LifecycleInv, TypeOK, Product!StockTypeOK
    <2> QED BY <2>1, <2>2, QuietStepKeepsInv
  <1>5. CASE UNCHANGED vars
    <2>1. TypeOK' BY <1>5 DEF vars, LifecycleInv, TypeOK, Product!StockTypeOK
    <2> QED BY <1>5, <2>1, QuietStepKeepsInv DEF vars
  <1> QED BY <1>1, <1>2, <1>3, <1>4, <1>5 DEF Next

(* The inductive invariant holds in every reachable state, whatever handlers*)
(* interleave and fail.                                                    *)
THEOREM LifecycleCorrect == Spec => []LifecycleInv
  BY InitInv, NextInv, PTL DEF Spec

(* Every variable of the order service keeps its type.                     *)
THEOREM TypeCorrect == Spec => []TypeOK
  <1>1. LifecycleInv => TypeOK BY DEF LifecycleInv
  <1> QED BY <1>1, LifecycleCorrect, PTL

(* Stock goes back only for a closed order, under the one key of the reason *)
(* it was closed for: no race between the handlers that close an order      *)
(* makes product-rpc add a unit twice.                                     *)
THEOREM ReleasesMatchCloses == Spec => []ReleaseMatchesClose
  <1>1. LifecycleInv => ReleaseMatchesClose BY DEF LifecycleInv
  <1> QED BY <1>1, LifecycleCorrect, PTL

(* The money of an order is refunded or being refunded exactly when it was  *)
(* paid and then closed without being delivered.                           *)
THEOREM RefundsMatchCloses == Spec => []RefundIffPaidAndAbandoned
  <1>1. LifecycleInv => RefundIffPaidAndAbandoned
    BY DEF LifecycleInv, TypeOK, OrderRow, Statuses, CloseReasons, RowFits,
       RefundIffPaidAndAbandoned, Abandoned, ReleaseReasons
  <1> QED BY <1>1, LifecycleCorrect, PTL

(* What leaves the warehouse was paid, passed its review and is not being   *)
(* refunded.                                                               *)
THEOREM ShipmentsArePaid == Spec => []ShippedWasPaidAndReviewed
  <1>1. LifecycleInv => ShippedWasPaidAndReviewed
    BY DEF LifecycleInv, TypeOK, OrderRow, Statuses, CloseReasons, RowFits,
       ShippedWasPaidAndReviewed, ReleaseReasons
  <1> QED BY <1>1, LifecycleCorrect, PTL

(* A normal order is flagged as released only after its unit is back in     *)
(* stock, so the retry job never gives up on a unit it still owes; from     *)
(* whatever sources CreateOrder is called with besides.                     *)
THEOREM FlagsAreTrue == Spec => []FlaggedMeansReturned
  <1>1. LifecycleInv => FlaggedMeansReturned
    <2> SUFFICES ASSUME LifecycleInv, NEW o \in Orders, order[o].source = "normal",
                        order[o].stockReleased
                 PROVE  \E s \in ReleaseSuffixes : <<o, s>> \in released
      BY DEF FlaggedMeansReturned
    <2>1. order[o].reason \in ReleaseReasons
      BY DEF LifecycleInv, RowFits
    <2>2. UnitBack(o) BY DEF LifecycleInv, FlagFits
    <2>3. ReleaseSuffix[order[o].reason] \in ReleaseSuffixes
      BY <2>1 DEF ReleaseSuffix, ReleaseReasons, ReleaseSuffixes, Suffixes
    <2> QED BY <2>2, <2>3 DEF UnitBack
  <1> QED BY <1>1, LifecycleCorrect, PTL
=============================================================================
