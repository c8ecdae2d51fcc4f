--------------------------- MODULE OrderLifecycle ---------------------------
(***************************************************************************)
(* order-rpc: the orders table, the RPC handlers and the timeout job that  *)
(* move an order through its life, and the calls they make to product-rpc  *)
(* (stock) and to the seckill order feed.                                  *)
(*                                                                         *)
(* A handler is a process that goes through the steps of the code: it      *)
(* reads the order and checks it, updates it by one conditional UPDATE,    *)
(* gives the stock back, marks the order as released, reads it again and   *)
(* emits an event.  Other handlers run between any two of these steps.  A  *)
(* handler may give up before any step (Fail): an error of MySQL or of an  *)
(* RPC, a cancelled context, a killed process.  An RPC or an UPDATE that   *)
(* took effect though its caller saw an error is the step followed by      *)
(* Fail.                                                                   *)
(*                                                                         *)
(* Time is abstracted: a timeout job may find any order in the right state *)
(* to be due.  Ownership of orders (user_id) and free text are left out.   *)
(***************************************************************************)
EXTENDS Naturals, FiniteSets

CONSTANTS
  Orders,           \* order numbers, unique in the table (uk_orders_order_no)
  SeckillOrders,    \* those of the form SK..., created by CreateOrderFromSeckill
  LargeOrders,      \* orders of reviewAmountThresholdCent or more
  CreateSources,    \* order_source values CreateOrder is called with
  Clients,          \* concurrent RPC handlers
  Jobs,             \* timeout jobs, one per order-rpc process
  AmbiguousCommit,  \* may COMMIT of Create take effect and report an error?
  InitialStock

ASSUME OrderAssumption ==
  /\ SeckillOrders \subseteq Orders
  /\ LargeOrders \subseteq Orders
  /\ CreateSources \subseteq {"normal", "seckill"}
  /\ Clients \cap Jobs = {}
  /\ AmbiguousCommit \in BOOLEAN
  /\ InitialStock \in Nat

VARIABLES
  order,      \* the orders table; status "Absent" is no row
  session,    \* where each handler is
  feed,       \* events handed to EmitSeckillOrderEvent
  stock, onShelf, reserved, released   \* product-rpc, see ProductStock

Suffixes == {"reserve", "release:create_fail", "release:cancel",
             "release:pay_timeout", "release:review_reject",
             "release:review_timeout"}

Product == INSTANCE ProductStock WITH
  Keys <- Orders \X Suffixes

stockVars == <<stock, onShelf, reserved, released>>
vars == <<order, session, feed, stock, onShelf, reserved, released>>

-----------------------------------------------------------------------------
Statuses == {"Absent", "PendingPay", "PendingReview", "PendingShip",
             "Shipped", "Closed"}
ReleaseReasons == {"user_cancel", "pay_timeout", "audit_reject", "audit_timeout"}
CloseReasons == {"", "completed", "auto_completed"} \cup ReleaseReasons

OrderRow ==
  [status: Statuses, source: {"normal", "seckill"},
   payment: {"Unpaid", "Paid"},
   review: {"None", "ManualPending", "Passed", "Rejected", "TimeoutReject"},
   shipping: {"NotShipped", "Shipped", "Received"},
   refund: {"None", "Refunding", "Refunded"},
   stockReleased: BOOLEAN, reason: CloseReasons]

NoOrder ==
  [status |-> "Absent", source |-> "normal", payment |-> "Unpaid",
   review |-> "None", shipping |-> "NotShipped", refund |-> "None",
   stockReleased |-> FALSE, reason |-> ""]

NewOrder(source) == [NoOrder EXCEPT !.status = "PendingPay", !.source = source]

ClientOps == {"CreateOrder", "CreateOrderFromSeckill", "CancelUnpaid",
              "CancelPaidPendingReview", "MarkPaidAutoPass",
              "MarkPaidManualReview", "ReviewApprove", "ReviewReject",
              "Ship", "ConfirmReceipt"}
JobOps == {"ClosePayTimeout", "CloseReviewTimeoutRefunding",
           "StockReleaseRetry", "CompleteRefund", "AutoReceive"}

(* The fields seckill-rpc acts on; it never looks at the type of an event.  *)
Event == [order: Orders, status: Statuses,
          payment: {"Unpaid", "Paid"}, reason: CloseReasons]

Handlers == Clients \cup Jobs
Idle == [step |-> "idle"]
Busy == [step: {"reserve", "create", "compensate", "update", "release",
                "mark", "emit"},
         op: ClientOps \cup JobOps, order: Orders]

TypeOK ==
  /\ order \in [Orders -> OrderRow]
  /\ session \in [Handlers -> Busy \cup {Idle}]
  /\ feed \subseteq Event
  /\ Product!StockTypeOK

Init ==
  /\ order = [o \in Orders |-> NoOrder]
  /\ session = [h \in Handlers |-> Idle]
  /\ feed = {}
  /\ Product!StockInit

-----------------------------------------------------------------------------
(* Moving through a handler.                                               *)
Start(h, step, op, o) ==
  /\ session[h] = Idle
  /\ session' = [session EXCEPT ![h] = [step |-> step, op |-> op, order |-> o]]

At(h, step) == session[h] # Idle /\ session[h].step = step

Goto(h, step) == session' = [session EXCEPT ![h].step = step]

Return(h) == session' = [session EXCEPT ![h] = Idle]

(* Any error the code returns on, logs and skips, or dies of. *)
Fail(h) ==
  /\ session[h] # Idle
  /\ Return(h)
  /\ UNCHANGED <<order, feed, stockVars>>

-----------------------------------------------------------------------------
(* Creating an order.                                                      *)

(* The order number is a fresh snowflake id. *)
CreateOrder(c, o) ==
  /\ o \notin SeckillOrders
  /\ order[o] = NoOrder
  /\ <<o, "reserve">> \notin reserved
  /\ \A h \in Handlers : session[h] # Idle => session[h].order # o
  /\ onShelf
  /\ Start(c, "reserve", "CreateOrder", o)
  /\ UNCHANGED <<order, feed, stockVars>>

(* Faulty variant: the refusal of product-rpc is taken for success.        *)
ReserveIgnoringRefusal(h) ==
  /\ At(h, "reserve")
  /\ \/ Product!ReserveStock(<<session[h].order, "reserve">>, 1)
     \/ Product!ReserveRefused(<<session[h].order, "reserve">>, 1)
  /\ Goto(h, "create")
  /\ UNCHANGED <<order, feed>>

ReserveForOrder(h) ==
  /\ At(h, "reserve")
  /\ Product!ReserveStock(<<session[h].order, "reserve">>, 1)
  /\ Goto(h, "create")
  /\ UNCHANGED <<order, feed>>

CreateOrderFromSeckill(c, o) ==
  /\ o \in SeckillOrders
  /\ Start(c, "create", "CreateOrderFromSeckill", o)
  /\ UNCHANGED <<order, feed, stockVars>>

InsertRow(o, source) ==
  /\ order[o] = NoOrder
  /\ order' = [order EXCEPT ![o] = NewOrder(source)]

InsertOrder(h) ==
  /\ At(h, "create")
  /\ session[h].op = "CreateOrder"
  /\ \E source \in CreateSources : InsertRow(session[h].order, source)
  /\ Return(h)
  /\ UNCHANGED <<feed, stockVars>>

(* Create failed, or COMMIT took effect and its answer was lost: the code   *)
(* cannot tell and compensates.                                            *)
InsertOrderFailed(h) ==
  /\ At(h, "create")
  /\ session[h].op = "CreateOrder"
  /\ \/ UNCHANGED order
     \/ /\ AmbiguousCommit
        /\ \E source \in CreateSources : InsertRow(session[h].order, source)
  /\ Goto(h, "compensate")
  /\ UNCHANGED <<feed, stockVars>>

InsertSeckillOrder(h) ==
  /\ At(h, "create")
  /\ session[h].op = "CreateOrderFromSeckill"
  /\ InsertRow(session[h].order, "seckill")
  /\ Goto(h, "emit")
  /\ UNCHANGED <<feed, stockVars>>

(* uk_orders_order_no: findIdempotentSeckillOrder answers the stored order. *)
ReplaySeckillOrder(h) ==
  /\ At(h, "create")
  /\ session[h].op = "CreateOrderFromSeckill"
  /\ order[session[h].order] # NoOrder
  /\ Return(h)
  /\ UNCHANGED <<order, feed, stockVars>>

CompensateReleaseStock(h) ==
  /\ At(h, "compensate")
  /\ Product!ReleaseStock(<<session[h].order, "release:create_fail">>, 1)
  /\ Return(h)
  /\ UNCHANGED <<order, feed>>

-----------------------------------------------------------------------------
(* What each handler reads and checks before it updates.                   *)
StartUpdate(h, op, o) ==
  /\ Start(h, "update", op, o)
  /\ UNCHANGED <<order, feed, stockVars>>

IsUnpaid(row) == row.status = "PendingPay" /\ row.payment = "Unpaid"

IsManualPending(row) ==
  row.status = "PendingReview" /\ row.review = "ManualPending"

IsManualPendingForCancel(row) == IsManualPending(row) /\ row.payment = "Paid"

IsShipped(row) == row.status = "Shipped" /\ row.shipping = "Shipped"

NeedManualReview(o) == order[o].source = "seckill" \/ o \in LargeOrders

CancelOrder(c, o) ==
  \/ IsUnpaid(order[o]) /\ StartUpdate(c, "CancelUnpaid", o)
  \/ IsManualPendingForCancel(order[o]) /\ StartUpdate(c, "CancelPaidPendingReview", o)

ConfirmPaymentAndInfo(c, o) ==
  /\ IsUnpaid(order[o])
  /\ \/ NeedManualReview(o) /\ StartUpdate(c, "MarkPaidManualReview", o)
     \/ ~ NeedManualReview(o) /\ StartUpdate(c, "MarkPaidAutoPass", o)

ReviewOrderAdmin(c, o) ==
  /\ IsManualPending(order[o])
  /\ \E op \in {"ReviewApprove", "ReviewReject"} : StartUpdate(c, op, o)

ShipOrderAdmin(c, o) ==
  /\ order[o].status = "PendingShip"
  /\ StartUpdate(c, "Ship", o)

ConfirmReceipt(c, o) ==
  /\ IsShipped(order[o])
  /\ StartUpdate(c, "ConfirmReceipt", o)

(* The timeout job: what each list query selects, one order at a time.     *)
HandlePayTimeout(j, o) ==
  /\ IsUnpaid(order[o])
  /\ StartUpdate(j, "ClosePayTimeout", o)

(* Faulty variant: the list query asks for unpaid orders.                  *)
ReviewTimeoutOfUnpaid(j, o) ==
  /\ IsManualPending(order[o]) /\ order[o].payment = "Unpaid"
  /\ StartUpdate(j, "CloseReviewTimeoutRefunding", o)

HandleReviewTimeout(j, o) ==
  /\ IsManualPending(order[o])
  /\ StartUpdate(j, "CloseReviewTimeoutRefunding", o)

(* Faulty variant: the list query forgets the orders users cancelled.      *)
RetryForgetsCancelled(j, o) ==
  /\ order[o].status = "Closed"
  /\ ~ order[o].stockReleased
  /\ order[o].reason \in ReleaseReasons \ {"user_cancel"}
  /\ Start(j, "release", "StockReleaseRetry", o)
  /\ UNCHANGED <<order, feed, stockVars>>

(* An order of seckill source is only marked. *)
HandleStockReleaseRetry(j, o) ==
  /\ order[o].status = "Closed"
  /\ ~ order[o].stockReleased
  /\ order[o].reason \in ReleaseReasons
  /\ \/ order[o].source = "seckill" /\ Start(j, "mark", "StockReleaseRetry", o)
     \/ order[o].source # "seckill" /\ Start(j, "release", "StockReleaseRetry", o)
  /\ UNCHANGED <<order, feed, stockVars>>

HandleRefundCompletion(j, o) ==
  /\ order[o].status = "Closed"
  /\ order[o].refund = "Refunding"
  /\ StartUpdate(j, "CompleteRefund", o)

HandleAutoReceive(j, o) ==
  /\ IsShipped(order[o])
  /\ StartUpdate(j, "AutoReceive", o)

-----------------------------------------------------------------------------
(* The conditional UPDATEs of the repository.  No row matched means         *)
(* ErrOrderStateConflict, on which every handler gives up: that is Fail.   *)
Row(h) == order[session[h].order]

(* Faulty variant: the UPDATE trusts the status read before.               *)
ExecUnconditionally(h, op, where, row, next) ==
  /\ At(h, "update")
  /\ session[h].op = op
  /\ order' = [order EXCEPT ![session[h].order] = row]
  /\ Goto(h, next)
  /\ UNCHANGED <<feed, stockVars>>

ExecWithEvent(h, op, where, row, next) ==
  /\ At(h, "update")
  /\ session[h].op = op
  /\ where
  /\ order' = [order EXCEPT ![session[h].order] = row]
  /\ Goto(h, next)
  /\ UNCHANGED <<feed, stockVars>>

(* A handler that closed an order gives the stock back next, unless the     *)
(* order came from the seckill flow.                                       *)
AfterClose(h) == IF Row(h).source = "seckill" THEN "mark" ELSE "release"

CancelUnpaid(h) ==
  ExecWithEvent(h, "CancelUnpaid", IsUnpaid(Row(h)),
    [Row(h) EXCEPT !.status = "Closed", !.reason = "user_cancel"],
    AfterClose(h))

CancelPaidPendingReview(h) ==
  ExecWithEvent(h, "CancelPaidPendingReview",
    Row(h).status = "PendingReview" /\ Row(h).payment = "Paid",
    [Row(h) EXCEPT !.status = "Closed", !.reason = "user_cancel",
                   !.refund = "Refunding"],
    AfterClose(h))

MarkPaidAutoPass(h) ==
  ExecWithEvent(h, "MarkPaidAutoPass", IsUnpaid(Row(h)),
    [Row(h) EXCEPT !.status = "PendingShip", !.payment = "Paid",
                   !.review = "Passed"],
    "emit")

MarkPaidManualReview(h) ==
  ExecWithEvent(h, "MarkPaidManualReview", IsUnpaid(Row(h)),
    [Row(h) EXCEPT !.status = "PendingReview", !.payment = "Paid",
                   !.review = "ManualPending"],
    "emit")

ReviewApprove(h) ==
  ExecWithEvent(h, "ReviewApprove", IsManualPending(Row(h)),
    [Row(h) EXCEPT !.status = "PendingShip", !.review = "Passed"],
    "emit")

ReviewReject(h) ==
  ExecWithEvent(h, "ReviewReject", IsManualPending(Row(h)),
    [Row(h) EXCEPT !.status = "Closed", !.reason = "audit_reject",
                   !.review = "Rejected", !.refund = "Refunding"],
    AfterClose(h))

Ship(h) ==
  ExecWithEvent(h, "Ship", Row(h).status = "PendingShip",
    [Row(h) EXCEPT !.status = "Shipped", !.shipping = "Shipped"],
    "emit")

UpdateReceived(h) ==
  ExecWithEvent(h, "ConfirmReceipt", IsShipped(Row(h)),
    [Row(h) EXCEPT !.status = "Closed", !.reason = "completed",
                   !.shipping = "Received"],
    "emit")

AutoReceive(h) ==
  ExecWithEvent(h, "AutoReceive", IsShipped(Row(h)),
    [Row(h) EXCEPT !.status = "Closed", !.reason = "auto_completed",
                   !.shipping = "Received"],
    "emit")

ClosePayTimeout(h) ==
  ExecWithEvent(h, "ClosePayTimeout", IsUnpaid(Row(h)),
    [Row(h) EXCEPT !.status = "Closed", !.reason = "pay_timeout"],
    AfterClose(h))

CloseReviewTimeoutRefunding(h) ==
  ExecWithEvent(h, "CloseReviewTimeoutRefunding", IsManualPending(Row(h)),
    [Row(h) EXCEPT !.status = "Closed", !.reason = "audit_timeout",
                   !.review = "TimeoutReject", !.refund = "Refunding"],
    AfterClose(h))

CompleteRefund(h) ==
  ExecWithEvent(h, "CompleteRefund",
    Row(h).status = "Closed" /\ Row(h).refund = "Refunding",
    [Row(h) EXCEPT !.refund = "Refunded"],
    "emit")

Update(h) ==
  \/ CancelUnpaid(h) \/ CancelPaidPendingReview(h)
  \/ MarkPaidAutoPass(h) \/ MarkPaidManualReview(h)
  \/ ReviewApprove(h) \/ ReviewReject(h)
  \/ Ship(h) \/ UpdateReceived(h) \/ AutoReceive(h)
  \/ ClosePayTimeout(h) \/ CloseReviewTimeoutRefunding(h)
  \/ CompleteRefund(h)

-----------------------------------------------------------------------------
(* After the UPDATE.                                                       *)

(* releaseSuffixFromCloseReason for the retry.  The other handlers name the *)
(* suffix of the close they just made, which is the one of its reason.     *)
ReleaseSuffix ==
  [reason \in ReleaseReasons |->
     CASE reason = "user_cancel" -> "release:cancel"
       [] reason = "pay_timeout" -> "release:pay_timeout"
       [] reason = "audit_reject" -> "release:review_reject"
       [] reason = "audit_timeout" -> "release:review_timeout"]

(* Faulty variant: the retry releases under a key of its own choice.       *)
RetryUnderOneSuffix(op, row) ==
  IF op = "StockReleaseRetry" THEN "release:cancel" ELSE ReleaseSuffix[row.reason]

HandlerSuffix(op, row) ==
  CASE op \in {"CancelUnpaid", "CancelPaidPendingReview"} -> "release:cancel"
    [] op = "ReviewReject" -> "release:review_reject"
    [] op = "ClosePayTimeout" -> "release:pay_timeout"
    [] op = "CloseReviewTimeoutRefunding" -> "release:review_timeout"
    [] op = "StockReleaseRetry" -> ReleaseSuffix[row.reason]

(* Faulty variant: a failed release is logged and the order is marked.     *)
ReleaseBestEffort(h) ==
  /\ At(h, "release")
  /\ \/ UNCHANGED stockVars
     \/ Product!ReleaseStock(
          <<session[h].order, HandlerSuffix(session[h].op, Row(h))>>, 1)
  /\ Goto(h, "mark")
  /\ UNCHANGED <<order, feed>>

ReleaseStockForOrder(h) ==
  /\ At(h, "release")
  /\ Product!ReleaseStock(
       <<session[h].order, HandlerSuffix(session[h].op, Row(h))>>, 1)
  /\ Goto(h, "mark")
  /\ UNCHANGED <<order, feed>>

(* Marking an order twice is no error.                                     *)
MarkStockReleased(h) ==
  /\ At(h, "mark")
  /\ order' = [order EXCEPT ![session[h].order].stockReleased = TRUE]
  /\ IF session[h].op = "StockReleaseRetry" THEN Return(h) ELSE Goto(h, "emit")
  /\ UNCHANGED <<feed, stockVars>>

(* The two closing jobs log a failed mark and go on.                       *)
MarkSkipped(h) ==
  /\ At(h, "mark")
  /\ session[h].op \in {"ClosePayTimeout", "CloseReviewTimeoutRefunding"}
  /\ Goto(h, "emit")
  /\ UNCHANGED <<order, feed, stockVars>>

(* A created event carries the row as it was inserted; the others the row   *)
(* read just before.  Only seckill orders with an activity emit.           *)
EmittedRow(op, row) ==
  IF op = "CreateOrderFromSeckill" THEN NewOrder("seckill") ELSE row

EmitSeckillOrderStateEvent(h) ==
  /\ At(h, "emit")
  /\ feed' =
       IF session[h].order \notin SeckillOrders THEN feed
       ELSE LET row == EmittedRow(session[h].op, Row(h)) IN
            feed \cup {[order |-> session[h].order, status |-> row.status,
                         payment |-> row.payment, reason |-> row.reason]}
  /\ Return(h)
  /\ UNCHANGED <<order, stockVars>>

Continue(h) ==
  \/ ReserveForOrder(h)
  \/ InsertOrder(h) \/ InsertOrderFailed(h)
  \/ InsertSeckillOrder(h) \/ ReplaySeckillOrder(h)
  \/ CompensateReleaseStock(h)
  \/ Update(h)
  \/ ReleaseStockForOrder(h)
  \/ MarkStockReleased(h) \/ MarkSkipped(h)
  \/ EmitSeckillOrderStateEvent(h)

SetProductShelf ==
  /\ \E on \in BOOLEAN : Product!SetShelf(on)
  /\ UNCHANGED <<order, session, feed>>

Request(c, o) ==
  \/ CreateOrder(c, o) \/ CreateOrderFromSeckill(c, o)
  \/ CancelOrder(c, o) \/ ConfirmPaymentAndInfo(c, o)
  \/ ReviewOrderAdmin(c, o) \/ ShipOrderAdmin(c, o) \/ ConfirmReceipt(c, o)

TimeoutJob(j, o) ==
  \/ HandlePayTimeout(j, o) \/ HandleReviewTimeout(j, o)
  \/ HandleStockReleaseRetry(j, o) \/ HandleRefundCompletion(j, o)
  \/ HandleAutoReceive(j, o)

Next ==
  \/ \E c \in Clients, o \in Orders : Request(c, o)
  \/ \E j \in Jobs, o \in Orders : TimeoutJob(j, o)
  \/ \E h \in Handlers : Continue(h) \/ Fail(h)
  \/ SetProductShelf

Spec == Init /\ [][Next]_vars

-----------------------------------------------------------------------------
(* Properties.                                                             *)

ReleaseSuffixes == Suffixes \ {"reserve"}

Abandoned(o) == order[o].status = "Closed" /\ order[o].reason \in ReleaseReasons

(* Stock goes back under the suffix of the reason the order was closed for, *)
(* and never before it is closed: a handler that lost the race for the      *)
(* UPDATE (a payment against the timeout job, a cancel against a review)    *)
(* must not reach product-rpc.                                             *)
ReleaseMatchesClose ==
  \A o \in Orders, s \in ReleaseSuffixes \ {"release:create_fail"} :
    <<o, s>> \in released =>
      /\ Abandoned(o)
      /\ s = ReleaseSuffix[order[o].reason]
      /\ order[o].source = "normal"

(* product-rpc only recognises a repetition of one key, and an order has    *)
(* five keys to release under: at most one of them is ever used.           *)
ReleasedAtMostOnce ==
  \A o \in Orders, s, t \in ReleaseSuffixes :
    <<o, s>> \in released /\ <<o, t>> \in released => s = t

HoldsUnit(o) ==
  /\ <<o, "reserve">> \in reserved
  /\ \A s \in ReleaseSuffixes : <<o, s>> \notin released

(* An order of CreateOrder that may still be delivered, or was, has a unit  *)
(* of the product: the stock was taken before the row was written and was   *)
(* not given back behind its back by the compensation or the retry job.    *)
LiveOrderHoldsUnit ==
  \A o \in Orders \ SeckillOrders :
    order[o].status # "Absent" /\ ~ Abandoned(o) => HoldsUnit(o)

(* The flag stock_released, which stops the retry job, is only set once the *)
(* unit is back in products.stock.  It speaks of the orders whose source is *)
(* "normal": CreateOrder also takes "seckill" from its caller, and the flag *)
(* of such an order is set without a call to product-rpc.                   *)
FlaggedMeansReturned ==
  \A o \in Orders :
    /\ order[o].source = "normal"
    /\ order[o].stockReleased
    /\ <<o, "reserve">> \in reserved
    => \E s \in ReleaseSuffixes : <<o, s>> \in released

(* Money goes back exactly for the paid orders that were closed undelivered,*)
(* whichever of cancel, review and timeout got there first.                *)
RefundIffPaidAndAbandoned ==
  \A o \in Orders :
    order[o].refund # "None" <=> Abandoned(o) /\ order[o].payment = "Paid"

(* Goods leave only for an order that is paid and passed its review, which  *)
(* for seckill and large orders is a review by an administrator: Ship tests *)
(* the status alone.                                                       *)
ShippedWasPaidAndReviewed ==
  \A o \in Orders :
    order[o].shipping # "NotShipped" =>
      /\ order[o].payment = "Paid"
      /\ order[o].review = "Passed"
      /\ order[o].refund = "None"

Rank == [s \in Statuses |->
  CASE s = "Absent" -> 0 [] s = "PendingPay" -> 1 [] s = "PendingReview" -> 2
    [] s = "PendingShip" -> 3 [] s = "Shipped" -> 4 [] s = "Closed" -> 5]

(* seckill-rpc gives activity stock back, or counts a completed purchase,   *)
(* on the close_reason of an event alone: an event never tells a status or  *)
(* a reason the order has not reached.                                     *)
FeedNeverAhead ==
  \A e \in feed :
    /\ Rank[e.status] <= Rank[order[e.order].status]
    /\ e.reason # "" => e.reason = order[e.order].reason
    /\ e.payment = "Paid" => order[e.order].payment = "Paid"

(* A closed order is final: it is not reopened, why it was closed is not    *)
(* rewritten, and its refund and release flag only go forward.             *)
ClosedIsFinal ==
  [][\A o \in Orders : order[o].status = "Closed" =>
       /\ order'[o] = [order[o] EXCEPT !.refund = order'[o].refund,
                                      !.stockReleased = order'[o].stockReleased]
       /\ order[o].stockReleased => order'[o].stockReleased
       /\ order'[o].refund # order[o].refund =>
            order[o].refund = "Refunding" /\ order'[o].refund = "Refunded"]_vars

(* There are never more orders of CreateOrder open or delivered than units  *)
(* entered into stock.                                                     *)
NoOversell ==
  Cardinality({o \in Orders \ SeckillOrders :
                 order[o].status # "Absent" /\ ~ Abandoned(o)}) <= InitialStock

-----------------------------------------------------------------------------
(* The inductive invariant behind the safety properties: what a row looks   *)
(* like in each status, what a handler knows at each step, and what the     *)
(* product keys say about the row.                                         *)

RowFits(row) ==
  /\ row.status = "Absent" => row = NoOrder
  /\ row.status = "PendingPay" => row.payment = "Unpaid"
  /\ row.status = "PendingReview" => row.payment = "Paid"
  /\ row.status \in {"PendingShip", "Shipped"} =>
       row.payment = "Paid" /\ row.review = "Passed"
  /\ row.status = "Shipped" <=> row.shipping = "Shipped"
  /\ row.status # "Closed" =>
       row.reason = "" /\ row.refund = "None" /\ row.shipping # "Received"
  /\ row.status = "Closed" => row.reason # ""
  /\ row.reason \in ReleaseReasons =>
       /\ row.shipping = "NotShipped"
       /\ row.refund # "None" <=> row.payment = "Paid"
  /\ row.reason \in {"completed", "auto_completed"} =>
       /\ row.payment = "Paid" /\ row.review = "Passed"
       /\ row.refund = "None"
  /\ row.stockReleased => row.reason \in ReleaseReasons

ReleasingOps == {"CancelUnpaid", "CancelPaidPendingReview", "ReviewReject",
                 "ClosePayTimeout", "CloseReviewTimeoutRefunding",
                 "StockReleaseRetry"}

UnitBack(o) == <<o, ReleaseSuffix[order[o].reason]>> \in released

SessionFits(s) ==
  /\ s.step \in {"release", "mark"} =>
       s.op \in ReleasingOps /\ Abandoned(s.order)
  /\ s.step = "release" =>
       /\ order[s.order].source = "normal"
       /\ HandlerSuffix(s.op, order[s.order]) = ReleaseSuffix[order[s.order].reason]
  /\ s.step = "mark" /\ order[s.order].source = "normal" => UnitBack(s.order)
  /\ s.step \in {"reserve", "compensate"} => s.op = "CreateOrder"
  /\ s.step \in {"reserve", "create", "compensate"} =>
       (s.op = "CreateOrder" <=> s.order \notin SeckillOrders)

FlagFits ==
  \A o \in Orders :
    order[o].stockReleased /\ order[o].source = "normal" => UnitBack(o)

SourceFits ==
  \A o \in Orders :
    /\ <<o, "reserve">> \in reserved => o \notin SeckillOrders
    /\ o \notin SeckillOrders /\ order[o].status # "Absent" =>
         order[o].source \in CreateSources

LifecycleInv ==
  /\ TypeOK
  /\ \A o \in Orders : RowFits(order[o])
  /\ \A h \in Handlers : session[h] # Idle => SessionFits(session[h])
  /\ ReleaseMatchesClose
  /\ FlagFits
  /\ SourceFits

-----------------------------------------------------------------------------
(* Refinement of OrderPromise.                                             *)

PhaseOf(row) ==
  CASE row.status = "Absent" -> "none"
    [] row.status = "PendingPay" -> "open"
    [] row.status = "PendingReview" -> "review"
    [] row.status = "PendingShip" -> "accepted"
    [] row.status = "Shipped" -> "shipped"
    [] row.status = "Closed" ->
         IF row.reason \in ReleaseReasons THEN "abandoned" ELSE "completed"

MoneyOf(row) ==
  CASE row.payment = "Unpaid" -> "none"
    [] row.payment = "Paid" /\ row.refund = "None" -> "taken"
    [] row.payment = "Paid" /\ row.refund = "Refunding" -> "owed"
    [] row.payment = "Paid" /\ row.refund = "Refunded" -> "returned"

UnitOf(o) ==
  IF <<o, "reserve">> \notin reserved THEN "none"
  ELSE IF HoldsUnit(o) THEN "held" ELSE "returned"

Promise == INSTANCE OrderPromise WITH
  StockOrders <- Orders \ SeckillOrders,
  phase <- [o \in Orders |-> PhaseOf(order[o])],
  money <- [o \in Orders |-> MoneyOf(order[o])],
  unit <- [o \in Orders |-> UnitOf(o)]

(* Every step of a handler, of the timeout job or of a failure is one step  *)
(* of the promise or none.                                                 *)
KeepsPromise == Promise!Safety

-----------------------------------------------------------------------------
(* Liveness.  The timeout job of an order-rpc runs every minute.  Its       *)
(* failures are transient: what it attempts for an order again and again    *)
(* succeeds in the end.  Nothing is assumed of clients.                    *)

JobStep(A(_), o) ==
  \E j \in Jobs : session[j] # Idle /\ session[j].order = o /\ A(j)

Fairness ==
  /\ \A h \in Handlers : WF_vars(Continue(h) \/ Fail(h))
  /\ \A o \in Orders :
       /\ SF_vars(\E j \in Jobs : HandlePayTimeout(j, o))
       /\ SF_vars(\E j \in Jobs : HandleReviewTimeout(j, o))
       /\ SF_vars(\E j \in Jobs : HandleStockReleaseRetry(j, o))
       /\ SF_vars(\E j \in Jobs : HandleRefundCompletion(j, o))
       /\ SF_vars(\E j \in Jobs : HandleAutoReceive(j, o))
       /\ SF_vars(JobStep(Update, o))
       /\ SF_vars(JobStep(ReleaseStockForOrder, o))
       /\ SF_vars(JobStep(MarkStockReleased, o))

FairSpec == Spec /\ Fairness

(* The promise with its fairness: a refund that is owed is paid, and the    *)
(* unit of an abandoned order returns to stock, though the handler that     *)
(* closed the order may fail right after the UPDATE.                       *)
KeepsPromiseInTheEnd == Promise!Spec

(* An order does not wait for its buyer or for a reviewer for ever.        *)
NobodyWaitsForEver ==
  \A o \in Orders, s \in {"PendingPay", "PendingReview", "Shipped"} :
    order[o].status = s ~> order[o].status # s

(* timeout_job_logic.go:118 says the job retries closed orders whose stock  *)
(* could not be given back.  The stock of a seckill order is given back by  *)
(* seckill-rpc when it hears the close_reason.                             *)
AbandonedIsAnnounced ==
  \A o \in SeckillOrders :
    Abandoned(o) ~> \E e \in feed : e.order = o /\ e.reason # ""
=============================================================================
