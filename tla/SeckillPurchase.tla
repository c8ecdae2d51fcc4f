--------------------------- MODULE SeckillPurchase ---------------------------
(***************************************************************************)
(* Buying an activity item.  A purchase attempt in seckill-rpc takes a     *)
(* piece in Redis and hands the order to Kafka; when that fails it takes a *)
(* piece in MySQL too and creates the order by RPC, and gives back what it *)
(* took if the RPC refuses.  A consumer in order-rpc creates the orders    *)
(* that come over Kafka, or asks over another topic for the piece in Redis *)
(* to be given back.  When order-rpc closes an order unfulfilled,          *)
(* seckill-rpc hears of it and gives the piece back in both stores.        *)
(*                                                                         *)
(* Each of these is a process; they interleave between any two calls to    *)
(* Redis, MySQL, Kafka or order-rpc, and may stop (Crash) between them.    *)
(* A client may repeat a request under the same idempotency key.  Messages *)
(* are delivered at least once and in any order: a topic is a set, and a   *)
(* message may stay in it after it was handled (a lost offset commit, or a *)
(* second message for the same order).                                     *)
(*                                                                         *)
(* The activity is published, its time window open, and its stock key is   *)
(* in Redis; ActivityPublish is about the rest.                            *)
(***************************************************************************)
EXTENDS Integers, FiniteSets

CONSTANTS
  Requests, UserOf, KeyOf, UserLimitQty,   \* see ActivityStock
  Attempts,              \* purchase handlers running at once
  Consumers,             \* create-topic consumers in order-rpc
  ReservedStockTotal,    \* pieces the activity was published with
  MaxTries,              \* bound: purchases of one request
  Faults                 \* what else may happen

(* "overlap": a client repeats a request before the first try is answered. *)
(* "redis_error": the reserve script fails, or its answer is lost.         *)
(* "lost_ack": a message is stored though Publish reports an error.        *)
(* "create_failed": the create consumer runs out of retries.               *)
(* "commit_lost": it does so though one of its tries stored the order.     *)
AllFaults ==
  {"overlap", "redis_error", "lost_ack", "create_failed", "commit_lost"}

ASSUME PurchaseAssumption ==
  /\ UserLimitQty \in Nat
  /\ ReservedStockTotal \in Nat
  /\ MaxTries \in Nat
  /\ Faults \subseteq AllFaults

VARIABLES
  attempt,           \* where each purchase handler is
  tries,             \* purchases of each request so far, for MaxTries only
  consumer,          \* where each create consumer is
  order,             \* orders by request: order_no is built from it
  createTopic,       \* seckill_purchase_create
  compensateTopic,   \* stock_compensate
  closeTopic,        \* seckill order states with a close_reason that releases
  cacheStock, bought, requestKeys, releaseTokens, closeKeys, available, ledger

Stock == INSTANCE ActivityStock

topics == <<createTopic, compensateTopic, closeTopic>>
cacheVars == <<cacheStock, bought, requestKeys, releaseTokens, closeKeys>>
dbVars == <<available, ledger>>
stockVars == <<cacheVars, dbVars>>
vars == <<attempt, tries, consumer, order, topics, stockVars>>

-----------------------------------------------------------------------------
Idle == [step |-> "idle"]

Steps == {"cache", "publish", "db", "order", "replay", "compensate", "rollback"}

Busy == [step: Steps,
         req: Requests,
         cached: BOOLEAN,      \* cacheReserved
         conflict: BOOLEAN,    \* reserveConflict
         suffix: Stock!CompensateSuffixes]

Consuming == [step: {"create", "compensate"}, req: Requests]

TypeOK ==
  /\ attempt \in [Attempts -> Busy \cup {Idle}]
  /\ tries \in [Requests -> 0..MaxTries]
  /\ consumer \in [Consumers -> Consuming \cup {Idle}]
  /\ order \in [Requests -> {"none", "live", "closed"}]
  /\ createTopic \subseteq Requests
  /\ compensateTopic \subseteq Requests
  /\ closeTopic \subseteq Requests
  /\ Stock!StockTypeOK

Init ==
  /\ attempt = [a \in Attempts |-> Idle]
  /\ tries = [r \in Requests |-> 0]
  /\ consumer = [k \in Consumers |-> Idle]
  /\ order = [r \in Requests |-> "none"]
  /\ createTopic = {}
  /\ compensateTopic = {}
  /\ closeTopic = {}
  /\ Stock!StockInit(ReservedStockTotal, ReservedStockTotal)

-----------------------------------------------------------------------------
(* order-rpc.                                                              *)

(* CreateOrderFromSeckill: the row is inserted, or the stored one answered. *)
OrderStored(r) ==
  order' = [order EXCEPT ![r] = IF @ = "none" THEN "live" ELSE @]

(* An error the caller cannot interpret. *)
OrderMaybeStored(r) == OrderStored(r) \/ UNCHANGED order

(* Any unfulfilled close of OrderLifecycle; its event may be lost. *)
CloseOrder(r) ==
  /\ order[r] = "live"
  /\ order' = [order EXCEPT ![r] = "closed"]
  /\ closeTopic' \in {closeTopic, closeTopic \cup {r}}
  /\ UNCHANGED <<attempt, tries, consumer, createTopic, compensateTopic,
                 stockVars>>

-----------------------------------------------------------------------------
(* Purchase.                                                               *)
At(a, step) == attempt[a] # Idle /\ attempt[a].step = step
Req(a) == attempt[a].req
Goto(a, step) == attempt' = [attempt EXCEPT ![a].step = step]
Return(a) == attempt' = [attempt EXCEPT ![a] = Idle]

Purchase(a, r) ==
  /\ attempt[a] = Idle
  /\ tries[r] < MaxTries
  /\ tries' = [tries EXCEPT ![r] = @ + 1]
  /\ "overlap" \in Faults \/ \A b \in Attempts : attempt[b] # Idle => Req(b) # r
  /\ attempt' = [attempt EXCEPT ![a] =
       [step |-> "cache", req |-> r, cached |-> FALSE, conflict |-> FALSE,
        suffix |-> "order_fail"]]
  /\ UNCHANGED <<consumer, order, topics, stockVars>>

ReservePurchaseInCache(a) ==
  /\ At(a, "cache")
  /\ \/ /\ Stock!CacheReserved(Req(a))
        /\ attempt' = [attempt EXCEPT ![a] =
             [@ EXCEPT !.step = "publish", !.cached = TRUE]]
     \/ Stock!CacheRefused(Req(a)) /\ Return(a)
     \/ Stock!CacheDuplicate(Req(a)) /\ Goto(a, "db")
     \/ /\ "redis_error" \in Faults
        /\ UNCHANGED cacheVars \/ Stock!CacheReserved(Req(a))
        /\ Goto(a, "db")
  /\ UNCHANGED <<tries, consumer, order, topics, dbVars>>

TryAsyncKafkaPath(a) ==
  /\ At(a, "publish")
  /\ \/ createTopic' = createTopic \cup {Req(a)} /\ Return(a)
     \/ UNCHANGED createTopic /\ Goto(a, "db")
     \/ /\ "lost_ack" \in Faults
        /\ createTopic' = createTopic \cup {Req(a)}
        /\ Goto(a, "db")
  /\ UNCHANGED <<tries, consumer, order, compensateTopic, closeTopic, stockVars>>

GiveUp(a) == IF attempt[a].cached THEN Goto(a, "rollback") ELSE Return(a)

(* The last disjunct: an error of MySQL, before or after COMMIT.           *)
ReserveDBAndHandleConflict(a) ==
  /\ At(a, "db")
  /\ \/ Stock!ReservePurchase(Req(a), TRUE) /\ Goto(a, "order")
     \/ /\ Stock!ReserveConflict(Req(a))
        /\ attempt' = [attempt EXCEPT ![a] =
             [@ EXCEPT !.step = "order", !.conflict = TRUE]]
     \/ Stock!ReserveMissed(Req(a), TRUE) /\ GiveUp(a)
     \/ /\ UNCHANGED dbVars \/ Stock!ReservePurchase(Req(a), TRUE)
        /\ GiveUp(a)
  /\ UNCHANGED <<tries, consumer, order, topics, cacheVars>>

OrderCreated(a) ==
  /\ At(a, "order") \/ At(a, "replay")
  /\ OrderStored(Req(a))
  /\ Return(a)
  /\ UNCHANGED <<tries, consumer, topics, stockVars>>

(* Faulty variant: a conflict compensates as well.                         *)
RefusedAlwaysCompensates(a) ==
  /\ At(a, "order")
  /\ \E suffix \in Stock!CompensateSuffixes :
       attempt' = [attempt EXCEPT ![a] =
         [@ EXCEPT !.step = "compensate", !.suffix = suffix]]
  /\ UNCHANGED <<tries, consumer, order, topics, stockVars>>

(* No token, no slot, or an error that says no order was stored.           *)
OrderRefused(a) ==
  /\ At(a, "order")
  /\ IF attempt[a].conflict THEN Return(a)
     ELSE \E suffix \in Stock!CompensateSuffixes :
            attempt' = [attempt EXCEPT ![a] =
              [@ EXCEPT !.step = "compensate", !.suffix = suffix]]
  /\ UNCHANGED <<tries, consumer, order, topics, stockVars>>

(* Faulty variant: an answer that says nothing is taken for a refusal.     *)
PendingGivesUp(a) ==
  /\ At(a, "order") \/ At(a, "replay")
  /\ OrderMaybeStored(Req(a))
  /\ GiveUp(a)
  /\ UNCHANGED <<tries, consumer, topics, stockVars>>

(* A timeout or an error of MySQL: the code leaves everything as it is, and *)
(* after a conflict tries once more.                                       *)
OrderPending(a) ==
  /\ At(a, "order") \/ At(a, "replay")
  /\ OrderMaybeStored(Req(a))
  /\ \/ Return(a)
     \/ At(a, "order") /\ attempt[a].conflict /\ Goto(a, "replay")
  /\ UNCHANGED <<tries, consumer, topics, stockVars>>

CompensateRelease(a) ==
  /\ At(a, "compensate")
  /\ \/ Stock!CompensateReleasePurchase(Req(a), attempt[a].suffix)
     \/ UNCHANGED dbVars
  /\ GiveUp(a)
  /\ UNCHANGED <<tries, consumer, order, topics, cacheVars>>

RollbackReserveInCache(a) ==
  /\ At(a, "rollback")
  /\ Stock!RollbackReserve(Req(a)) \/ UNCHANGED cacheVars
  /\ Return(a)
  /\ UNCHANGED <<tries, consumer, order, topics, dbVars>>

Crash(a) ==
  /\ attempt[a] # Idle
  /\ Return(a)
  /\ UNCHANGED <<tries, consumer, order, topics, stockVars>>

-----------------------------------------------------------------------------
(* RunSeckillPurchaseCreateConsumer.                                       *)
Consumes(k, step) == consumer[k] # Idle /\ consumer[k].step = step

Poll(k, r) ==
  /\ consumer[k] = Idle
  /\ r \in createTopic
  /\ consumer' = [consumer EXCEPT ![k] = [step |-> "create", req |-> r]]
  /\ UNCHANGED <<attempt, tries, order, topics, stockVars>>

(* The offset of the message is committed, or the commit is lost.          *)
Handled(k) ==
  /\ createTopic' \in {createTopic, createTopic \ {consumer[k].req}}
  /\ consumer' = [consumer EXCEPT ![k] = Idle]

ConsumePurchaseCreate(k) ==
  /\ Consumes(k, "create")
  /\ OrderStored(consumer[k].req)
  /\ Handled(k)
  /\ UNCHANGED <<attempt, tries, compensateTopic, closeTopic, stockVars>>

RetriesExhausted(k) ==
  /\ Consumes(k, "create")
  /\ \/ "create_failed" \in Faults /\ UNCHANGED order
     \/ "commit_lost" \in Faults /\ OrderStored(consumer[k].req)
  /\ consumer' = [consumer EXCEPT ![k].step = "compensate"]
  /\ UNCHANGED <<attempt, tries, topics, stockVars>>

(* Faulty variant: the failure goes to the dead letters only.              *)
DeadLetterOnly(k) ==
  /\ Consumes(k, "compensate")
  /\ Handled(k)
  /\ UNCHANGED <<attempt, tries, order, compensateTopic, closeTopic, stockVars>>

PublishStockCompensate(k) ==
  /\ Consumes(k, "compensate")
  /\ compensateTopic' = compensateTopic \cup {consumer[k].req}
  /\ Handled(k)
  /\ UNCHANGED <<attempt, tries, order, closeTopic, stockVars>>

(* A handler error or a crash: the message is delivered again. *)
ConsumerStops(k) ==
  /\ consumer[k] # Idle
  /\ consumer' = [consumer EXCEPT ![k] = Idle]
  /\ UNCHANGED <<attempt, tries, order, topics, stockVars>>

-----------------------------------------------------------------------------
(* The consumers of seckill-rpc.                                           *)

ConsumeStockCompensate(r) ==
  /\ r \in compensateTopic
  /\ Stock!RollbackByReleaseToken(r)
  /\ compensateTopic' \in {compensateTopic, compensateTopic \ {r}}
  /\ UNCHANGED <<attempt, tries, consumer, order, createTopic, closeTopic, dbVars>>

(* consumeOrderStateMessage: MySQL first, then Redis, whose error is logged *)
(* and forgotten.                                                          *)
ReleaseClosedInDB(r) ==
  /\ r \in closeTopic
  /\ Stock!ReleasePurchaseByOrder(r)
  /\ UNCHANGED <<attempt, tries, consumer, order, topics, cacheVars>>

(* Faulty variant: Redis does not wait for MySQL.                          *)
ReleaseCacheFirst(r) ==
  /\ r \in closeTopic
  /\ Stock!ReleaseByClose(r)
  /\ closeTopic' \in {closeTopic, closeTopic \ {r}}
  /\ UNCHANGED <<attempt, tries, consumer, order, createTopic, compensateTopic,
                 dbVars>>

ReleaseClosedInCache(r) ==
  /\ r \in closeTopic
  /\ Stock!CloseKey(r) \in ledger
  /\ Stock!ReleaseByClose(r) \/ UNCHANGED cacheVars
  /\ closeTopic' \in {closeTopic, closeTopic \ {r}}
  /\ UNCHANGED <<attempt, tries, consumer, order, createTopic, compensateTopic,
                 dbVars>>

RequestKeyExpires(r) ==
  /\ Stock!RequestKeyExpires(r)
  /\ UNCHANGED <<attempt, tries, consumer, order, topics, dbVars>>

-----------------------------------------------------------------------------
Continue(a) ==
  \/ ReservePurchaseInCache(a) \/ TryAsyncKafkaPath(a)
  \/ ReserveDBAndHandleConflict(a)
  \/ OrderCreated(a) \/ OrderRefused(a) \/ OrderPending(a)
  \/ CompensateRelease(a) \/ RollbackReserveInCache(a)

Consume(k) ==
  ConsumePurchaseCreate(k) \/ RetriesExhausted(k) \/ PublishStockCompensate(k)

Next ==
  \/ \E a \in Attempts : Continue(a) \/ Crash(a)
  \/ \E a \in Attempts, r \in Requests : Purchase(a, r)
  \/ \E k \in Consumers : Consume(k) \/ ConsumerStops(k)
  \/ \E k \in Consumers, r \in Requests : Poll(k, r)
  \/ \E r \in Requests :
       \/ CloseOrder(r)
       \/ ConsumeStockCompensate(r)
       \/ ReleaseClosedInDB(r) \/ ReleaseClosedInCache(r)
       \/ RequestKeyExpires(r)

Spec == Init /\ [][Next]_vars

-----------------------------------------------------------------------------
(* Properties.                                                             *)

Live == {r \in Requests : order[r] = "live"}

(* Never more orders to fulfil than pieces in the activity, though the     *)
(* code decides in Redis, falls back to MySQL and repairs over Kafka.      *)
NoOversell == Cardinality(Live) <= ReservedStockTotal

InFlight(r) ==
  \/ r \in createTopic
  \/ \E a \in Attempts : attempt[a] # Idle /\ Req(a) = r /\ attempt[a].cached

Holds(r) == order[r] = "live" \/ (order[r] = "none" /\ InFlight(r))

(* No piece is put back in Redis while an order, a message or a purchase   *)
(* under way still counts on it.                                           *)
CacheCoversOrders ==
  cacheStock + Cardinality({r \in Requests : Holds(r)}) <= ReservedStockTotal

(* A user does not end up with more pieces than the limit, through retries, *)
(* roll-backs and releases that all move the same counter.                 *)
LimitRespected ==
  UserLimitQty > 0 =>
    \A u \in Stock!Users :
      Cardinality({r \in Live : UserOf[r] = u}) <= UserLimitQty

Compensations(r) ==
  {s \in Stock!CompensateSuffixes : <<KeyOf[r], s>> \in ledger}

(* The ledger keys of a compensation differ by its reason: still, what an   *)
(* idempotency key took in MySQL is given back at most once, and nothing is *)
(* given back that was not taken, however purchases under the key overlap. *)
CompensatedAtMostOnce ==
  \A r \in Requests :
    /\ \A s, t \in Compensations(r) : s = t
    /\ Compensations(r) # {} => Stock!ReserveKey(r) \in ledger

(* A close gives a piece back in MySQL before it does in Redis, and only    *)
(* for an order that is closed and stays so, though its event is delivered *)
(* again and again.                                                        *)
ClosedBeforeReleased ==
  \A r \in Requests :
    /\ r \in closeKeys => Stock!CloseKey(r) \in ledger
    /\ Stock!CloseKey(r) \in ledger => order[r] = "closed"

(* The inductive invariant behind the last two: of all purchases under one  *)
(* idempotency key only the one whose transaction claimed the ledger line  *)
(* may compensate, and until it has, nobody did.                           *)
Owner(a) ==
  /\ At(a, "order") \/ At(a, "compensate")
  /\ ~ attempt[a].conflict

LedgerInv ==
  /\ CompensatedAtMostOnce
  /\ ClosedBeforeReleased
  /\ \A r \in closeTopic : order[r] = "closed"
  /\ \A a \in Attempts : At(a, "compensate") => ~ attempt[a].conflict
  /\ \A a \in Attempts : Owner(a) =>
       /\ Stock!ReserveKey(Req(a)) \in ledger
       /\ Compensations(Req(a)) = {}
  /\ \A a, b \in Attempts :
       Owner(a) /\ Owner(b) /\ KeyOf[Req(a)] = KeyOf[Req(b)] => a = b

-----------------------------------------------------------------------------
(* Refinement of SalePromise: who holds the pieces that are not in Redis.  *)
(* Each request holds at most two.                                         *)

On(a, r) == attempt[a] # Idle /\ Req(a) = r

(* A handler that has been to Redis.                                       *)
Beyond(a, r) == On(a, r) /\ attempt[a].step # "cache"

(* A handler that may still give its piece back with the request key.      *)
Returns(a, r) ==
  On(a, r) /\ attempt[a].cached /\ ~ attempt[a].conflict /\ r \in requestKeys

(* The piece of an order, or of the one that may still be made.            *)
Base(r) ==
  \/ order[r] = "live"
  \/ order[r] = "closed" /\ r \notin closeKeys
  \/ /\ order[r] = "none"
     /\ r \in requestKeys \/ r \in createTopic \/ \E a \in Attempts : Beyond(a, r)

(* The piece a later try has taken beside it.                              *)
Extra(r) ==
  /\ order[r] # "none" \/ r \in createTopic
  /\ \E a \in Attempts : Returns(a, r)

Pieces ==
  {p \in Requests \X {"base", "extra"} :
     IF p[2] = "base" THEN Base(p[1]) ELSE Extra(p[1])}

Sale == INSTANCE SalePromise WITH
  Limit <- UserLimitQty,
  Total <- ReservedStockTotal,
  free <- cacheStock,
  held <- Pieces

(* Without faults every script, message, repeat, crash and release is one   *)
(* step of the sale or none: what Redis offers again nobody holds, and each *)
(* order is made of a piece that was taken for its request and kept for it. *)
KeepsSale == Sale!Spec

-----------------------------------------------------------------------------
(* Liveness.  Consumers keep polling, and a failure to handle or to commit  *)
(* a message is transient.                                                 *)
ConsumeAndCommit(r) ==
  \E k \in Consumers :
    /\ consumer[k] # Idle /\ consumer[k].req = r
    /\ Consume(k)
    /\ r \notin createTopic'

Fairness ==
  /\ \A k \in Consumers : WF_vars(Consume(k) \/ ConsumerStops(k))
  /\ \A r \in Requests :
       /\ SF_vars(\E k \in Consumers : Poll(k, r))
       /\ SF_vars(ConsumeAndCommit(r))
       /\ WF_vars(ConsumeStockCompensate(r))

FairSpec == Spec /\ Fairness

(* A purchase that was answered with an order number ends as an order, or   *)
(* its piece goes back to Redis: it is not forgotten between the topics.   *)
AcceptedIsSettled ==
  \A r \in Requests :
    r \in createTopic ~> order[r] # "none" \/ r \notin releaseTokens
=============================================================================
