---------------------------- MODULE OrderStateFeed ----------------------------
(***************************************************************************)
(* How seckill-rpc learns what became of its orders.                       *)
(*                                                                         *)
(* order-rpc puts an event into a bounded queue after every change of a    *)
(* seckill order; workers take it from there to Kafka, and a handler that  *)
(* finds the queue full publishes itself.  The writer spreads messages     *)
(* over the partitions without looking at their key, so the consumers of   *)
(* seckill-rpc get them in any order: the topic is a set.  A consumer      *)
(* copies the state into seckill_order_links, counts payments              *)
(* and closes in the traffic tables, and remembers completed orders for    *)
(* the purchase limit of mode 1.  (That a close also gives pieces back is  *)
(* SeckillPurchase.)  A purchase that made its order by RPC writes the     *)
(* order's link too, through a bounded queue of seckill-rpc.               *)
(*                                                                         *)
(* Both queues live in memory: a stop of either service, graceful or not,  *)
(* drops what they hold.  Every order is of one piece.                     *)
(***************************************************************************)
EXTENDS Integers, Sequences, FiniteSets

CONSTANTS
  Orders,
  Workers,         \* publishers of order-rpc, by queue or on their own
  Consumers,       \* consumers of seckill-rpc
  QueueSize,       \* SeckillOrderEventAsyncQueueSize
  MaxClock,        \* bound: seconds
  MaxFaults        \* bound: failures of all kinds

ASSUME FeedAssumption ==
  /\ IsFiniteSet(Orders) /\ IsFiniteSet(Consumers)
  /\ QueueSize \in Nat
  /\ MaxClock \in Nat
  /\ MaxFaults \in Nat

VARIABLES
  order,       \* order-rpc's row
  clock,       \* the second
  faults,      \* failures so far, for MaxFaults only
  emitting,    \* events that handlers of order-rpc are about to emit
  queue,       \* seckillOrderEventTasks
  worker,      \* what each publisher is publishing
  topic,       \* seckill_order_state: every event stored so far
  committed,   \* those that are done with
  consumer,    \* where each consumer is
  link,        \* seckill_order_links
  linkAsked,   \* orders whose purchase has written its link
  linkQueue,   \* OrderLinkWriter.tasks
  raw,         \* seckill_traffic_raw_events
  agg,         \* seckill_traffic_agg_minute, summed over the minutes
  window       \* Redis: samples of completed orders

emitVars == <<emitting, queue, worker>>
topicVars == <<topic, committed, consumer>>
linkVars == <<link, linkAsked, linkQueue>>
statVars == <<raw, agg, window>>
vars == <<order, clock, faults, emitVars, topicVars, linkVars, statVars>>

-----------------------------------------------------------------------------
(* The row of order-rpc as far as counts and windows tell its states apart: *)
(* waiting for review, for shipment or for receipt is "paid", refunding and *)
(* refunded is "refunded".  The columns order_status and payment_status of  *)
(* a link do distinguish these, and approval, shipment and the end of a     *)
(* refund announce themselves too; those events are left out.               *)
States == {"none", "created", "paid", "cancelled", "refunded", "completed"}
Closed == {"cancelled", "refunded", "completed"}
WasPaid == {"paid", "refunded", "completed"}

(* The steps of OrderLifecycle from one of these states to another.        *)
Follows(s) == CASE s = "none" -> {"created"}
                [] s = "created" -> {"paid", "cancelled"}
                [] s = "paid" -> {"refunded", "completed"}
                [] OTHER -> {}

Rank(s) == CASE s = "none" -> 0 [] s = "created" -> 1 [] s = "paid" -> 2
             [] OTHER -> 3

Counters == {"pay_success", "order_closed"}

Types == {"state", "received", "closed"}
Emission == [order: Orders, state: States \ {"none"}, type: Types]
Event == [order: Orders, state: States \ {"none"}, type: Types, at: 0..MaxClock]

Idle == [step |-> "idle"]
Publishing == [step: {"publish"}, event: Event]
Consuming == [step: {"pay", "pay_agg", "close", "close_agg", "window"},
              event: Event]

TypeOK ==
  /\ order \in [Orders -> States]
  /\ clock \in 0..MaxClock
  /\ faults \in 0..MaxFaults
  /\ emitting \subseteq Emission
  /\ queue \in Seq(Event) /\ Len(queue) <= QueueSize
  /\ worker \in [Workers -> Publishing \cup {Idle}]
  /\ topic \subseteq Event
  /\ committed \subseteq topic
  /\ consumer \in [Consumers -> Consuming \cup {Idle}]
  /\ link \in [Orders -> States]
  /\ linkAsked \subseteq Orders
  /\ linkQueue \subseteq linkAsked
  /\ raw \subseteq Orders \X Counters
  /\ agg \in [Counters -> Nat]
  /\ window \subseteq Orders \X (0..MaxClock)

Init ==
  /\ order = [o \in Orders |-> "none"]
  /\ clock = 0
  /\ faults = 0
  /\ emitting = {}
  /\ queue = <<>>
  /\ worker = [w \in Workers |-> Idle]
  /\ topic = {}
  /\ committed = {}
  /\ consumer = [c \in Consumers |-> Idle]
  /\ link = [o \in Orders |-> "none"]
  /\ linkAsked = {}
  /\ linkQueue = {}
  /\ raw = {}
  /\ agg = [k \in Counters |-> 0]
  /\ window = {}

Fault == faults < MaxFaults /\ faults' = faults + 1

-----------------------------------------------------------------------------
(* order-rpc.  A completed order is announced twice, as received and as    *)
(* closed, with the same row.                                              *)
Announced(o, s) ==
  IF s = "completed"
  THEN {[order |-> o, state |-> s, type |-> t] : t \in {"received", "closed"}}
  ELSE {[order |-> o, state |-> s, type |-> "state"]}

(* Faulty variant: the event is emitted though the row was not changed.    *)
AnnounceOnly(o) ==
  /\ \E s \in Follows(order[o]) : emitting' = emitting \cup Announced(o, s)
  /\ UNCHANGED <<order, clock, faults, queue, worker, topicVars, linkVars,
                 statVars>>

ChangeOrder(o) ==
  /\ \E s \in Follows(order[o]) :
       /\ order' = [order EXCEPT ![o] = s]
       /\ emitting' = emitting \cup Announced(o, s)
  /\ UNCHANGED <<clock, faults, queue, worker, topicVars, linkVars, statVars>>

(* The second matters only to the two announcements of a completed order.  *)
Tick ==
  /\ clock < MaxClock
  /\ \E e \in emitting : e.state = "completed"
  /\ clock' = clock + 1
  /\ UNCHANGED <<order, faults, emitVars, topicVars, linkVars, statVars>>

Stamped(e) ==
  [order |-> e.order, state |-> e.state, type |-> e.type,
   at |-> IF e.state = "completed" THEN clock ELSE 0]

(* One handler announces "received" before "closed".                       *)
InTurn(e) ==
  e.type = "closed" => [e EXCEPT !.type = "received"] \notin emitting

(* Faulty variant: a queue without bound.                                  *)
EmitUnbounded(e) ==
  /\ InTurn(e)
  /\ emitting' = emitting \ {e}
  /\ queue' = Append(queue, Stamped(e))
  /\ UNCHANGED <<order, clock, faults, worker, topicVars, linkVars, statVars>>

(* EmitSeckillOrderEvent: into the queue, else published by the handler.   *)
EmitSeckillOrderEvent(e) ==
  /\ InTurn(e)
  /\ emitting' = emitting \ {e}
  /\ IF Len(queue) < QueueSize
     THEN queue' = Append(queue, Stamped(e)) /\ UNCHANGED worker
     ELSE \E w \in Workers :
            /\ worker[w] = Idle
            /\ worker' = [worker EXCEPT ![w] =
                            [step |-> "publish", event |-> Stamped(e)]]
            /\ UNCHANGED queue
  /\ UNCHANGED <<order, clock, faults, topicVars, linkVars, statVars>>

TakeEvent(w) ==
  /\ worker[w] = Idle
  /\ queue # <<>>
  /\ worker' = [worker EXCEPT ![w] = [step |-> "publish", event |-> Head(queue)]]
  /\ queue' = Tail(queue)
  /\ UNCHANGED <<order, clock, faults, emitting, topicVars, linkVars, statVars>>

Store(e) == topic' = topic \cup {e}

PublishSeckillOrderEvent(w) ==
  /\ worker[w] # Idle
  /\ Store(worker[w].event)
  /\ worker' = [worker EXCEPT ![w] = Idle]
  /\ UNCHANGED <<order, clock, faults, emitting, queue, committed, consumer,
                 linkVars, statVars>>

(* The call and its retry fail, whether or not one stored the message: the *)
(* event is given up.                                                      *)
PublishFails(w) ==
  /\ worker[w] # Idle
  /\ Fault
  /\ Store(worker[w].event) \/ UNCHANGED topic
  /\ worker' = [worker EXCEPT ![w] = Idle]
  /\ UNCHANGED <<order, clock, emitting, queue, committed, consumer, linkVars,
                 statVars>>

(* Workers leave at a stop without draining the queue.                     *)
OrderRpcRestarts ==
  /\ Fault
  /\ emitting # {} \/ queue # <<>> \/ \E w \in Workers : worker[w] # Idle
  /\ emitting' = {}
  /\ queue' = <<>>
  /\ worker' = [w \in Workers |-> Idle]
  /\ UNCHANGED <<order, clock, topicVars, linkVars, statVars>>

-----------------------------------------------------------------------------
(* The consumer.  An event is handled once, but for a second copy of it, a *)
(* lost commit, or a rebalance while its first consumer is still at it.    *)
(* Fetching changes nothing that is shared and is one step with the first  *)
(* write; the commit is one step with the last.                            *)
Busy(c) == consumer[c] # Idle
At(c, step) == consumer[c].step = step
Msg(c) == consumer[c].event

Taken(e) == e \in committed \/ \E d \in Consumers : Busy(d) /\ Msg(d) = e

Goto(c, step, e) ==
  IF step = "commit"
  THEN /\ consumer' = [consumer EXCEPT ![c] = Idle]
       /\ committed' = committed \cup {e}
  ELSE /\ consumer' = [consumer EXCEPT ![c] = [step |-> step, event |-> e]]
       /\ UNCHANGED committed

(* What follows the link, a payment and a close.                           *)
AfterSync(e) ==
  IF e.state \in WasPaid THEN "pay"
  ELSE IF e.state \in Closed THEN "close" ELSE "commit"
(* Faulty variant: a paid event ends there.                                *)
AfterPayDone(e) == "commit"

AfterPay(e) == IF e.state \in Closed THEN "close" ELSE "commit"
AfterClose(e) == IF e.state = "completed" THEN "window" ELSE "commit"

(* Faulty variant: a state older than the link's is an error.              *)
SyncInOrder(c, e) ==
  /\ ~ Busy(c)
  /\ Rank(link[e.order]) <= Rank(e.state)
  /\ link' = [link EXCEPT ![e.order] = e.state]
  /\ Goto(c, AfterSync(e), e)
  /\ UNCHANGED <<order, clock, emitVars, topic, linkAsked, linkQueue, statVars>>

(* The upsert takes the state of the event as it comes.                    *)
SyncOrderLinkState(c, e) ==
  /\ ~ Busy(c)
  /\ link' = [link EXCEPT ![e.order] = e.state]
  /\ Goto(c, AfterSync(e), e)
  /\ UNCHANGED <<order, clock, emitVars, topic, linkAsked, linkQueue, statVars>>

HandleMessage(c) ==
  \E e \in topic : ~ Taken(e) /\ SyncOrderLinkState(c, e) /\ UNCHANGED faults

HandleAgain(c) ==
  \E e \in topic : Taken(e) /\ SyncOrderLinkState(c, e) /\ Fault

(* Faulty variant: a duplicate raw row does not stop the count.            *)
RecordAndCount(c, k, agg_step, next) ==
  /\ raw' = raw \cup {<<Msg(c).order, k>>}
  /\ Goto(c, agg_step, Msg(c))
  /\ UNCHANGED faults

(* RecordTraffic: the raw row claims the key and the count follows in a    *)
(* statement of its own; errors of either are ignored by the consumer.     *)
RecordRaw(c, k, agg_step, next) ==
  LET claim == <<Msg(c).order, k>> IN
  \/ claim \in raw /\ Goto(c, next, Msg(c)) /\ UNCHANGED <<raw, faults>>
  \/ /\ claim \notin raw
     /\ raw' = raw \cup {claim}
     /\ Goto(c, agg_step, Msg(c))
     /\ UNCHANGED faults
  \/ /\ Fault
     /\ raw' \in {raw, raw \cup {claim}}
     /\ Goto(c, next, Msg(c))

CountUp(c, k, next) ==
  /\ \/ agg' = [agg EXCEPT ![k] = @ + 1] /\ UNCHANGED faults
     \/ agg' = agg /\ Fault
  /\ Goto(c, next, Msg(c))

RecordPaySuccess(c) ==
  /\ \/ /\ At(c, "pay")
        /\ RecordRaw(c, "pay_success", "pay_agg", AfterPay(Msg(c)))
        /\ UNCHANGED agg
     \/ /\ At(c, "pay_agg")
        /\ CountUp(c, "pay_success", AfterPay(Msg(c)))
        /\ UNCHANGED raw
  /\ UNCHANGED <<order, clock, emitVars, topic, linkVars, window>>

RecordOrderClosed(c) ==
  /\ \/ /\ At(c, "close")
        /\ RecordRaw(c, "order_closed", "close_agg", AfterClose(Msg(c)))
        /\ UNCHANGED agg
     \/ /\ At(c, "close_agg")
        /\ CountUp(c, "order_closed", AfterClose(Msg(c)))
        /\ UNCHANGED raw
  /\ UNCHANGED <<order, clock, emitVars, topic, linkVars, window>>

(* A sample is the order and the second of the event; an error of Redis is *)
(* only logged.                                                            *)
RecordCompletedWindow(c) ==
  /\ At(c, "window")
  /\ \/ window' = window \cup {<<Msg(c).order, Msg(c).at>>} /\ UNCHANGED faults
     \/ window' = window /\ Fault
  /\ Goto(c, "commit", Msg(c))
  /\ UNCHANGED <<order, clock, emitVars, topic, linkVars, raw, agg>>

(* A failing upsert, a lost commit, a crash or a rebalance: the message    *)
(* comes again.                                                            *)
ConsumerFails(c) ==
  /\ Busy(c)
  /\ Fault
  /\ consumer' = [consumer EXCEPT ![c] = Idle]
  /\ UNCHANGED <<order, clock, emitVars, topic, committed, linkVars, statVars>>

-----------------------------------------------------------------------------
(* seckill-rpc, after a purchase that made its order by RPC and if         *)
(* OrderLinkWriteOnPurchase: the state is the one of the answer, that of a *)
(* new order.  The queue has the links of other orders too, and may be     *)
(* full: then the request writes the link itself, or (by                   *)
(* OrderLinkSyncFallback) drops it.                                        *)
WriteLink(o) == link' = [link EXCEPT ![o] = "created"]

PersistOrderLink(o) ==
  /\ order[o] # "none"
  /\ o \notin linkAsked
  /\ linkAsked' = linkAsked \cup {o}
  /\ \/ linkQueue' = linkQueue \cup {o} /\ UNCHANGED link
     \/ WriteLink(o) /\ UNCHANGED linkQueue
     \/ UNCHANGED <<link, linkQueue>>
  /\ UNCHANGED <<order, clock, faults, emitVars, topicVars, statVars>>

CreateOrderLink(o) ==
  /\ o \in linkQueue
  /\ linkQueue' = linkQueue \ {o}
  /\ \/ WriteLink(o) /\ UNCHANGED faults
     \/ UNCHANGED link /\ Fault
  /\ UNCHANGED <<order, clock, emitVars, topicVars, linkAsked, statVars>>

SeckillRpcRestarts ==
  /\ Fault
  /\ linkQueue # {}
  /\ linkQueue' = {}
  /\ consumer' = [c \in Consumers |-> Idle]
  /\ UNCHANGED <<order, clock, emitVars, topic, committed, link, linkAsked,
                 statVars>>

-----------------------------------------------------------------------------
Consume(c) ==
  \/ HandleMessage(c) \/ RecordPaySuccess(c) \/ RecordOrderClosed(c)
  \/ RecordCompletedWindow(c)

Publish(w) == TakeEvent(w) \/ PublishSeckillOrderEvent(w)

Next ==
  \/ Tick
  \/ \E o \in Orders : ChangeOrder(o) \/ PersistOrderLink(o) \/ CreateOrderLink(o)
  \/ \E e \in emitting : EmitSeckillOrderEvent(e)
  \/ \E w \in Workers : Publish(w) \/ PublishFails(w)
  \/ \E c \in Consumers : Consume(c) \/ HandleAgain(c) \/ ConsumerFails(c)
  \/ OrderRpcRestarts \/ SeckillRpcRestarts

Spec == Init /\ [][Next]_vars

(* Handlers, workers and consumers go on; failures end, by MaxFaults.      *)
FairSpec ==
  /\ Spec
  /\ WF_vars(\E e \in emitting : EmitSeckillOrderEvent(e))
  /\ \A w \in Workers : WF_vars(Publish(w))
  /\ \A c \in Consumers : WF_vars(Consume(c))

-----------------------------------------------------------------------------
(* What the state of an order may have been before it is what it is.       *)
Passed(s) == CASE s = "none" -> {"none"}
               [] s = "created" -> {"none", "created"}
               [] s \in {"paid", "cancelled"} -> {"none", "created", s}
               [] OTHER -> {"none", "created", "paid", s}

(* A link never shows a state that its order has not been in: nothing is   *)
(* announced or stored ahead of order-rpc's row.                           *)
LinkNeverAhead == \A o \in Orders : link[o] \in Passed(order[o])

Claimed(k) == {o \in Orders : <<o, k>> \in raw}

(* However often an event is delivered, an order is counted at most once   *)
(* as paid and once as closed, and only if it was.  The counts are those   *)
(* made from the feed: what clients report through TrackEvent goes to the  *)
(* same table under keys they choose, taken to be other than the feed's.   *)
CountedAtMostOnce ==
  /\ \A k \in Counters : agg[k] <= Cardinality(Claimed(k))
  /\ \A o \in Orders :
       /\ <<o, "pay_success">> \in raw => order[o] \in WasPaid
       /\ <<o, "order_closed">> \in raw => order[o] \in Closed

Quiet ==
  /\ emitting = {} /\ queue = <<>>
  /\ \A w \in Workers : worker[w] = Idle
  /\ \A c \in Consumers : ~ Busy(c)
  /\ committed = topic

Samples(o) == {t \in 0..MaxClock : <<o, t>> \in window}

(* If nothing failed, then once every event was consumed, in whatever      *)
(* order, payments and closes are counted exactly (beside what clients     *)
(* report through TrackEvent) and every completed order has its sample.    *)
QuietMeansCounted ==
  faults = 0 /\ Quiet =>
    /\ agg["pay_success"] = Cardinality({o \in Orders : order[o] \in WasPaid})
    /\ agg["order_closed"] = Cardinality({o \in Orders : order[o] \in Closed})
    /\ \A o \in Orders : order[o] = "completed" <=> Samples(o) # {}

(* The feed comes to rest: a full queue, a failing publisher or consumer   *)
(* and a stop hold nothing up for ever.                                    *)
FeedSettles == <>[]Quiet

=============================================================================
