------------------------ MODULE OrderStateFeed_proofs ------------------------
(***************************************************************************)
(* Proofs about OrderStateFeed, for every finite set of orders and of      *)
(* consumers, every set of publishers, every queue and every number of     *)
(* failures.                                                               *)
(***************************************************************************)
EXTENDS OrderStateFeed, TLAPS, FiniteSetTheorems

(* Nothing announced is ahead of the order's row, wherever it is.          *)
Known(e) == e.state \in Passed(order[e.order])

EmitSide ==
  /\ \A e \in emitting : Known(e)
  /\ \A i \in 1..Len(queue) : Known(queue[i])
  /\ \A w \in Workers : worker[w] # Idle => Known(worker[w].event)

TopicSide == \A e \in topic : Known(e)

(* A consumer handles a stored event, and each step suits the state.       *)
Suits(step, e) ==
  /\ step \in {"pay", "pay_agg"} => e.state \in WasPaid
  /\ step \in {"close", "close_agg"} => e.state \in Closed
  /\ step = "window" => e.state = "completed"

ConsumeSide ==
  \A c \in Consumers :
    Busy(c) => Msg(c) \in topic /\ Suits(consumer[c].step, Msg(c))

LinkSide ==
  /\ LinkNeverAhead
  /\ \A o \in linkAsked : order[o] # "none"

RawSide ==
  \A o \in Orders :
    /\ <<o, "pay_success">> \in raw => order[o] \in WasPaid
    /\ <<o, "order_closed">> \in raw => order[o] \in Closed

(* The inductive invariant, but for the counts.                            *)
FeedInv == TypeOK /\ EmitSide /\ TopicSide /\ ConsumeSide /\ LinkSide /\ RawSide

-----------------------------------------------------------------------------
(* An order moves on: what it has passed it keeps.                         *)
LEMMA PassedGrows ==
  ASSUME NEW s \in States, NEW t \in Follows(s)
  PROVE  /\ t \in States \ {"none"}
         /\ Passed(s) \subseteq Passed(t) /\ t \in Passed(t)
         /\ s \in WasPaid => t \in WasPaid
         /\ s \in Closed => t \in Closed
  BY DEF States, Follows, Passed, WasPaid, Closed

LEMMA PassedState ==
  ASSUME NEW s \in States, NEW t \in Passed(s)
  PROVE  /\ t \in WasPaid => s \in WasPaid
         /\ t \in Closed => s \in Closed
         /\ s \in Passed(s) /\ "none" \in Passed(s)
         /\ s # "none" => "created" \in Passed(s)
  BY DEF States, Passed, WasPaid, Closed

LEMMA WorkerKind ==
  ASSUME TypeOK, NEW w \in Workers, worker[w] # Idle
  PROVE  worker[w].event \in Event
  BY DEF TypeOK, Publishing

LEMMA ConsumerKind ==
  ASSUME TypeOK, NEW c \in Consumers
  PROVE  /\ Busy(c) => Msg(c) \in Event /\ consumer[c] \in Consuming
         /\ consumer[c].step # "idle" => Busy(c)
  BY DEF TypeOK, Consuming, Busy, Msg, Idle

LEMMA StampedKind ==
  ASSUME TypeOK, NEW e \in Emission
  PROVE  /\ Stamped(e) \in Event
         /\ Stamped(e).state = e.state /\ Stamped(e).order = e.order
  BY FeedAssumption DEF TypeOK, Stamped, Emission, Event

-----------------------------------------------------------------------------
(* order-rpc.                                                              *)
LEMMA OrderRpcStep ==
  ASSUME FeedInv, UNCHANGED <<order, topicVars, linkVars, statVars>>,
         clock' \in 0..MaxClock, faults' \in 0..MaxFaults,
         emitting' \subseteq emitting,
         queue' \in Seq(Event), Len(queue') <= QueueSize,
         \A i \in 1..Len(queue') : Known(queue'[i]),
         worker' \in [Workers -> Publishing \cup {Idle}],
         \A w \in Workers : worker'[w] # Idle => Known(worker'[w].event)
  PROVE  FeedInv'
  <1> USE DEF FeedInv, topicVars, linkVars, statVars
  <1>1. TypeOK' BY DEF TypeOK
  <1>2. EmitSide' BY DEF EmitSide, Known
  <1>3. TopicSide' /\ ConsumeSide' /\ LinkSide' /\ RawSide'
    BY DEF TopicSide, ConsumeSide, LinkSide, RawSide, Known, Busy, Msg, LinkNeverAhead
  <1> QED BY <1>1, <1>2, <1>3

LEMMA ChangeKeeps ==
  ASSUME FeedInv, NEW o \in Orders, ChangeOrder(o)
  PROVE  FeedInv'
  <1> USE DEF FeedInv, topicVars, linkVars, statVars
  <1> PICK s \in Follows(order[o]) :
        /\ order' = [order EXCEPT ![o] = s]
        /\ emitting' = emitting \cup Announced(o, s)
    BY DEF ChangeOrder
  <1>0. UNCHANGED <<clock, faults, queue, worker, topicVars, linkVars, statVars>>
    BY DEF ChangeOrder
  <1>1. order[o] \in States BY DEF TypeOK
  <1>2. /\ s \in States \ {"none"} /\ s \in Passed(s)
        /\ Passed(order[o]) \subseteq Passed(s)
        /\ order[o] \in WasPaid => s \in WasPaid
        /\ order[o] \in Closed => s \in Closed
    BY <1>1, PassedGrows
  <1>3. Announced(o, s) \subseteq Emission
    BY <1>2 DEF Announced, Emission, Types
  <1>4. \A e \in Announced(o, s) : e.order = o /\ e.state = s BY DEF Announced
  <1>5. /\ order' \in [Orders -> States] /\ order'[o] = s
        /\ \A p \in Orders \ {o} : order'[p] = order[p]
    BY <1>2 DEF TypeOK
  <1>6. TypeOK' BY <1>0, <1>3, <1>5 DEF TypeOK
  <1>7. \A p \in Orders : Passed(order[p]) \subseteq Passed(order'[p])
    BY <1>2, <1>5
  <1>8. \A e : e.order \in Orders /\ Known(e) => Known(e)' BY <1>7 DEF Known
  <1>9. EmitSide'
    <2>1. \A e \in emitting' : Known(e)'
      <3>1. \A e \in emitting : e.order \in Orders BY DEF TypeOK, Emission
      <3>2. \A e \in Announced(o, s) : Known(e)' BY <1>2, <1>4, <1>5 DEF Known
      <3> QED BY <3>1, <3>2, <1>8 DEF EmitSide
    <2>2. \A i \in 1..Len(queue') : Known(queue[i])'
      <3>1. \A i \in 1..Len(queue) : queue[i] \in Event BY DEF TypeOK
      <3> QED BY <3>1, <1>0, <1>8 DEF EmitSide, Event, Known
    <2>3. \A w \in Workers : worker'[w] # Idle => Known(worker[w].event)'
      BY <1>0, <1>8, WorkerKind DEF EmitSide, Event, Known
    <2> QED BY <1>0, <2>1, <2>2, <2>3 DEF EmitSide, Known
  <1>10. TopicSide'
    <2>1. \A e \in topic : e.order \in Orders BY DEF TypeOK, Event
    <2> QED BY <2>1, <1>0, <1>8 DEF TopicSide
  <1>11. ConsumeSide' BY <1>0 DEF ConsumeSide, Busy, Msg
  <1>12. LinkSide'
    BY <1>0, <1>2, <1>5, <1>7 DEF LinkSide, LinkNeverAhead, TypeOK
  <1>13. RawSide' BY <1>0, <1>2, <1>5 DEF RawSide
  <1> QED BY <1>6, <1>9, <1>10, <1>11, <1>12, <1>13

LEMMA EmitKeeps ==
  ASSUME FeedInv, NEW e \in emitting, EmitSeckillOrderEvent(e)
  PROVE  FeedInv'
  <1> USE DEF FeedInv
  <1>0. /\ UNCHANGED <<order, clock, faults, topicVars, linkVars, statVars>>
        /\ emitting' = emitting \ {e}
    BY DEF EmitSeckillOrderEvent
  <1>1. /\ Stamped(e) \in Event /\ Known(Stamped(e))
    BY StampedKind DEF TypeOK, EmitSide, Known
  <1>2. CASE Len(queue) < QueueSize /\ queue' = Append(queue, Stamped(e)) /\ UNCHANGED worker
    <2>1. queue' \in Seq(Event) /\ Len(queue') = Len(queue) + 1
      BY <1>1, <1>2 DEF TypeOK
    <2>2. \A i \in 1..Len(queue') :
            queue'[i] = IF i = Len(queue) + 1 THEN Stamped(e) ELSE queue[i]
      BY <1>1, <1>2, <2>1 DEF TypeOK
    <2>3. \A i \in 1..Len(queue') : Known(queue'[i])
      <3> SUFFICES ASSUME NEW i \in 1..Len(queue') PROVE Known(queue'[i])
        OBVIOUS
      <3>1. CASE i = Len(queue) + 1 BY <1>1, <2>2, <3>1
      <3>2. CASE i # Len(queue) + 1
        <4>1. i \in 1..Len(queue) BY <2>1, <3>2 DEF TypeOK
        <4>2. queue'[i] = queue[i] BY <2>2, <3>2
        <4> QED BY <4>1, <4>2 DEF EmitSide
      <3> QED BY <3>1, <3>2
    <2>4. Len(queue') <= QueueSize BY <1>2, <2>1, FeedAssumption DEF TypeOK
    <2> QED BY <1>0, <1>2, <2>1, <2>3, <2>4, OrderRpcStep DEF TypeOK, EmitSide
  <1>3. ASSUME NEW w \in Workers, UNCHANGED queue,
               worker' = [worker EXCEPT ![w] =
                            [step |-> "publish", event |-> Stamped(e)]]
        PROVE  FeedInv'
    <2>1. [step |-> "publish", event |-> Stamped(e)] \in Publishing
      BY <1>1 DEF Publishing
    <2>2. worker' \in [Workers -> Publishing \cup {Idle}] BY <1>3, <2>1 DEF TypeOK
    <2>3. \A v \in Workers : worker'[v] # Idle => Known(worker'[v].event)
      BY <1>1, <1>3 DEF EmitSide, TypeOK
    <2> QED BY <1>0, <1>3, <2>2, <2>3, OrderRpcStep DEF TypeOK, EmitSide
  <1> QED BY <1>2, <1>3 DEF EmitSeckillOrderEvent

LEMMA PublishKeeps ==
  ASSUME FeedInv, NEW w \in Workers,
         PublishSeckillOrderEvent(w) \/ PublishFails(w)
  PROVE  FeedInv'
  <1> USE DEF FeedInv, linkVars, statVars
  <1>1. /\ UNCHANGED <<order, clock, emitting, queue, committed, consumer, linkVars, statVars>>
        /\ worker[w] # Idle
        /\ worker' = [worker EXCEPT ![w] = Idle]
        /\ topic' = topic \cup {worker[w].event} \/ UNCHANGED topic
        /\ faults' \in 0..MaxFaults
    BY FeedAssumption DEF PublishSeckillOrderEvent, PublishFails, Store, Fault, TypeOK
  <1>2. worker[w].event \in Event /\ Known(worker[w].event)
    BY <1>1, WorkerKind DEF EmitSide
  <1>3. TypeOK' BY <1>1, <1>2 DEF TypeOK
  <1>4. EmitSide' BY <1>1 DEF EmitSide, Known, TypeOK
  <1>5. TopicSide' BY <1>1, <1>2 DEF TopicSide, Known
  <1>6. ConsumeSide' BY <1>1 DEF ConsumeSide, Busy, Msg
  <1>7. LinkSide' /\ RawSide' BY <1>1 DEF LinkSide, RawSide, LinkNeverAhead
  <1> QED BY <1>3, <1>4, <1>5, <1>6, <1>7

LEMMA TakeKeeps ==
  ASSUME FeedInv, NEW w \in Workers, TakeEvent(w)
  PROVE  FeedInv'
  <1> USE DEF FeedInv
  <1>1. /\ UNCHANGED <<order, clock, faults, emitting, topicVars, linkVars, statVars>>
        /\ queue # <<>> /\ queue' = Tail(queue)
        /\ worker' = [worker EXCEPT ![w] = [step |-> "publish", event |-> Head(queue)]]
    BY DEF TakeEvent
  <1>2. queue \in Seq(Event) /\ Len(queue) \in Nat \ {0} BY <1>1 DEF TypeOK
  <1>3. /\ queue' \in Seq(Event) /\ Len(queue') = Len(queue) - 1
        /\ \A i \in 1..Len(queue') : queue'[i] = queue[i + 1] /\ i + 1 \in 1..Len(queue)
    BY <1>1, <1>2
  <1>4. Head(queue) \in Event /\ Known(Head(queue)) BY <1>2 DEF EmitSide
  <1>5. Len(queue') <= QueueSize BY <1>2, <1>3, FeedAssumption DEF TypeOK
  <1>6. \A i \in 1..Len(queue') : Known(queue'[i]) BY <1>3 DEF EmitSide
  <1>7. [step |-> "publish", event |-> Head(queue)] \in Publishing
    BY <1>4 DEF Publishing
  <1>8. worker' \in [Workers -> Publishing \cup {Idle}] BY <1>1, <1>7 DEF TypeOK
  <1>9. \A v \in Workers : worker'[v] # Idle => Known(worker'[v].event)
    BY <1>1, <1>4 DEF EmitSide, TypeOK
  <1> QED BY <1>1, <1>3, <1>5, <1>6, <1>8, <1>9, OrderRpcStep DEF TypeOK

LEMMA OrderRpcRestartKeeps == FeedInv /\ OrderRpcRestarts => FeedInv'
  <1> SUFFICES ASSUME FeedInv, OrderRpcRestarts PROVE FeedInv' OBVIOUS
  <1>1. /\ faults' \in 0..MaxFaults
        /\ UNCHANGED <<order, clock, topicVars, linkVars, statVars>>
        /\ emitting' = {} /\ queue' = <<>>
        /\ worker' = [w \in Workers |-> Idle]
    BY FeedAssumption DEF OrderRpcRestarts, Fault, FeedInv, TypeOK
  <1>2. Len(queue') <= QueueSize /\ queue' \in Seq(Event) /\ 1..Len(queue') = {}
    BY <1>1, FeedAssumption
  <1> QED BY <1>1, <1>2, OrderRpcStep DEF FeedInv, TypeOK

-----------------------------------------------------------------------------
(* seckill-rpc.                                                            *)
Fault01 == faults' \in 0..MaxFaults

LEMMA FaultType == TypeOK /\ (Fault \/ UNCHANGED faults) => Fault01
  BY FeedAssumption DEF Fault01, Fault, TypeOK

(* The steps of seckill-rpc leave order-rpc and the topic alone.           *)
LEMMA SeckillRpcStep ==
  ASSUME FeedInv, UNCHANGED <<order, clock, emitVars, topic>>, Fault01,
         committed' \subseteq topic,
         consumer' \in [Consumers -> Consuming \cup {Idle}], ConsumeSide',
         link' \in [Orders -> States], LinkSide',
         linkAsked' \subseteq Orders, linkQueue' \subseteq linkAsked',
         raw' \subseteq Orders \X Counters, RawSide',
         agg' \in [Counters -> Nat],
         window' \subseteq Orders \X (0..MaxClock)
  PROVE  FeedInv'
  <1> USE DEF FeedInv, emitVars
  <1>1. TypeOK' BY DEF TypeOK, Fault01
  <1>2. EmitSide' /\ TopicSide' BY DEF EmitSide, TopicSide, Known
  <1> QED BY <1>1, <1>2

LEMMA GotoKeeps ==
  ASSUME FeedInv, UNCHANGED topic, NEW c \in Consumers, NEW e \in topic,
         NEW step \in {"pay", "pay_agg", "close", "close_agg", "window", "commit"},
         Suits(step, e), Goto(c, step, e)
  PROVE  /\ committed' \subseteq topic
         /\ consumer' \in [Consumers -> Consuming \cup {Idle}]
         /\ ConsumeSide'
         /\ \A d \in Consumers \ {c} : consumer'[d] = consumer[d]
         /\ consumer'[c].step = IF step = "commit" THEN "idle" ELSE step
  <1> USE DEF FeedInv
  <1>1. e \in Event BY DEF TypeOK
  <1>2. CASE step = "commit"
    <2>1. /\ consumer' = [consumer EXCEPT ![c] = Idle]
          /\ committed' = committed \cup {e}
      BY <1>2 DEF Goto
    <2>2. /\ consumer' \in [Consumers -> Consuming \cup {Idle}]
          /\ consumer'[c] = Idle
          /\ \A d \in Consumers \ {c} : consumer'[d] = consumer[d]
      BY <2>1 DEF TypeOK
    <2>3. ConsumeSide' BY <2>2 DEF ConsumeSide, Busy, Msg
    <2> QED BY <1>2, <2>1, <2>2, <2>3 DEF TypeOK, Idle
  <1>3. CASE step # "commit"
    <2> DEFINE s == [step |-> step, event |-> e]
    <2>1. /\ consumer' = [consumer EXCEPT ![c] = s]
          /\ committed' = committed
      BY <1>3 DEF Goto
    <2>2. s \in Consuming BY <1>1, <1>3 DEF Consuming
    <2>3. s.step = step /\ s.event = e OBVIOUS
    <2> HIDE DEF s
    <2>4. /\ consumer' \in [Consumers -> Consuming \cup {Idle}]
          /\ consumer'[c] = s
          /\ \A d \in Consumers \ {c} : consumer'[d] = consumer[d]
      BY <2>1, <2>2 DEF TypeOK
    <2>5. ConsumeSide' BY <2>3, <2>4 DEF ConsumeSide, Busy, Msg
    <2> QED BY <1>3, <2>1, <2>3, <2>4, <2>5 DEF TypeOK
  <1> QED BY <1>2, <1>3

LEMMA StepsSuit ==
  ASSUME NEW e \in Event
  PROVE  /\ AfterSync(e) \in {"pay", "close", "commit"} /\ Suits(AfterSync(e), e)
         /\ AfterPay(e) \in {"close", "commit"} /\ Suits(AfterPay(e), e)
         /\ AfterClose(e) \in {"window", "commit"} /\ Suits(AfterClose(e), e)
         /\ Suits("commit", e)
  BY DEF AfterSync, AfterPay, AfterClose, Suits

(* What an event in the topic says of its order.                           *)
LEMMA TopicFacts ==
  ASSUME FeedInv, NEW e \in topic
  PROVE  /\ e \in Event /\ e.order \in Orders /\ e.state \in Passed(order[e.order])
         /\ e.state \in States \ {"none"}
         /\ e.state \in WasPaid => order[e.order] \in WasPaid
         /\ e.state \in Closed => order[e.order] \in Closed
  <1>1. e \in Event BY DEF FeedInv, TypeOK
  <1>2. e.order \in Orders /\ e.state \in States \ {"none"} BY <1>1 DEF Event
  <1>3. e.state \in Passed(order[e.order]) BY DEF FeedInv, TopicSide, Known
  <1>4. order[e.order] \in States BY <1>2 DEF FeedInv, TypeOK
  <1> QED BY <1>1, <1>2, <1>3, <1>4, PassedState

LEMMA SyncKeeps ==
  ASSUME FeedInv, NEW c \in Consumers, NEW e \in topic, SyncOrderLinkState(c, e),
         Fault01
  PROVE  /\ FeedInv'
         /\ \A d \in Consumers \ {c} : consumer'[d] = consumer[d]
         /\ consumer'[c].step \notin {"pay_agg", "close_agg"}
  <1> USE DEF FeedInv, statVars
  <1>1. e \in Event /\ e.order \in Orders /\ e.state \in Passed(order[e.order])
        /\ e.state \in States
    BY TopicFacts
  <1>2. /\ UNCHANGED <<order, clock, emitVars, topic, linkAsked, linkQueue, statVars>>
        /\ link' = [link EXCEPT ![e.order] = e.state]
        /\ Goto(c, AfterSync(e), e)
    BY DEF SyncOrderLinkState
  <1>3. AfterSync(e) \in {"pay", "close", "commit"} /\ Suits(AfterSync(e), e)
    BY <1>1, StepsSuit
  <1>4. /\ committed' \subseteq topic
        /\ consumer' \in [Consumers -> Consuming \cup {Idle}]
        /\ ConsumeSide'
        /\ \A d \in Consumers \ {c} : consumer'[d] = consumer[d]
        /\ consumer'[c].step = IF AfterSync(e) = "commit" THEN "idle" ELSE AfterSync(e)
    BY <1>2, <1>3, GotoKeeps
  <1>5. link' \in [Orders -> States] BY <1>1, <1>2 DEF TypeOK
  <1>6. LinkSide' BY <1>1, <1>2 DEF LinkSide, LinkNeverAhead, TypeOK
  <1>7. RawSide' BY <1>2 DEF RawSide
  <1>8. FeedInv' BY <1>2, <1>4, <1>5, <1>6, <1>7, SeckillRpcStep DEF TypeOK
  <1> QED BY <1>3, <1>4, <1>8

-----------------------------------------------------------------------------
(* The counts: an order that was claimed and is not counted yet is at the   *)
(* hands of at most one consumer.                                          *)
AggStep(k) == IF k = "pay_success" THEN "pay_agg" ELSE "close_agg"
Counting(k) == {c \in Consumers : At(c, AggStep(k))}

CountInv ==
  \A k \in Counters : agg[k] + Cardinality(Counting(k)) <= Cardinality(Claimed(k))

Steady ==
  /\ agg' = agg /\ raw \subseteq raw'
  /\ \A k \in Counters : Counting(k)' \subseteq Counting(k)

Claims(c, k, o) ==
  /\ <<o, k>> \notin raw /\ raw' = raw \cup {<<o, k>>}
  /\ agg' = agg
  /\ Counting(k)' \subseteq Counting(k) \cup {c}
  /\ \A j \in Counters \ {k} : Counting(j)' \subseteq Counting(j)

Counts(c, k) ==
  /\ c \in Counting(k)
  /\ raw' = raw
  /\ agg' = [agg EXCEPT ![k] = @ + 1]
  /\ Counting(k)' \subseteq Counting(k) \ {c}
  /\ \A j \in Counters \ {k} : Counting(j)' \subseteq Counting(j)

CountMove ==
  \/ Steady
  \/ \E c \in Consumers, k \in Counters :
       (\E o \in Orders : Claims(c, k, o)) \/ Counts(c, k)

LEMMA Finite ==
  ASSUME NEW k \in Counters
  PROVE  /\ IsFiniteSet(Counting(k)) /\ Cardinality(Counting(k)) \in Nat
         /\ IsFiniteSet(Claimed(k)) /\ Cardinality(Claimed(k)) \in Nat
         /\ IsFiniteSet(Counting(k)') /\ Cardinality(Counting(k)') \in Nat
         /\ IsFiniteSet(Claimed(k)') /\ Cardinality(Claimed(k)') \in Nat
  <1>1. /\ Counting(k) \in SUBSET Consumers /\ Claimed(k) \in SUBSET Orders
        /\ Counting(k)' \in SUBSET Consumers /\ Claimed(k)' \in SUBSET Orders
    BY DEF Counting, Claimed
  <1> QED BY <1>1, FeedAssumption, FS_Subset, FS_CardinalityType

LEMMA FewerCounting ==
  ASSUME NEW k \in Counters, Counting(k)' \subseteq Counting(k)
  PROVE  Cardinality(Counting(k)') <= Cardinality(Counting(k))
  BY Finite, FS_Subset

LEMMA MoreClaimed ==
  ASSUME NEW k \in Counters, raw \subseteq raw'
  PROVE  Cardinality(Claimed(k)) <= Cardinality(Claimed(k)')
  <1>1. Claimed(k) \subseteq Claimed(k)' BY DEF Claimed
  <1> QED BY <1>1, Finite, FS_Subset

LEMMA CountStep ==
  ASSUME TypeOK, CountInv, CountMove
  PROVE  CountInv'
  <1> SUFFICES ASSUME NEW k \in Counters
               PROVE  agg'[k] + Cardinality(Counting(k)') <= Cardinality(Claimed(k)')
    BY DEF CountInv
  <1>0. /\ agg[k] \in Nat
        /\ agg[k] + Cardinality(Counting(k)) <= Cardinality(Claimed(k))
    BY DEF TypeOK, CountInv
  <1>1. ASSUME agg'[k] = agg[k], raw \subseteq raw', Counting(k)' \subseteq Counting(k)
        PROVE  agg'[k] + Cardinality(Counting(k)') <= Cardinality(Claimed(k)')
    BY <1>0, <1>1, Finite, FewerCounting, MoreClaimed
  <1>2. CASE Steady BY <1>1, <1>2 DEF Steady
  <1>3. ASSUME NEW c \in Consumers, NEW j \in Counters, NEW o \in Orders, Claims(c, j, o)
        PROVE  agg'[k] + Cardinality(Counting(k)') <= Cardinality(Claimed(k)')
    <2>1. CASE j # k BY <1>1, <1>3, <2>1 DEF Claims
    <2>2. CASE j = k
      <3>1. Claimed(k)' = Claimed(k) \cup {o} /\ o \notin Claimed(k)
        BY <1>3, <2>2 DEF Claims, Claimed
      <3>2. Cardinality(Claimed(k)') = Cardinality(Claimed(k)) + 1
        BY <3>1, Finite, FS_AddElement
      <3>3. /\ IsFiniteSet(Counting(k) \cup {c})
            /\ Cardinality(Counting(k) \cup {c}) <= Cardinality(Counting(k)) + 1
        <4>1. IsFiniteSet(Counting(k)) /\ Cardinality(Counting(k)) \in Nat
          BY Finite
        <4>2. /\ IsFiniteSet(Counting(k) \cup {c})
              /\ Cardinality(Counting(k) \cup {c}) =
                   IF c \in Counting(k) THEN Cardinality(Counting(k))
                   ELSE Cardinality(Counting(k)) + 1
          BY <4>1, FS_AddElement
        <4> QED BY <4>1, <4>2
      <3>4. Cardinality(Counting(k)') <= Cardinality(Counting(k) \cup {c})
        BY <1>3, <2>2, <3>3, FS_Subset DEF Claims
      <3>5. Cardinality(Counting(k) \cup {c}) \in Nat BY <3>3, FS_CardinalityType
      <3>6. agg'[k] = agg[k] BY <1>3 DEF Claims
      <3> QED BY <1>0, <3>2, <3>3, <3>4, <3>5, <3>6, Finite
    <2> QED BY <2>1, <2>2
  <1>4. ASSUME NEW c \in Consumers, NEW j \in Counters, Counts(c, j)
        PROVE  agg'[k] + Cardinality(Counting(k)') <= Cardinality(Claimed(k)')
    <2>1. CASE j # k
      <3>1. agg'[k] = agg[k] BY <1>4, <2>1 DEF Counts, TypeOK
      <3> QED BY <1>1, <1>4, <2>1, <3>1 DEF Counts
    <2>2. CASE j = k
      <3>1. agg'[k] = agg[k] + 1 BY <1>4, <2>2 DEF Counts, TypeOK
      <3>2. Claimed(k)' = Claimed(k) BY <1>4 DEF Counts, Claimed
      <3>3. /\ IsFiniteSet(Counting(k) \ {c})
            /\ Cardinality(Counting(k) \ {c}) = Cardinality(Counting(k)) - 1
        BY <1>4, <2>2, Finite, FS_RemoveElement DEF Counts
      <3>4. Cardinality(Counting(k)') <= Cardinality(Counting(k) \ {c})
        BY <1>4, <2>2, <3>3, FS_Subset DEF Counts
      <3> QED BY <1>0, <3>1, <3>2, <3>3, <3>4, Finite
    <2> QED BY <2>1, <2>2
  <1> QED BY <1>2, <1>3, <1>4 DEF CountMove

(* Consumers that go anywhere but to a count.                              *)
LEMMA SteadyStep ==
  ASSUME agg' = agg, raw \subseteq raw',
         \A d \in Consumers :
           consumer'[d].step \in {"pay_agg", "close_agg"} => consumer'[d] = consumer[d]
  PROVE  CountMove
  <1>1. Steady BY DEF Steady, Counting, At, AggStep
  <1> QED BY <1>1 DEF CountMove

-----------------------------------------------------------------------------
(* The consumer's statistics, one counter for both of them.                *)
LEMMA RawStep ==
  ASSUME FeedInv, NEW c \in Consumers, NEW k \in Counters,
         NEW agg_step \in {"pay_agg", "close_agg"}, agg_step = AggStep(k),
         NEW next \in {"close", "window", "commit"},
         Busy(c), Suits(agg_step, Msg(c)), Suits(next, Msg(c)),
         ~ At(c, "pay_agg") /\ ~ At(c, "close_agg"),
         RecordRaw(c, k, agg_step, next),
         UNCHANGED <<order, clock, emitVars, topic, linkVars, window, agg>>
  PROVE  FeedInv' /\ CountMove
  <1> USE DEF FeedInv, linkVars
  <1> DEFINE e == Msg(c)
  <1>0. e \in topic BY DEF ConsumeSide
  <1>1. e \in Event /\ e.order \in Orders
        /\ (e.state \in WasPaid => order[e.order] \in WasPaid)
        /\ (e.state \in Closed => order[e.order] \in Closed)
    BY <1>0, TopicFacts
  <1>2. Fault01 BY FaultType DEF RecordRaw
  <1>3. raw' = raw \/ raw' = raw \cup {<<e.order, k>>} BY DEF RecordRaw
  <1>4. raw' \subseteq Orders \X Counters BY <1>1, <1>3 DEF TypeOK
  <1>5. RawSide'
    <2>0. \A o \in Orders, j \in Counters :
            <<o, j>> \in raw' => <<o, j>> \in raw \/ (o = e.order /\ j = k)
      BY <1>3
    <2>1. CASE k = "pay_success"
      <3>1. order[e.order] \in WasPaid BY <1>1, <2>1 DEF Suits, AggStep
      <3> QED BY <2>0, <2>1, <3>1 DEF RawSide, Counters
    <2>2. CASE k = "order_closed"
      <3>1. order[e.order] \in Closed BY <1>1, <2>2 DEF Suits, AggStep
      <3> QED BY <2>0, <2>2, <3>1 DEF RawSide, Counters
    <2> QED BY <2>1, <2>2 DEF Counters
  <1>6. LinkSide' BY DEF LinkSide, LinkNeverAhead
  <1>7. ASSUME NEW step \in {"pay_agg", "close_agg", "close", "window", "commit"},
               Suits(step, e), Goto(c, step, e)
        PROVE  /\ FeedInv'
               /\ \A d \in Consumers \ {c} : consumer'[d] = consumer[d]
               /\ consumer'[c].step = IF step = "commit" THEN "idle" ELSE step
    <2>1. /\ committed' \subseteq topic
          /\ consumer' \in [Consumers -> Consuming \cup {Idle}]
          /\ ConsumeSide'
          /\ \A d \in Consumers \ {c} : consumer'[d] = consumer[d]
          /\ consumer'[c].step = IF step = "commit" THEN "idle" ELSE step
      BY <1>0, <1>7, GotoKeeps
    <2>2. FeedInv' BY <1>2, <1>4, <1>5, <1>6, <2>1, SeckillRpcStep DEF TypeOK
    <2> QED BY <2>1, <2>2
  <1>8. CASE Goto(c, next, e)
    <2>1. /\ FeedInv'
          /\ \A d \in Consumers \ {c} : consumer'[d] = consumer[d]
          /\ consumer'[c].step \notin {"pay_agg", "close_agg"}
      BY <1>7, <1>8
    <2>2. CountMove BY <1>3, <2>1, SteadyStep
    <2> QED BY <2>1, <2>2
  <1>9. CASE /\ <<e.order, k>> \notin raw
             /\ raw' = raw \cup {<<e.order, k>>}
             /\ Goto(c, agg_step, e)
    <2>1. /\ FeedInv'
          /\ \A d \in Consumers \ {c} : consumer'[d] = consumer[d]
          /\ consumer'[c].step = agg_step
      BY <1>7, <1>9
    <2>2. \A j \in Counters \ {k} : AggStep(j) # agg_step
      BY DEF AggStep, Counters
    <2>3. Claims(c, k, e.order)
      BY <1>9, <2>1, <2>2 DEF Claims, Counting, At
    <2> QED BY <1>1, <2>1, <2>3 DEF CountMove
  <1> QED BY <1>8, <1>9 DEF RecordRaw

LEMMA CountUpStep ==
  ASSUME FeedInv, NEW c \in Consumers, NEW k \in Counters, At(c, AggStep(k)),
         NEW next \in {"close", "window", "commit"},
         Busy(c), Suits(next, Msg(c)), CountUp(c, k, next),
         UNCHANGED <<order, clock, emitVars, topic, linkVars, window, raw>>
  PROVE  FeedInv' /\ CountMove
  <1> USE DEF FeedInv, linkVars
  <1> DEFINE e == Msg(c)
  <1>0. e \in topic BY DEF ConsumeSide
  <1>1. Fault01 BY FaultType DEF CountUp
  <1>2. agg' \in [Counters -> Nat] BY DEF CountUp, TypeOK
  <1>3. LinkSide' /\ RawSide' BY DEF LinkSide, LinkNeverAhead, RawSide
  <1>4. /\ committed' \subseteq topic
        /\ consumer' \in [Consumers -> Consuming \cup {Idle}]
        /\ ConsumeSide'
        /\ \A d \in Consumers \ {c} : consumer'[d] = consumer[d]
        /\ consumer'[c].step \notin {"pay_agg", "close_agg"}
    BY <1>0, GotoKeeps DEF CountUp
  <1>5. FeedInv' BY <1>1, <1>2, <1>3, <1>4, SeckillRpcStep DEF TypeOK
  <1>6. CASE agg' = agg
    <2>1. \A d \in Consumers :
            consumer'[d].step \in {"pay_agg", "close_agg"} => consumer'[d] = consumer[d]
      BY <1>4
    <2>2. CountMove BY <1>6, <2>1, SteadyStep
    <2> QED BY <1>5, <2>2
  <1>7. CASE agg' = [agg EXCEPT ![k] = @ + 1]
    <2>1. Counts(c, k) BY <1>4, <1>7 DEF Counts, Counting, At, AggStep
    <2> QED BY <1>5, <2>1 DEF CountMove
  <1> QED BY <1>5, <1>6, <1>7 DEF CountUp

LEMMA PayStep ==
  ASSUME FeedInv, NEW c \in Consumers, RecordPaySuccess(c)
  PROVE  FeedInv' /\ CountMove
  <1> DEFINE e == Msg(c)
  <1>1. /\ At(c, "pay") \/ At(c, "pay_agg")
        /\ UNCHANGED <<order, clock, emitVars, topic, linkVars, window>>
    BY DEF RecordPaySuccess
  <1>2. Busy(c) BY <1>1, ConsumerKind DEF At, FeedInv
  <1>3. e \in topic /\ Suits("pay_agg", e)
    BY <1>1, <1>2 DEF FeedInv, ConsumeSide, Suits, At
  <1>4. AfterPay(e) \in {"close", "commit"} /\ Suits(AfterPay(e), e)
    BY <1>3, TopicFacts, StepsSuit
  <1>5. "pay_success" \in Counters /\ AggStep("pay_success") = "pay_agg"
    BY DEF Counters, AggStep
  <1>6. CASE /\ At(c, "pay")
             /\ RecordRaw(c, "pay_success", "pay_agg", AfterPay(e))
             /\ UNCHANGED agg
    <2>1. ~ At(c, "pay_agg") /\ ~ At(c, "close_agg") BY <1>6 DEF At
    <2> QED BY <1>1, <1>2, <1>3, <1>4, <1>5, <1>6, <2>1, RawStep
  <1>7. CASE /\ At(c, "pay_agg")
             /\ CountUp(c, "pay_success", AfterPay(e))
             /\ UNCHANGED raw
    BY <1>1, <1>2, <1>3, <1>4, <1>5, <1>7, CountUpStep
  <1> QED BY <1>6, <1>7 DEF RecordPaySuccess

LEMMA CloseStep ==
  ASSUME FeedInv, NEW c \in Consumers, RecordOrderClosed(c)
  PROVE  FeedInv' /\ CountMove
  <1> DEFINE e == Msg(c)
  <1>1. /\ At(c, "close") \/ At(c, "close_agg")
        /\ UNCHANGED <<order, clock, emitVars, topic, linkVars, window>>
    BY DEF RecordOrderClosed
  <1>2. Busy(c) BY <1>1, ConsumerKind DEF At, FeedInv
  <1>3. e \in topic /\ Suits("close_agg", e)
    BY <1>1, <1>2 DEF FeedInv, ConsumeSide, Suits, At
  <1>4. AfterClose(e) \in {"window", "commit"} /\ Suits(AfterClose(e), e)
    BY <1>3, TopicFacts, StepsSuit
  <1>5. "order_closed" \in Counters /\ AggStep("order_closed") = "close_agg"
    BY DEF Counters, AggStep
  <1>6. CASE /\ At(c, "close")
             /\ RecordRaw(c, "order_closed", "close_agg", AfterClose(e))
             /\ UNCHANGED agg
    <2>1. ~ At(c, "pay_agg") /\ ~ At(c, "close_agg") BY <1>6 DEF At
    <2> QED BY <1>1, <1>2, <1>3, <1>4, <1>5, <1>6, <2>1, RawStep
  <1>7. CASE /\ At(c, "close_agg")
             /\ CountUp(c, "order_closed", AfterClose(e))
             /\ UNCHANGED raw
    BY <1>1, <1>2, <1>3, <1>4, <1>5, <1>7, CountUpStep
  <1> QED BY <1>6, <1>7 DEF RecordOrderClosed

LEMMA WindowStep ==
  ASSUME FeedInv, NEW c \in Consumers, RecordCompletedWindow(c)
  PROVE  FeedInv' /\ CountMove
  <1> USE DEF FeedInv, linkVars
  <1> DEFINE e == Msg(c)
  <1>1. /\ At(c, "window") /\ Goto(c, "commit", e)
        /\ window' = window \/ window' = window \cup {<<e.order, e.at>>}
        /\ UNCHANGED <<order, clock, emitVars, topic, linkVars, raw, agg>>
        /\ Fault \/ UNCHANGED faults
    BY DEF RecordCompletedWindow
  <1>2. Busy(c) BY <1>1, ConsumerKind DEF At
  <1>3. e \in topic BY <1>2 DEF ConsumeSide
  <1>4. e \in Event /\ Suits("commit", e) BY <1>3, StepsSuit DEF TypeOK
  <1>5. /\ committed' \subseteq topic
        /\ consumer' \in [Consumers -> Consuming \cup {Idle}]
        /\ ConsumeSide'
        /\ \A d \in Consumers \ {c} : consumer'[d] = consumer[d]
        /\ consumer'[c].step = "idle"
    BY <1>1, <1>3, <1>4, GotoKeeps
  <1>6. window' \subseteq Orders \X (0..MaxClock) BY <1>1, <1>4 DEF TypeOK, Event
  <1>7. LinkSide' /\ RawSide' BY <1>1 DEF LinkSide, LinkNeverAhead, RawSide
  <1>8. FeedInv' BY <1>1, <1>5, <1>6, <1>7, FaultType, SeckillRpcStep DEF TypeOK
  <1>9. \A d \in Consumers :
          consumer'[d].step \in {"pay_agg", "close_agg"} => consumer'[d] = consumer[d]
    BY <1>5
  <1> QED BY <1>1, <1>8, <1>9, SteadyStep

LEMMA HandleStep ==
  ASSUME FeedInv, NEW c \in Consumers, HandleMessage(c) \/ HandleAgain(c)
  PROVE  FeedInv' /\ CountMove
  <1>1. PICK e \in topic : SyncOrderLinkState(c, e) /\ (Fault \/ UNCHANGED faults)
    BY DEF HandleMessage, HandleAgain
  <1>2. Fault01 BY <1>1, FaultType DEF FeedInv
  <1>3. /\ FeedInv'
        /\ \A d \in Consumers \ {c} : consumer'[d] = consumer[d]
        /\ consumer'[c].step \notin {"pay_agg", "close_agg"}
    BY <1>1, <1>2, SyncKeeps
  <1>4. agg' = agg /\ raw' = raw BY <1>1 DEF SyncOrderLinkState, statVars
  <1>5. \A d \in Consumers :
          consumer'[d].step \in {"pay_agg", "close_agg"} => consumer'[d] = consumer[d]
    BY <1>3
  <1> QED BY <1>3, <1>4, <1>5, SteadyStep

(* A consumer that gives up, or all of them at a restart.                  *)
LEMMA ConsumersStop ==
  ASSUME FeedInv, UNCHANGED <<order, clock, emitVars, topic, committed, link, linkAsked, statVars>>,
         Fault, linkQueue' \subseteq linkQueue,
         consumer' \in [Consumers -> Consuming \cup {Idle}],
         \A d \in Consumers : consumer'[d] \in {consumer[d], Idle}
  PROVE  FeedInv' /\ CountMove
  <1> USE DEF FeedInv, statVars
  <1>1. ConsumeSide' BY DEF ConsumeSide, Busy, Msg
  <1>2. LinkSide' /\ RawSide' BY DEF LinkSide, LinkNeverAhead, RawSide
  <1>3. FeedInv' BY <1>1, <1>2, FaultType, SeckillRpcStep DEF TypeOK
  <1>4. \A d \in Consumers :
          consumer'[d].step \in {"pay_agg", "close_agg"} => consumer'[d] = consumer[d]
    BY DEF Idle
  <1> QED BY <1>3, <1>4, SteadyStep

LEMMA LinkStep ==
  ASSUME FeedInv, NEW o \in Orders, PersistOrderLink(o) \/ CreateOrderLink(o)
  PROVE  FeedInv' /\ CountMove
  <1> USE DEF FeedInv, statVars, topicVars
  <1>1. /\ UNCHANGED <<order, clock, emitVars, topicVars, statVars>>
        /\ Fault \/ UNCHANGED faults
        /\ link' = link \/ link' = [link EXCEPT ![o] = "created"]
        /\ linkAsked' \in {linkAsked, linkAsked \cup {o}}
        /\ linkQueue' \subseteq linkAsked'
    BY DEF PersistOrderLink, CreateOrderLink, WriteLink, TypeOK
  <1>2. order[o] # "none" /\ order[o] \in States
    BY DEF PersistOrderLink, CreateOrderLink, TypeOK, LinkSide
  <1>3. "created" \in Passed(order[o]) BY <1>2, PassedState DEF Passed, States
  <1>4. link' \in [Orders -> States] BY <1>1 DEF TypeOK, States
  <1>5. LinkSide' BY <1>1, <1>2, <1>3 DEF LinkSide, LinkNeverAhead, TypeOK
  <1>6. RawSide' /\ ConsumeSide' BY <1>1 DEF RawSide, ConsumeSide, Busy, Msg
  <1>7. Fault01 BY <1>1, FaultType
  <1>8. FeedInv' BY <1>1, <1>4, <1>5, <1>6, <1>7, SeckillRpcStep DEF TypeOK
  <1>9. CountMove BY <1>1, SteadyStep
  <1> QED BY <1>8, <1>9

-----------------------------------------------------------------------------
LEMMA NextFeed == FeedInv /\ [Next]_vars => FeedInv' /\ CountMove
  <1> SUFFICES ASSUME FeedInv, [Next]_vars PROVE FeedInv' /\ CountMove OBVIOUS
  <1>1. ASSUME UNCHANGED <<topicVars, statVars>> \/ UNCHANGED <<consumer, statVars>>
        PROVE  CountMove
    BY <1>1, SteadyStep DEF topicVars, statVars
  <1>2. CASE UNCHANGED vars
    <2>1. FeedInv'
      BY <1>2, OrderRpcStep DEF vars, emitVars, FeedInv, TypeOK, EmitSide
    <2> QED BY <1>1, <1>2, <2>1 DEF vars
  <1>3. CASE Tick
    <2>1. clock' \in 0..MaxClock BY <1>3, FeedAssumption DEF Tick, FeedInv, TypeOK
    <2>2. FeedInv'
      BY <1>3, <2>1, OrderRpcStep DEF Tick, emitVars, FeedInv, TypeOK, EmitSide
    <2> QED BY <1>1, <1>3, <2>2 DEF Tick
  <1>4. ASSUME NEW o \in Orders, ChangeOrder(o) \/ PersistOrderLink(o) \/ CreateOrderLink(o)
        PROVE  FeedInv' /\ CountMove
    BY <1>1, <1>4, ChangeKeeps, LinkStep DEF ChangeOrder
  <1>5. ASSUME NEW e \in emitting, EmitSeckillOrderEvent(e)
        PROVE  FeedInv' /\ CountMove
    BY <1>1, <1>5, EmitKeeps DEF EmitSeckillOrderEvent
  <1>6. ASSUME NEW w \in Workers, Publish(w) \/ PublishFails(w)
        PROVE  FeedInv' /\ CountMove
    <2>1. FeedInv' BY <1>6, TakeKeeps, PublishKeeps DEF Publish
    <2>2. UNCHANGED <<consumer, statVars>>
      BY <1>6 DEF Publish, TakeEvent, PublishSeckillOrderEvent, PublishFails, topicVars
    <2> QED BY <1>1, <2>1, <2>2
  <1>7. ASSUME NEW c \in Consumers, Consume(c) \/ HandleAgain(c)
        PROVE  FeedInv' /\ CountMove
    BY <1>7, HandleStep, PayStep, CloseStep, WindowStep DEF Consume
  <1>8. ASSUME NEW c \in Consumers, ConsumerFails(c) PROVE FeedInv' /\ CountMove
    BY <1>8, ConsumersStop DEF ConsumerFails, linkVars, FeedInv, TypeOK
  <1>9. CASE OrderRpcRestarts
    BY <1>1, <1>9, OrderRpcRestartKeeps DEF OrderRpcRestarts
  <1>10. CASE SeckillRpcRestarts
    BY <1>10, ConsumersStop DEF SeckillRpcRestarts
  <1> QED BY <1>2, <1>3, <1>4, <1>5, <1>6, <1>7, <1>8, <1>9, <1>10 DEF Next

LEMMA InitFeed == Init => FeedInv /\ CountInv
  <1> SUFFICES ASSUME Init PROVE FeedInv /\ CountInv OBVIOUS
  <1>1. TypeOK
    <2>1. queue \in Seq(Event) /\ Len(queue) <= QueueSize
      BY FeedAssumption DEF Init
    <2>2. /\ order \in [Orders -> States] /\ link \in [Orders -> States]
          /\ agg \in [Counters -> Nat] /\ clock \in 0..MaxClock
          /\ faults \in 0..MaxFaults
      BY FeedAssumption DEF Init, States
    <2> QED BY <2>1, <2>2 DEF Init, TypeOK
  <1>2. EmitSide /\ TopicSide /\ RawSide /\ ConsumeSide
    BY DEF Init, EmitSide, TopicSide, RawSide, ConsumeSide, Busy
  <1>3. LinkSide
    BY DEF Init, LinkSide, LinkNeverAhead, Passed
  <1>4. CountInv
    <2> SUFFICES ASSUME NEW k \in Counters
                 PROVE  agg[k] + Cardinality(Counting(k)) <= Cardinality(Claimed(k))
      BY DEF CountInv
    <2>1. Counting(k) = {} BY DEF Init, Counting, At, AggStep, Idle
    <2>2. agg[k] = 0 BY DEF Init
    <2> QED BY <2>1, <2>2, Finite, FS_EmptySet
  <1> QED BY <1>1, <1>2, <1>3, <1>4 DEF FeedInv

LEMMA NextCounts == FeedInv /\ CountInv /\ [Next]_vars => CountInv'
  BY NextFeed, CountStep DEF FeedInv

-----------------------------------------------------------------------------
(* Every row, queue, worker and consumer keeps its type, and the queue its  *)
(* bound.                                                                  *)
THEOREM TypeCorrect == Spec => []TypeOK
  <1>1. FeedInv => TypeOK BY DEF FeedInv
  <1> QED BY InitFeed, NextFeed, <1>1, PTL DEF Spec

(* In whatever order events arrive, and however many are lost or repeated,  *)
(* a link shows a state that its order has been in.                        *)
THEOREM LinksFollow == Spec => []LinkNeverAhead
  <1>1. FeedInv => LinkNeverAhead BY DEF FeedInv, LinkSide
  <1> QED BY InitFeed, NextFeed, <1>1, PTL DEF Spec

(* Whatever is delivered again, an order is counted at most once as paid    *)
(* and once as closed, and only if it was.                                 *)
THEOREM CountedOnce == Spec => []CountedAtMostOnce
  <1>1. FeedInv /\ CountInv => CountedAtMostOnce
    <2> SUFFICES ASSUME FeedInv, CountInv PROVE CountedAtMostOnce OBVIOUS
    <2>1. \A k \in Counters : agg[k] <= Cardinality(Claimed(k))
      <3> SUFFICES ASSUME NEW k \in Counters PROVE agg[k] <= Cardinality(Claimed(k))
        OBVIOUS
      <3>1. agg[k] \in Nat BY DEF FeedInv, TypeOK
      <3> QED BY <3>1, Finite DEF CountInv
    <2> QED BY <2>1 DEF FeedInv, RawSide, CountedAtMostOnce
  <1> QED BY InitFeed, NextFeed, NextCounts, <1>1, PTL DEF Spec

-----------------------------------------------------------------------------
(* A feed without failures.                                                *)

(* The state s of order o is somewhere between the handler and the topic.  *)
Tells(e, o, s) == e.order = o /\ e.state = s

InFlight(o, s) ==
  \/ \E e \in emitting : Tells(e, o, s)
  \/ \E i \in 1..Len(queue) : Tells(queue[i], o, s)
  \/ \E w \in Workers : worker[w] # Idle /\ Tells(worker[w].event, o, s)
  \/ \E e \in topic : Tells(e, o, s)

Told == \A o \in Orders : order[o] # "none" => InFlight(o, order[o])

(* What a consumer that reached step has recorded of event e.              *)
Through(step, e) ==
  /\ step \in {"pay_agg", "close", "close_agg", "window", "commit"} =>
       (e.state \in WasPaid => <<e.order, "pay_success">> \in raw)
  /\ step \in {"close_agg", "window", "commit"} =>
       (e.state \in Closed => <<e.order, "order_closed">> \in raw)
  /\ step = "commit" => (e.state = "completed" => Samples(e.order) # {})

Recorded ==
  /\ \A c \in Consumers : Busy(c) => Through(consumer[c].step, Msg(c))
  /\ \A e \in committed : Through("commit", e)

(* No order that was claimed is forgotten.                                 *)
Exact ==
  \A k \in Counters : Cardinality(Claimed(k)) <= agg[k] + Cardinality(Counting(k))

SampleSide ==
  \A o \in Orders : Samples(o) # {} => order[o] = "completed"

QuietInv == SampleSide /\ (faults = 0 => Told /\ Recorded /\ Exact)

LEMMA FaultFree ==
  ASSUME TypeOK, [Next]_vars, faults' = 0
  PROVE  faults = 0 /\ ~ Fault
  <1>1. faults \in Nat
    BY FeedAssumption DEF TypeOK
  <1>2. ~ Fault
    BY <1>1 DEF Fault
  <1>3. ASSUME NEW o \in Orders, ChangeOrder(o) \/ PersistOrderLink(o) \/ CreateOrderLink(o)
        PROVE  faults' = faults
    BY <1>2, <1>3 DEF ChangeOrder, PersistOrderLink, CreateOrderLink
  <1>4. ASSUME NEW e \in emitting, EmitSeckillOrderEvent(e) PROVE faults' = faults
    BY <1>4 DEF EmitSeckillOrderEvent
  <1>5. ASSUME NEW w \in Workers, Publish(w) \/ PublishFails(w) PROVE faults' = faults
    BY <1>2, <1>5 DEF Publish, TakeEvent, PublishSeckillOrderEvent, PublishFails
  <1>6. ASSUME NEW c \in Consumers, Consume(c) \/ HandleAgain(c) \/ ConsumerFails(c)
        PROVE  faults' = faults
    BY <1>2, <1>6 DEF Consume, HandleMessage, RecordPaySuccess, RecordOrderClosed,
       RecordCompletedWindow, HandleAgain, ConsumerFails, RecordRaw, CountUp
  <1>7. CASE Tick
    BY <1>2, <1>7 DEF Tick
  <1>8. CASE UNCHANGED vars
    BY <1>2, <1>8 DEF vars
  <1>9. faults' = faults
    BY <1>2, <1>3, <1>4, <1>5, <1>6, <1>7, <1>8
    DEF Next, OrderRpcRestarts, SeckillRpcRestarts, Tick, vars
  <1> QED
    BY <1>2, <1>9

-----------------------------------------------------------------------------
(* order-rpc: what was announced gets to the topic.                        *)
LEMMA StillInFlight ==
  ASSUME NEW o, NEW s, InFlight(o, s),
         emitting \subseteq emitting', UNCHANGED <<queue, worker>>, topic \subseteq topic'
  PROVE  InFlight(o, s)'
  BY DEF InFlight, Tells

LEMMA ToldAtChange ==
  ASSUME FeedInv, Told, NEW o \in Orders, ChangeOrder(o)
  PROVE  Told'
  <1>1. PICK s \in Follows(order[o]) :
          /\ order' = [order EXCEPT ![o] = s]
          /\ emitting' = emitting \cup Announced(o, s)
    BY DEF ChangeOrder
  <1>2. UNCHANGED <<queue, worker, topic>>
    BY DEF ChangeOrder, topicVars
  <1>3. \E e \in Announced(o, s) : Tells(e, o, s)
    <2>1. CASE s = "completed"
      <3>1. PICK e : e = [order |-> o, state |-> s, type |-> "closed"]
        OBVIOUS
      <3>2. e \in Announced(o, s)
        BY <2>1, <3>1 DEF Announced
      <3> QED
        BY <3>1, <3>2 DEF Tells
    <2>2. CASE s # "completed"
      <3>1. PICK e : e = [order |-> o, state |-> s, type |-> "state"]
        OBVIOUS
      <3>2. e \in Announced(o, s)
        BY <2>2, <3>1 DEF Announced
      <3> QED
        BY <3>1, <3>2 DEF Tells
    <2> QED
      BY <2>1, <2>2
  <1>4. InFlight(o, s)'
    BY <1>1, <1>3 DEF InFlight, Tells
  <1>5. order'[o] = s /\ \A p \in Orders \ {o} : order'[p] = order[p]
    BY <1>1 DEF FeedInv, TypeOK
  <1>6. \A p \in Orders : InFlight(p, order[p]) => InFlight(p, order[p])'
    <2> SUFFICES ASSUME NEW p \in Orders, InFlight(p, order[p]) PROVE InFlight(p, order[p])'
      OBVIOUS
    <2>1. CASE p = o
      BY <1>4, <1>5, <2>1 DEF InFlight, Tells
    <2>2. CASE p # o
      <3>1. PICK t : t = order[p]
        OBVIOUS
      <3>2. InFlight(p, t)'
        BY <1>1, <1>2, <3>1, StillInFlight
      <3> QED
        BY <1>5, <2>2, <3>1, <3>2 DEF InFlight, Tells
    <2> QED
      BY <2>1, <2>2
  <1>7. ASSUME NEW p \in Orders, order'[p] # "none" PROVE InFlight(p, order[p])'
    BY <1>4, <1>5, <1>6, <1>7 DEF Told, InFlight, Tells
  <1> QED
    BY <1>7 DEF Told

LEMMA ToldKept ==
  ASSUME Told, UNCHANGED order,
         \A o \in Orders : \A s \in States : InFlight(o, s) => InFlight(o, s)',
         order \in [Orders -> States]
  PROVE  Told'
  <1> SUFFICES ASSUME NEW o \in Orders, order[o] # "none" PROVE InFlight(o, order[o])'
    BY DEF Told
  <1>1. PICK s \in States : s = order[o]
    OBVIOUS
  <1>2. InFlight(o, s)'
    BY <1>1 DEF Told
  <1> QED
    BY <1>1, <1>2 DEF InFlight, Tells

LEMMA ToldAtEmit ==
  ASSUME FeedInv, Told, NEW e \in emitting, EmitSeckillOrderEvent(e)
  PROVE  Told'
  <1>1. /\ UNCHANGED <<order, topic>> /\ emitting' = emitting \ {e}
        /\ Stamped(e).order = e.order /\ Stamped(e).state = e.state
        /\ Stamped(e) \in Event
    BY StampedKind DEF EmitSeckillOrderEvent, topicVars, FeedInv, TypeOK
  <1>2. /\ queue \in Seq(Event) /\ Len(queue) \in Nat
        /\ worker \in [Workers -> Publishing \cup {Idle}]
    BY DEF FeedInv, TypeOK
  <1> SUFFICES ASSUME NEW o \in Orders, NEW s \in States, InFlight(o, s)
               PROVE  InFlight(o, s)'
    BY <1>1, ToldKept DEF FeedInv, TypeOK
  <1>3. CASE Len(queue) < QueueSize /\ queue' = Append(queue, Stamped(e)) /\ UNCHANGED worker
    <2>1. /\ Len(queue') = Len(queue) + 1
          /\ queue'[Len(queue) + 1] = Stamped(e)
          /\ \A i \in 1..Len(queue) : queue'[i] = queue[i]
      BY <1>1, <1>2, <1>3
    <2>2. 1..Len(queue) \subseteq 1..Len(queue') /\ Len(queue) + 1 \in 1..Len(queue')
      BY <1>2, <2>1
    <2>3. CASE Tells(e, o, s)
      <3>1. Tells(queue'[Len(queue) + 1], o, s)
        BY <1>1, <2>1, <2>3 DEF Tells
      <3> QED
        BY <2>2, <3>1 DEF InFlight, Tells
    <2>4. CASE \E i \in 1..Len(queue) : Tells(queue[i], o, s)
      BY <2>1, <2>2, <2>4 DEF InFlight, Tells
    <2> QED
      BY <1>1, <1>3, <2>3, <2>4 DEF InFlight, Tells
  <1>4. ASSUME NEW w \in Workers, UNCHANGED queue, worker[w] = Idle,
               worker' = [worker EXCEPT ![w] = [step |-> "publish", event |-> Stamped(e)]]
        PROVE  InFlight(o, s)'
    <2>1. PICK p : p = [step |-> "publish", event |-> Stamped(e)]
      OBVIOUS
    <2>2. p # Idle /\ p.event = Stamped(e)
      BY <2>1 DEF Idle
    <2>3. worker'[w] = p /\ \A v \in Workers \ {w} : worker'[v] = worker[v]
      BY <1>2, <1>4, <2>1
    <2>4. CASE Tells(e, o, s)
      BY <1>1, <2>2, <2>3, <2>4 DEF InFlight, Tells
    <2>5. CASE \E v \in Workers : worker[v] # Idle /\ Tells(worker[v].event, o, s)
      BY <1>4, <2>3, <2>5 DEF InFlight, Tells
    <2> QED
      BY <1>1, <1>4, <2>4, <2>5 DEF InFlight, Tells
  <1> QED
    BY <1>3, <1>4 DEF EmitSeckillOrderEvent

LEMMA ToldAtTake ==
  ASSUME FeedInv, Told, NEW w \in Workers, TakeEvent(w)
  PROVE  Told'
  <1>1. /\ UNCHANGED <<order, emitting, topic>>
        /\ worker[w] = Idle /\ queue # <<>> /\ queue' = Tail(queue)
        /\ worker' = [worker EXCEPT ![w] = [step |-> "publish", event |-> Head(queue)]]
    BY DEF TakeEvent, topicVars
  <1>2. /\ queue \in Seq(Event) /\ Len(queue) \in Nat \ {0}
        /\ worker \in [Workers -> Publishing \cup {Idle}]
    BY <1>1 DEF FeedInv, TypeOK
  <1>3. /\ Len(queue') = Len(queue) - 1 /\ Head(queue) = queue[1]
        /\ \A i \in 1..Len(queue') : queue'[i] = queue[i + 1]
    BY <1>1, <1>2
  <1>4. PICK p : p = [step |-> "publish", event |-> Head(queue)]
    OBVIOUS
  <1>5. p # Idle /\ p.event = queue[1]
    BY <1>3, <1>4 DEF Idle
  <1>6. worker'[w] = p /\ \A v \in Workers \ {w} : worker'[v] = worker[v]
    BY <1>1, <1>2, <1>4
  <1> SUFFICES ASSUME NEW o \in Orders, NEW s \in States, InFlight(o, s)
               PROVE  InFlight(o, s)'
    BY <1>1, ToldKept DEF FeedInv, TypeOK
  <1>7. ASSUME NEW i \in 1..Len(queue), Tells(queue[i], o, s) PROVE InFlight(o, s)'
    <2>1. CASE i = 1
      BY <1>5, <1>6, <1>7, <2>1 DEF InFlight, Tells
    <2>2. CASE i # 1
      <3>1. i - 1 \in 1..Len(queue') /\ (i - 1) + 1 = i
        BY <1>2, <1>3, <2>2
      <3>2. queue'[i - 1] = queue[i]
        BY <1>3, <3>1
      <3> QED
        BY <1>7, <3>1, <3>2 DEF InFlight, Tells
    <2> QED
      BY <2>1, <2>2
  <1>8. CASE \E v \in Workers : worker[v] # Idle /\ Tells(worker[v].event, o, s)
    BY <1>1, <1>6, <1>8 DEF InFlight, Tells
  <1> QED
    BY <1>1, <1>7, <1>8 DEF InFlight, Tells

LEMMA ToldAtPublish ==
  ASSUME FeedInv, Told, NEW w \in Workers, PublishSeckillOrderEvent(w)
  PROVE  Told'
  <1>1. /\ UNCHANGED <<order, emitting, queue>> /\ worker[w] # Idle
        /\ topic' = topic \cup {worker[w].event}
        /\ worker' = [worker EXCEPT ![w] = Idle]
    BY DEF PublishSeckillOrderEvent, Store
  <1>2. \A v \in Workers \ {w} : worker'[v] = worker[v]
    BY <1>1 DEF FeedInv, TypeOK
  <1> SUFFICES ASSUME NEW o \in Orders, NEW s \in States, InFlight(o, s)
               PROVE  InFlight(o, s)'
    BY <1>1, ToldKept DEF FeedInv, TypeOK
  <1>3. CASE \E v \in Workers : worker[v] # Idle /\ Tells(worker[v].event, o, s)
    BY <1>1, <1>2, <1>3 DEF InFlight, Tells
  <1> QED
    BY <1>1, <1>3 DEF InFlight, Tells

-----------------------------------------------------------------------------
(* seckill-rpc: what a consumer has recorded when it moves on.             *)
LEMMA ThroughKept ==
  ASSUME NEW step, NEW e, Through(step, e), raw \subseteq raw', window \subseteq window'
  PROVE  Through(step, e)'
  BY DEF Through, Samples

LEMMA RecordedMoves ==
  ASSUME FeedInv, Recorded, UNCHANGED topic,
         raw \subseteq raw', window \subseteq window',
         NEW c \in Consumers, NEW e \in topic,
         NEW step \in {"pay", "pay_agg", "close", "close_agg", "window", "commit"},
         Suits(step, e), Goto(c, step, e), Through(step, e)'
  PROVE  Recorded'
  <1>1. \A d \in Consumers \ {c} : consumer'[d] = consumer[d]
    BY GotoKeeps
  <1>2. \A d \in Consumers \ {c} : Busy(d)' => Through(consumer[d].step, Msg(d))'
    <2> SUFFICES ASSUME NEW d \in Consumers \ {c}, Busy(d)'
                 PROVE  Through(consumer[d].step, Msg(d))'
      OBVIOUS
    <2>1. Busy(d) /\ Msg(d)' = Msg(d) /\ consumer'[d].step = consumer[d].step
      BY <1>1 DEF Busy, Msg
    <2>2. Through(consumer[d].step, Msg(d))
      BY <2>1 DEF Recorded
    <2>3. PICK t, m : t = consumer[d].step /\ m = Msg(d)
      OBVIOUS
    <2>4. Through(t, m)'
      BY <2>2, <2>3, ThroughKept
    <2> QED
      BY <2>1, <2>3, <2>4 DEF Through, Samples
  <1>3. \A m \in committed : Through("commit", m)'
    BY ThroughKept DEF Recorded
  <1>4. consumer \in [Consumers -> Consuming \cup {Idle}]
    BY DEF FeedInv, TypeOK
  <1>5. CASE step = "commit"
    <2>1. consumer'[c] = Idle /\ committed' = committed \cup {e}
      BY <1>4, <1>5 DEF Goto
    <2>2. ~ Busy(c)'
      BY <2>1 DEF Busy
    <2>3. \A m \in committed' : Through("commit", m)'
      BY <1>3, <1>5, <2>1
    <2> QED
      BY <1>2, <2>2, <2>3 DEF Recorded
  <1>6. CASE step # "commit"
    <2>1. PICK s : s = [step |-> step, event |-> e]
      OBVIOUS
    <2>2. consumer'[c] = s /\ committed' = committed
      BY <1>4, <1>6, <2>1 DEF Goto
    <2>3. s.step = step /\ s.event = e
      BY <2>1
    <2>4. Through(consumer[c].step, Msg(c))'
      BY <2>2, <2>3 DEF Through, Msg, Samples
    <2> QED
      BY <1>2, <1>3, <2>2, <2>4 DEF Recorded
  <1> QED
    BY <1>5, <1>6

(* What moves between the keys and the counts, from below.                 *)
StaysExact ==
  /\ agg' = agg /\ raw' = raw
  /\ \A k \in Counters : Counting(k) \subseteq Counting(k)'

ClaimsExactly(c, k, o) ==
  /\ raw' = raw \cup {<<o, k>>} /\ agg' = agg
  /\ c \notin Counting(k)
  /\ Counting(k) \cup {c} \subseteq Counting(k)'
  /\ \A j \in Counters \ {k} : Counting(j) \subseteq Counting(j)'

CountsExactly(c, k) ==
  /\ raw' = raw /\ agg' = [agg EXCEPT ![k] = @ + 1]
  /\ c \in Counting(k)
  /\ Counting(k) \ {c} \subseteq Counting(k)'
  /\ \A j \in Counters \ {k} : Counting(j) \subseteq Counting(j)'

ExactMove ==
  \/ StaysExact
  \/ \E c \in Consumers, k \in Counters :
       (\E o \in Orders : ClaimsExactly(c, k, o)) \/ CountsExactly(c, k)

LEMMA ExactStep ==
  ASSUME TypeOK, Exact, ExactMove
  PROVE  Exact'
  <1> SUFFICES ASSUME NEW k \in Counters
               PROVE  Cardinality(Claimed(k)') <= agg'[k] + Cardinality(Counting(k)')
    BY DEF Exact
  <1>1. /\ agg \in [Counters -> Nat]
        /\ Cardinality(Claimed(k)) <= agg[k] + Cardinality(Counting(k))
    BY DEF TypeOK, Exact
  <1>2. ASSUME agg'[k] = agg[k], Claimed(k)' = Claimed(k), Counting(k) \subseteq Counting(k)'
        PROVE  Cardinality(Claimed(k)') <= agg'[k] + Cardinality(Counting(k)')
    <2>1. Cardinality(Counting(k)) <= Cardinality(Counting(k)')
      BY <1>2, Finite, FS_Subset
    <2> QED
      BY <1>1, <1>2, <2>1, Finite
  <1>3. CASE StaysExact
    BY <1>2, <1>3 DEF StaysExact, Claimed
  <1>4. ASSUME NEW c \in Consumers, NEW j \in Counters, NEW o \in Orders,
               ClaimsExactly(c, j, o)
        PROVE  Cardinality(Claimed(k)') <= agg'[k] + Cardinality(Counting(k)')
    <2>1. CASE j # k
      <3>1. Claimed(k)' = Claimed(k)
        BY <1>4, <2>1 DEF ClaimsExactly, Claimed
      <3> QED
        BY <1>2, <1>4, <2>1, <3>1 DEF ClaimsExactly
    <2>2. CASE j = k
      <3>1. Claimed(k)' = Claimed(k) \cup {o}
        BY <1>4, <2>2 DEF ClaimsExactly, Claimed
      <3>2. Cardinality(Claimed(k)') <= Cardinality(Claimed(k)) + 1
        <4>1. Cardinality(Claimed(k) \cup {o}) =
                IF o \in Claimed(k) THEN Cardinality(Claimed(k))
                ELSE Cardinality(Claimed(k)) + 1
          BY Finite, FS_AddElement
        <4> QED
          BY <3>1, <4>1, Finite
      <3>3. Cardinality(Counting(k) \cup {c}) = Cardinality(Counting(k)) + 1
        BY <1>4, <2>2, Finite, FS_AddElement DEF ClaimsExactly
      <3>4. Cardinality(Counting(k) \cup {c}) <= Cardinality(Counting(k)')
        BY <1>4, <2>2, Finite, FS_Subset DEF ClaimsExactly
      <3>5. agg'[k] = agg[k]
        BY <1>4 DEF ClaimsExactly
      <3> QED
        BY <1>1, <3>2, <3>3, <3>4, <3>5, Finite
    <2> QED
      BY <2>1, <2>2
  <1>5. ASSUME NEW c \in Consumers, NEW j \in Counters, CountsExactly(c, j)
        PROVE  Cardinality(Claimed(k)') <= agg'[k] + Cardinality(Counting(k)')
    <2>1. Claimed(k)' = Claimed(k)
      BY <1>5 DEF CountsExactly, Claimed
    <2>2. CASE j # k
      <3>1. agg'[k] = agg[k]
        BY <1>1, <1>5, <2>2 DEF CountsExactly
      <3> QED
        BY <1>2, <1>5, <2>1, <2>2, <3>1 DEF CountsExactly
    <2>3. CASE j = k
      <3>1. agg'[k] = agg[k] + 1
        BY <1>1, <1>5, <2>3 DEF CountsExactly
      <3>2. Cardinality(Counting(k) \ {c}) = Cardinality(Counting(k)) - 1
        BY <1>5, <2>3, Finite, FS_RemoveElement DEF CountsExactly
      <3>3. Cardinality(Counting(k) \ {c}) <= Cardinality(Counting(k)')
        BY <1>5, <2>3, Finite, FS_Subset DEF CountsExactly
      <3> QED
        BY <1>1, <2>1, <3>1, <3>2, <3>3, Finite
    <2> QED
      BY <2>2, <2>3
  <1> QED
    BY <1>3, <1>4, <1>5 DEF ExactMove

(* Nobody begins or ends a count.                                          *)
LEMMA StaysExactStep ==
  ASSUME agg' = agg, raw' = raw,
         \A d \in Consumers :
           consumer[d].step \in {"pay_agg", "close_agg"} => consumer'[d] = consumer[d]
  PROVE  ExactMove
  <1>1. StaysExact
    BY DEF StaysExact, Counting, At, AggStep
  <1> QED
    BY <1>1 DEF ExactMove

LEMMA HandleRecords ==
  ASSUME FeedInv, Recorded, NEW c \in Consumers, HandleMessage(c)
  PROVE  Recorded' /\ ExactMove
  <1>1. PICK e \in topic : SyncOrderLinkState(c, e)
    BY DEF HandleMessage
  <1>2. /\ ~ Busy(c) /\ Goto(c, AfterSync(e), e)
        /\ UNCHANGED <<topic, raw, agg, window>>
    BY <1>1 DEF SyncOrderLinkState, statVars
  <1>3. e \in Event
    BY TopicFacts
  <1>4. AfterSync(e) \in {"pay", "close", "commit"} /\ Suits(AfterSync(e), e)
    BY <1>3, StepsSuit
  <1>5. Through(AfterSync(e), e)'
    BY DEF AfterSync, Through, WasPaid, Closed
  <1>6. PICK step \in {"pay", "close", "commit"} : step = AfterSync(e)
    BY <1>4
  <1>7. /\ Suits(step, e) /\ Goto(c, step, e) /\ Through(step, e)'
    BY <1>2, <1>4, <1>5, <1>6
  <1>8. Recorded'
    BY <1>2, <1>7, RecordedMoves
  <1>9. \A d \in Consumers \ {c} : consumer'[d] = consumer[d]
    BY <1>2, <1>7, GotoKeeps
  <1>10. consumer[c].step = "idle"
    BY <1>2 DEF Busy, Idle
  <1>11. ExactMove
    BY <1>2, <1>9, <1>10, StaysExactStep
  <1> QED
    BY <1>8, <1>11

(* A consumer claims a key, or finds it claimed.                           *)
LEMMA RawRecords ==
  ASSUME FeedInv, Recorded, ~ Fault, NEW c \in Consumers, NEW k \in Counters,
         NEW here \in {"pay", "close"}, At(c, here), Busy(c),
         NEW next \in {"close", "window", "commit"},
         NEW e \in topic, e = Msg(c), Suits(AggStep(k), e), Suits(next, e),
         RecordRaw(c, k, AggStep(k), next), UNCHANGED <<topic, window, agg>>,
         <<e.order, k>> \in raw' => Through(AggStep(k), e)' /\ Through(next, e)'
  PROVE  Recorded' /\ ExactMove
  <1>1. e.order \in Orders
    BY TopicFacts
  <1>2. AggStep(k) \in {"pay_agg", "close_agg"}
    BY DEF AggStep
  <1>3. c \notin Counting(k)
    BY DEF Counting, At, AggStep
  <1>4. CASE <<e.order, k>> \in raw /\ Goto(c, next, e) /\ UNCHANGED raw
    <2>1. Recorded'
      BY <1>4, RecordedMoves
    <2>2. \A d \in Consumers \ {c} : consumer'[d] = consumer[d]
      BY <1>4, GotoKeeps
    <2>3. consumer[c].step \notin {"pay_agg", "close_agg"}
      BY DEF At
    <2>4. ExactMove
      BY <1>4, <2>2, <2>3, StaysExactStep
    <2> QED
      BY <2>1, <2>4
  <1>5. CASE raw' = raw \cup {<<e.order, k>>} /\ Goto(c, AggStep(k), e)
    <2>1. Recorded'
      BY <1>2, <1>5, RecordedMoves
    <2>2. /\ \A d \in Consumers \ {c} : consumer'[d] = consumer[d]
          /\ consumer'[c].step = AggStep(k)
      BY <1>2, <1>5, GotoKeeps
    <2>3. ClaimsExactly(c, k, e.order)
      BY <1>3, <1>5, <2>2 DEF ClaimsExactly, Counting, At, AggStep, Counters
    <2> QED
      BY <1>1, <2>1, <2>3 DEF ExactMove
  <1> QED
    BY <1>4, <1>5 DEF RecordRaw

(* It counts what it has claimed.                                          *)
LEMMA CountRecords ==
  ASSUME FeedInv, Recorded, ~ Fault, NEW c \in Consumers, NEW k \in Counters,
         At(c, AggStep(k)), Busy(c),
         NEW next \in {"close", "window", "commit"},
         NEW e \in topic, e = Msg(c), Suits(next, e),
         CountUp(c, k, next), UNCHANGED <<topic, window, raw>>, Through(next, e)'
  PROVE  Recorded' /\ ExactMove
  <1>1. agg' = [agg EXCEPT ![k] = @ + 1] /\ Goto(c, next, e)
    BY DEF CountUp
  <1>2. Recorded'
    BY <1>1, RecordedMoves
  <1>3. \A d \in Consumers \ {c} : consumer'[d] = consumer[d]
    BY <1>1, GotoKeeps
  <1>4. CountsExactly(c, k)
    BY <1>1, <1>3 DEF CountsExactly, Counting, At, AggStep, Counters
  <1> QED
    BY <1>2, <1>4 DEF ExactMove

LEMMA PayRecords ==
  ASSUME FeedInv, Recorded, ~ Fault, NEW c \in Consumers, RecordPaySuccess(c)
  PROVE  Recorded' /\ ExactMove
  <1>1. At(c, "pay") \/ At(c, "pay_agg")
    BY DEF RecordPaySuccess
  <1>2. Busy(c)
    BY <1>1, ConsumerKind DEF At, FeedInv
  <1> PICK e \in topic : e = Msg(c)
    BY <1>2 DEF FeedInv, ConsumeSide
  <1>3. Suits("pay_agg", e)
    BY <1>1, <1>2 DEF FeedInv, ConsumeSide, Suits, At
  <1>4. AfterPay(e) \in {"close", "commit"} /\ Suits(AfterPay(e), e)
    BY TopicFacts, StepsSuit
  <1>5. PICK next \in {"close", "commit"} : next = AfterPay(e)
    BY <1>4
  <1>6. "pay_success" \in Counters /\ AggStep("pay_success") = "pay_agg"
    BY DEF Counters, AggStep
  <1>7. <<e.order, "pay_success">> \in raw' => Through("pay_agg", e)' /\ Through(next, e)'
    BY <1>5 DEF Through, AfterPay, Closed
  <1>8. UNCHANGED <<topic, window>>
    BY DEF RecordPaySuccess
  <1>9. CASE /\ At(c, "pay") /\ UNCHANGED agg
             /\ RecordRaw(c, "pay_success", "pay_agg", next)
    BY <1>2, <1>3, <1>4, <1>5, <1>6, <1>7, <1>8, <1>9, RawRecords
  <1>10. CASE /\ At(c, "pay_agg") /\ UNCHANGED raw
              /\ CountUp(c, "pay_success", next)
    <2>1. e.state \in WasPaid => <<e.order, "pay_success">> \in raw
      BY <1>2, <1>10 DEF Recorded, Through, At
    <2>2. e.state \in WasPaid
      BY <1>3 DEF Suits
    <2>3. Through(next, e)'
      BY <1>7, <1>10, <2>1, <2>2
    <2> QED
      BY <1>2, <1>4, <1>5, <1>6, <1>8, <1>10, <2>3, CountRecords
  <1> QED
    BY <1>5, <1>9, <1>10 DEF RecordPaySuccess

LEMMA CloseRecords ==
  ASSUME FeedInv, Recorded, ~ Fault, NEW c \in Consumers, RecordOrderClosed(c)
  PROVE  Recorded' /\ ExactMove
  <1>1. At(c, "close") \/ At(c, "close_agg")
    BY DEF RecordOrderClosed
  <1>2. Busy(c)
    BY <1>1, ConsumerKind DEF At, FeedInv
  <1> PICK e \in topic : e = Msg(c)
    BY <1>2 DEF FeedInv, ConsumeSide
  <1>3. Suits("close_agg", e)
    BY <1>1, <1>2 DEF FeedInv, ConsumeSide, Suits, At
  <1>4. AfterClose(e) \in {"window", "commit"} /\ Suits(AfterClose(e), e)
    BY TopicFacts, StepsSuit
  <1>5. PICK next \in {"window", "commit"} : next = AfterClose(e)
    BY <1>4
  <1>6. "order_closed" \in Counters /\ AggStep("order_closed") = "close_agg"
    BY DEF Counters, AggStep
  <1>7. UNCHANGED <<topic, window>> /\ raw \subseteq raw'
    BY DEF RecordOrderClosed, RecordRaw
  <1>8. e.state \in WasPaid => <<e.order, "pay_success">> \in raw
    BY <1>1, <1>2 DEF Recorded, Through, At
  <1>9. <<e.order, "order_closed">> \in raw' => Through("close_agg", e)' /\ Through(next, e)'
    BY <1>5, <1>7, <1>8 DEF Through, AfterClose
  <1>10. CASE /\ At(c, "close") /\ UNCHANGED agg
              /\ RecordRaw(c, "order_closed", "close_agg", next)
    BY <1>2, <1>3, <1>4, <1>5, <1>6, <1>7, <1>9, <1>10, RawRecords
  <1>11. CASE /\ At(c, "close_agg") /\ UNCHANGED raw
              /\ CountUp(c, "order_closed", next)
    <2>1. e.state \in Closed => <<e.order, "order_closed">> \in raw
      BY <1>2, <1>11 DEF Recorded, Through, At
    <2>2. e.state \in Closed
      BY <1>3 DEF Suits
    <2>3. Through(next, e)'
      BY <1>9, <1>11, <2>1, <2>2
    <2> QED
      BY <1>2, <1>4, <1>5, <1>6, <1>7, <1>11, <2>3, CountRecords
  <1> QED
    BY <1>5, <1>10, <1>11 DEF RecordOrderClosed

LEMMA WindowRecords ==
  ASSUME FeedInv, Recorded, ~ Fault, NEW c \in Consumers, RecordCompletedWindow(c)
  PROVE  Recorded' /\ ExactMove
  <1>1. /\ At(c, "window") /\ UNCHANGED <<topic, raw, agg>>
        /\ window' = window \cup {<<Msg(c).order, Msg(c).at>>}
        /\ Goto(c, "commit", Msg(c))
    BY DEF RecordCompletedWindow
  <1>2. Busy(c)
    BY <1>1, ConsumerKind DEF At, FeedInv
  <1> PICK e \in topic : e = Msg(c)
    BY <1>2 DEF FeedInv, ConsumeSide
  <1>3. e \in Event /\ Suits("commit", e)
    BY TopicFacts, StepsSuit
  <1>4. Through("window", e)
    BY <1>1, <1>2 DEF Recorded, At
  <1>5. Samples(e.order)' # {}
    BY <1>1, <1>3 DEF Samples, Event
  <1>6. Through("commit", e)'
    BY <1>1, <1>4, <1>5 DEF Through
  <1>7. Recorded'
    BY <1>1, <1>3, <1>6, RecordedMoves
  <1>8. \A d \in Consumers \ {c} : consumer'[d] = consumer[d]
    BY <1>1, <1>3, GotoKeeps
  <1>9. consumer[c].step \notin {"pay_agg", "close_agg"}
    BY <1>1 DEF At
  <1> QED
    BY <1>1, <1>7, <1>8, <1>9, StaysExactStep

(* Steps of others.                                                        *)
LEMMA RecordedStays ==
  ASSUME Recorded, UNCHANGED <<committed, consumer, raw, agg, window>>
  PROVE  Recorded' /\ ExactMove
  <1>1. Recorded'
    BY DEF Recorded, Busy, Msg, Through, Samples
  <1> QED
    BY <1>1, StaysExactStep

-----------------------------------------------------------------------------
LEMMA SampleNext ==
  ASSUME FeedInv, SampleSide, [Next]_vars
  PROVE  SampleSide'
  <1>1. ASSUME UNCHANGED window,
               \A o \in Orders : order[o] = "completed" => order'[o] = "completed"
        PROVE  SampleSide'
    BY <1>1 DEF SampleSide, Samples
  <1>2. ASSUME NEW o \in Orders, ChangeOrder(o) PROVE SampleSide'
    <2>1. /\ UNCHANGED window
          /\ \E s \in Follows(order[o]) : order' = [order EXCEPT ![o] = s]
      BY <1>2 DEF ChangeOrder, statVars
    <2>2. order \in [Orders -> States] /\ Follows("completed") = {}
      BY DEF FeedInv, TypeOK, Follows
    <2> QED
      BY <1>1, <2>1, <2>2
  <1>3. ASSUME NEW c \in Consumers, RecordCompletedWindow(c) PROVE SampleSide'
    <2>1. /\ At(c, "window") /\ UNCHANGED order
          /\ window' = window \/ window' = window \cup {<<Msg(c).order, Msg(c).at>>}
      BY <1>3 DEF RecordCompletedWindow
    <2>2. Busy(c)
      BY <2>1, ConsumerKind DEF At, FeedInv
    <2>3. Msg(c) \in topic /\ Msg(c).state = "completed"
      BY <2>1, <2>2 DEF FeedInv, ConsumeSide, Suits, At
    <2>4. "completed" \in Passed(order[Msg(c).order]) /\ order[Msg(c).order] \in States
      BY <2>3, TopicFacts DEF FeedInv, TypeOK
    <2>5. order[Msg(c).order] = "completed"
      BY <2>4 DEF Passed, States
    <2> QED
      BY <2>1, <2>5 DEF SampleSide, Samples
  <1>4. ASSUME NEW o \in Orders, PersistOrderLink(o) \/ CreateOrderLink(o) PROVE SampleSide'
    BY <1>1, <1>4 DEF PersistOrderLink, CreateOrderLink, statVars
  <1>5. ASSUME NEW e \in emitting, EmitSeckillOrderEvent(e) PROVE SampleSide'
    BY <1>1, <1>5 DEF EmitSeckillOrderEvent, statVars
  <1>6. ASSUME NEW w \in Workers, Publish(w) \/ PublishFails(w) PROVE SampleSide'
    BY <1>1, <1>6 DEF Publish, TakeEvent, PublishSeckillOrderEvent, PublishFails, statVars
  <1>7. ASSUME NEW c \in Consumers,
               \/ HandleMessage(c) \/ HandleAgain(c) \/ ConsumerFails(c)
               \/ RecordPaySuccess(c) \/ RecordOrderClosed(c)
        PROVE  SampleSide'
    BY <1>1, <1>7 DEF HandleMessage, HandleAgain, SyncOrderLinkState, ConsumerFails,
       RecordPaySuccess, RecordOrderClosed, statVars
  <1>8. CASE Tick \/ OrderRpcRestarts \/ SeckillRpcRestarts \/ UNCHANGED vars
    BY <1>1, <1>8 DEF Tick, OrderRpcRestarts, SeckillRpcRestarts, vars, statVars
  <1> QED
    BY <1>2, <1>3, <1>4, <1>5, <1>6, <1>7, <1>8 DEF Next, Consume

(* Without a failure, each step keeps what was announced in flight, what   *)
(* consumers have recorded, and the counts exact.                          *)
LEMMA FaultlessNext ==
  ASSUME FeedInv, Told, Recorded, Exact, [Next]_vars, ~ Fault
  PROVE  Told' /\ Recorded' /\ Exact'
  <1>1. ASSUME ExactMove PROVE Exact'
    BY <1>1, ExactStep DEF FeedInv
  <1>2. ASSUME UNCHANGED <<order, emitting, queue, worker>>, topic \subseteq topic'
        PROVE  Told'
    <2>1. \A o \in Orders : \A s \in States : InFlight(o, s) => InFlight(o, s)'
      BY <1>2, StillInFlight
    <2> QED
      BY <1>2, <2>1, ToldKept DEF FeedInv, TypeOK
  <1>3. ASSUME NEW c \in Consumers, Consume(c) PROVE Told' /\ Recorded' /\ Exact'
    <2>1. UNCHANGED <<order, emitting, queue, worker, topic>>
      BY <1>3 DEF Consume, HandleMessage, SyncOrderLinkState, RecordPaySuccess,
         RecordOrderClosed, RecordCompletedWindow, emitVars
    <2>2. Recorded' /\ ExactMove
      BY <1>3, HandleRecords, PayRecords, CloseRecords, WindowRecords DEF Consume
    <2> QED
      BY <1>1, <1>2, <2>1, <2>2
  <1>4. ASSUME NEW o \in Orders, ChangeOrder(o) \/ PersistOrderLink(o) \/ CreateOrderLink(o)
        PROVE  Told' /\ Recorded' /\ Exact'
    <2>1. Recorded' /\ ExactMove
      BY <1>4, RecordedStays DEF ChangeOrder, PersistOrderLink, CreateOrderLink,
         topicVars, statVars
    <2>2. Told'
      BY <1>2, <1>4, ToldAtChange DEF PersistOrderLink, CreateOrderLink, emitVars, topicVars
    <2> QED
      BY <1>1, <2>1, <2>2
  <1>5. ASSUME NEW e \in emitting, EmitSeckillOrderEvent(e)
        PROVE  Told' /\ Recorded' /\ Exact'
    <2>1. Recorded' /\ ExactMove
      BY <1>5, RecordedStays DEF EmitSeckillOrderEvent, topicVars, statVars
    <2> QED
      BY <1>1, <1>5, <2>1, ToldAtEmit
  <1>6. ASSUME NEW w \in Workers, Publish(w) PROVE Told' /\ Recorded' /\ Exact'
    <2>1. Recorded' /\ ExactMove
      BY <1>6, RecordedStays DEF Publish, TakeEvent, PublishSeckillOrderEvent,
         topicVars, statVars
    <2> QED
      BY <1>1, <1>6, <2>1, ToldAtTake, ToldAtPublish DEF Publish
  <1>7. ASSUME Tick \/ UNCHANGED vars PROVE Told' /\ Recorded' /\ Exact'
    <2>1. UNCHANGED <<order, emitVars, topicVars, statVars>>
      BY <1>7 DEF Tick, vars
    <2>2. Recorded' /\ ExactMove
      BY <2>1, RecordedStays DEF topicVars, statVars
    <2> QED
      BY <1>1, <1>2, <2>1, <2>2 DEF emitVars, topicVars
  <1> QED
    BY <1>3, <1>4, <1>5, <1>6, <1>7
    DEF Next, PublishFails, HandleAgain, ConsumerFails, OrderRpcRestarts, SeckillRpcRestarts

LEMMA QuietNext ==
  ASSUME FeedInv, QuietInv, [Next]_vars
  PROVE  QuietInv'
  <1>1. faults' = 0 => faults = 0 /\ ~ Fault
    BY FaultFree DEF FeedInv
  <1>2. faults' = 0 => Told' /\ Recorded' /\ Exact'
    BY <1>1, FaultlessNext DEF QuietInv
  <1> QED
    BY <1>2, SampleNext DEF QuietInv

LEMMA QuietInit == Init => QuietInv
  <1> SUFFICES ASSUME Init PROVE QuietInv
    OBVIOUS
  <1>1. SampleSide /\ Told /\ Recorded
    BY DEF Init, SampleSide, Samples, Told, Recorded, Busy
  <1>2. Exact
    <2> SUFFICES ASSUME NEW k \in Counters
                 PROVE  Cardinality(Claimed(k)) <= agg[k] + Cardinality(Counting(k))
      BY DEF Exact
    <2>1. Claimed(k) = {} /\ agg[k] = 0
      BY DEF Init, Claimed
    <2> QED
      BY <2>1, Finite, FS_EmptySet
  <1> QED
    BY <1>1, <1>2 DEF QuietInv

(* If nothing failed, then whatever the order of the events and the        *)
(* interleaving of handlers, publishers and consumers, once all is         *)
(* consumed the payments and closes are counted exactly and exactly the    *)
(* completed orders have a sample for the limit of mode 1.                 *)
THEOREM NothingMissed == Spec => []QuietMeansCounted
  <1>1. FeedInv /\ CountInv /\ QuietInv => QuietMeansCounted
    <2> SUFFICES ASSUME FeedInv, CountInv, QuietInv, faults = 0, Quiet
                 PROVE  /\ agg["pay_success"] =
                             Cardinality({o \in Orders : order[o] \in WasPaid})
                        /\ agg["order_closed"] =
                             Cardinality({o \in Orders : order[o] \in Closed})
                        /\ \A o \in Orders : order[o] = "completed" <=> Samples(o) # {}
      BY DEF QuietMeansCounted
    <2>1. Told /\ Recorded /\ Exact /\ SampleSide
      BY DEF QuietInv
    <2>2. ASSUME NEW o \in Orders, order[o] # "none"
          PROVE  \E e \in committed : e.order = o /\ e.state = order[o]
      <3>1. InFlight(o, order[o])
        BY <2>1, <2>2 DEF Told
      <3>2. /\ emitting = {} /\ Len(queue) = 0 /\ topic = committed
            /\ \A w \in Workers : worker[w] = Idle
        BY DEF Quiet
      <3> QED
        BY <3>1, <3>2 DEF InFlight, Tells
    <2>3. ASSUME NEW o \in Orders
          PROVE  /\ order[o] \in WasPaid => <<o, "pay_success">> \in raw
                 /\ order[o] \in Closed => <<o, "order_closed">> \in raw
                 /\ order[o] = "completed" => Samples(o) # {}
      <3>1. CASE order[o] = "none"
        BY <3>1 DEF WasPaid, Closed
      <3>2. CASE order[o] # "none"
        <4>1. PICK e \in committed : e.order = o /\ e.state = order[o]
          BY <2>2, <3>2
        <4>2. Through("commit", e)
          BY <2>1 DEF Recorded
        <4> QED
          BY <4>1, <4>2 DEF Through
      <3> QED
        BY <3>1, <3>2
    <2>4. ASSUME NEW k \in Counters PROVE agg[k] = Cardinality(Claimed(k))
      <3>1. Counting(k) = {}
        <4>1. \A c \in Consumers : consumer[c] = Idle
          BY DEF Quiet, Busy
        <4> QED
          BY <4>1 DEF Counting, At, AggStep, Idle
      <3>2. Cardinality(Counting(k)) = 0
        BY <3>1, FS_EmptySet
      <3>3. /\ agg[k] + Cardinality(Counting(k)) <= Cardinality(Claimed(k))
            /\ Cardinality(Claimed(k)) <= agg[k] + Cardinality(Counting(k))
        BY <2>1 DEF CountInv, Exact
      <3>4. agg[k] \in Nat
        BY DEF FeedInv, TypeOK
      <3> QED
        BY <3>2, <3>3, <3>4, Finite
    <2>5. /\ Claimed("pay_success") = {o \in Orders : order[o] \in WasPaid}
          /\ Claimed("order_closed") = {o \in Orders : order[o] \in Closed}
      BY <2>3 DEF FeedInv, RawSide, Claimed
    <2>6. "pay_success" \in Counters /\ "order_closed" \in Counters
      BY DEF Counters
    <2>7. \A o \in Orders : order[o] = "completed" <=> Samples(o) # {}
      BY <2>1, <2>3 DEF SampleSide
    <2> QED
      BY <2>4, <2>5, <2>6, <2>7
  <1> QED
    BY InitFeed, NextFeed, NextCounts, QuietInit, QuietNext, <1>1, PTL DEF Spec
=============================================================================
