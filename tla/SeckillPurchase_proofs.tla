----------------------- MODULE SeckillPurchase_proofs -----------------------
(***************************************************************************)
(* Proofs about SeckillPurchase for every set of requests, attempts and    *)
(* consumers, any sharing of users and idempotency keys, and every set of  *)
(* faults: type correctness, and that what MySQL gives back was taken and  *)
(* is given back once.                                                     *)
(***************************************************************************)
EXTENDS SeckillPurchase, TLAPS

-----------------------------------------------------------------------------
(* Type correctness.                                                       *)

(* What one handler does to its own record keeps the record well formed.   *)
LEMMA BusyType ==
  ASSUME NEW b \in Busy
  PROVE  /\ b # Idle
         /\ \A s \in Steps : [b EXCEPT !.step = s] \in Busy
         /\ \A s \in Steps : [b EXCEPT !.step = s, !.cached = TRUE] \in Busy
         /\ \A s \in Steps : [b EXCEPT !.step = s, !.conflict = TRUE] \in Busy
         /\ \A s \in Steps, x \in Stock!CompensateSuffixes :
              [b EXCEPT !.step = s, !.suffix = x] \in Busy
  <1>1. b.step # "idle"
    BY DEF Busy, Steps
  <1>2. b # Idle
    BY <1>1 DEF Idle
  <1>3. \A s \in Steps : [b EXCEPT !.step = s] \in Busy
    BY DEF Busy
  <1>4. \A s \in Steps : [b EXCEPT !.step = s, !.cached = TRUE] \in Busy
    BY DEF Busy
  <1>5. \A s \in Steps : [b EXCEPT !.step = s, !.conflict = TRUE] \in Busy
    BY DEF Busy
  <1>6. \A s \in Steps, x \in Stock!CompensateSuffixes :
          [b EXCEPT !.step = s, !.suffix = x] \in Busy
    BY DEF Busy
  <1> QED
    BY <1>2, <1>3, <1>4, <1>5, <1>6

LEMMA AttemptType ==
  ASSUME TypeOK, NEW a \in Attempts, attempt[a] # Idle
  PROVE  /\ attempt[a] \in Busy
         /\ Req(a) \in Requests
         /\ Return(a) => attempt' \in [Attempts -> Busy \cup {Idle}]
         /\ \A s \in Steps :
              Goto(a, s) => attempt' \in [Attempts -> Busy \cup {Idle}]
         /\ GiveUp(a) => attempt' \in [Attempts -> Busy \cup {Idle}]
  <1>1. attempt \in [Attempts -> Busy \cup {Idle}]
    BY DEF TypeOK
  <1>2. attempt[a] \in Busy
    BY <1>1
  <1>3. Req(a) \in Requests
    BY <1>2 DEF Req, Busy
  <1>4. Return(a) => attempt' \in [Attempts -> Busy \cup {Idle}]
    BY <1>1 DEF Return
  <1>5. ASSUME NEW s \in Steps, Goto(a, s)
        PROVE  attempt' \in [Attempts -> Busy \cup {Idle}]
    <2>1. [attempt[a] EXCEPT !.step = s] \in Busy
      BY <1>2, BusyType
    <2> QED
      BY <1>1, <1>5, <2>1 DEF Goto
  <1>6. "rollback" \in Steps
    BY DEF Steps
  <1> QED
    BY <1>2, <1>3, <1>4, <1>5, <1>6 DEF GiveUp

(* A script or a transaction keeps the stock well typed.                   *)
LEMMA UserType ==
  ASSUME NEW r \in Requests
  PROVE  UserOf[r] \in Stock!Users
  BY DEF Stock!Users

LEMMA CreditType ==
  ASSUME Stock!StockTypeOK, NEW r \in Requests, Stock!Credit(r)
  PROVE  /\ cacheStock' \in Nat \cup {Stock!NoKey}
         /\ bought' \in [Stock!Users -> Nat]
  <1>1. cacheStock' \in Nat \cup {Stock!NoKey}
    BY DEF Stock!StockTypeOK, Stock!Credit, Stock!NoKey
  <1>2. bought' \in [Stock!Users -> Nat]
    BY UserType DEF Stock!StockTypeOK, Stock!Credit
  <1> QED
    BY <1>1, <1>2

CacheTypeOK ==
  /\ cacheStock \in Nat \cup {Stock!NoKey}
  /\ bought \in [Stock!Users -> Nat]
  /\ requestKeys \subseteq Requests
  /\ releaseTokens \subseteq Requests
  /\ closeKeys \subseteq Requests

DBTypeOK ==
  /\ available \in Nat
  /\ ledger \subseteq Stock!LedgerKeys

LEMMA StockTypeParts == Stock!StockTypeOK <=> CacheTypeOK /\ DBTypeOK
  BY DEF Stock!StockTypeOK, CacheTypeOK, DBTypeOK

LEMMA CacheScriptsType ==
  ASSUME Stock!StockTypeOK, NEW r \in Requests,
         \/ UNCHANGED cacheVars
         \/ Stock!CacheReserved(r)
         \/ Stock!RollbackReserve(r)
         \/ Stock!RollbackByReleaseToken(r)
         \/ Stock!ReleaseByClose(r)
         \/ Stock!RequestKeyExpires(r)
  PROVE  CacheTypeOK'
  <1> USE DEF CacheTypeOK
  <1>1. CASE UNCHANGED cacheVars
    BY <1>1 DEF cacheVars, Stock!StockTypeOK
  <1>2. CASE Stock!CacheReserved(r)
    <2>1. cacheStock' \in Nat \cup {Stock!NoKey}
      BY <1>2 DEF Stock!CacheReserved, Stock!StockTypeOK, Stock!NoKey
    <2>2. bought' \in [Stock!Users -> Nat]
      BY <1>2, UserType DEF Stock!CacheReserved, Stock!StockTypeOK
    <2> QED
      BY <1>2, <2>1, <2>2 DEF Stock!CacheReserved, Stock!StockTypeOK
  <1>3. CASE Stock!RollbackReserve(r)
    BY <1>3, CreditType
    DEF Stock!RollbackReserve, Stock!StockTypeOK, Stock!cacheVars
  <1>4. CASE Stock!RollbackByReleaseToken(r)
    BY <1>4, CreditType
    DEF Stock!RollbackByReleaseToken, Stock!StockTypeOK, Stock!cacheVars
  <1>5. CASE Stock!ReleaseByClose(r)
    BY <1>5, CreditType
    DEF Stock!ReleaseByClose, Stock!StockTypeOK, Stock!cacheVars
  <1>6. CASE Stock!RequestKeyExpires(r)
    BY <1>6 DEF Stock!RequestKeyExpires, Stock!StockTypeOK
  <1> QED
    BY <1>1, <1>2, <1>3, <1>4, <1>5, <1>6

LEMMA TransactionsType ==
  ASSUME Stock!StockTypeOK, NEW r \in Requests,
         \/ UNCHANGED dbVars
         \/ Stock!ReservePurchase(r, TRUE)
         \/ Stock!ReleasePurchaseByOrder(r)
         \/ \E x \in Stock!CompensateSuffixes : Stock!CompensateReleasePurchase(r, x)
  PROVE  DBTypeOK'
  <1> USE DEF DBTypeOK
  <1>1. /\ Stock!ReserveKey(r) \in Stock!LedgerKeys
        /\ Stock!CloseKey(r) \in Stock!LedgerKeys
        /\ \A x \in Stock!CompensateSuffixes : <<KeyOf[r], x>> \in Stock!LedgerKeys
    BY DEF Stock!LedgerKeys, Stock!ReserveKey, Stock!CloseKey
  <1>2. ASSUME NEW k \in Stock!LedgerKeys, Stock!ReleaseUnder(k)
        PROVE  DBTypeOK'
    BY <1>2 DEF Stock!ReleaseUnder, Stock!StockTypeOK, Stock!dbVars
  <1>3. CASE UNCHANGED dbVars
    BY <1>3 DEF dbVars, Stock!StockTypeOK
  <1>4. CASE Stock!ReservePurchase(r, TRUE)
    BY <1>1, <1>4 DEF Stock!ReservePurchase, Stock!StockTypeOK
  <1>5. CASE Stock!ReleasePurchaseByOrder(r)
    BY <1>1, <1>2, <1>5 DEF Stock!ReleasePurchaseByOrder
  <1>6. ASSUME NEW x \in Stock!CompensateSuffixes,
               Stock!CompensateReleasePurchase(r, x)
        PROVE  DBTypeOK'
    BY <1>1, <1>2, <1>6 DEF Stock!CompensateReleasePurchase
  <1> QED
    BY <1>3, <1>4, <1>5, <1>6
LEMMA OrderType ==
  ASSUME TypeOK, NEW r \in Requests, OrderStored(r) \/ UNCHANGED order
  PROVE  order' \in [Requests -> {"none", "live", "closed"}]
  BY DEF TypeOK, OrderStored

(* The parts of TypeOK that a step leaves to one process each. *)
ProcessTypeOK ==
  /\ attempt \in [Attempts -> Busy \cup {Idle}]
  /\ tries \in [Requests -> 0..MaxTries]
  /\ consumer \in [Consumers -> Consuming \cup {Idle}]

OrderTypeOK ==
  /\ order \in [Requests -> {"none", "live", "closed"}]
  /\ createTopic \subseteq Requests
  /\ compensateTopic \subseteq Requests
  /\ closeTopic \subseteq Requests

LEMMA TypeParts ==
  TypeOK <=> ProcessTypeOK /\ OrderTypeOK /\ CacheTypeOK /\ DBTypeOK
  BY StockTypeParts DEF TypeOK, ProcessTypeOK, OrderTypeOK

LEMMA UnchangedTypes ==
  ASSUME TypeOK
  PROVE  /\ UNCHANGED <<attempt, tries, consumer>> => ProcessTypeOK'
         /\ UNCHANGED <<order, topics>> => OrderTypeOK'
         /\ UNCHANGED cacheVars => CacheTypeOK'
         /\ UNCHANGED dbVars => DBTypeOK'
  <1>1. ProcessTypeOK /\ OrderTypeOK /\ CacheTypeOK /\ DBTypeOK
    BY TypeParts
  <1>2. UNCHANGED <<attempt, tries, consumer>> => ProcessTypeOK'
    BY <1>1 DEF ProcessTypeOK
  <1>3. UNCHANGED <<order, topics>> => OrderTypeOK'
    BY <1>1 DEF OrderTypeOK, topics
  <1>4. UNCHANGED cacheVars => CacheTypeOK'
    BY <1>1 DEF CacheTypeOK, cacheVars
  <1>5. UNCHANGED dbVars => DBTypeOK'
    BY <1>1 DEF DBTypeOK, dbVars
  <1> QED
    BY <1>2, <1>3, <1>4, <1>5

LEMMA TypePartsNext ==
  ASSUME ProcessTypeOK', OrderTypeOK', CacheTypeOK', DBTypeOK'
  PROVE  TypeOK'
  BY DEF TypeOK, ProcessTypeOK, OrderTypeOK, CacheTypeOK, DBTypeOK,
         Stock!StockTypeOK

(* A purchase handler that moves to a step or returns keeps ProcessTypeOK. *)
LEMMA AttemptMoves ==
  ASSUME TypeOK, NEW a \in Attempts, attempt[a] # Idle,
         UNCHANGED <<tries, consumer>>,
         \/ Return(a)
         \/ GiveUp(a)
         \/ \E s \in Steps : Goto(a, s)
  PROVE  ProcessTypeOK'
  <1>1. attempt \in [Attempts -> Busy \cup {Idle}]
    BY DEF TypeOK
  <1>2. attempt' \in [Attempts -> Busy \cup {Idle}]
    BY <1>1, AttemptType
  <1> QED
    BY <1>2 DEF ProcessTypeOK, TypeOK

LEMMA PurchaseType ==
  ASSUME TypeOK, NEW a \in Attempts, NEW r \in Requests, Purchase(a, r)
  PROVE  TypeOK'
  <1>1. UNCHANGED <<order, topics>> /\ UNCHANGED cacheVars /\ UNCHANGED dbVars
    BY DEF Purchase, stockVars, cacheVars, dbVars
  <1>2. OrderTypeOK' /\ CacheTypeOK' /\ DBTypeOK'
    BY <1>1, UnchangedTypes
  <1>3. [step |-> "cache", req |-> r, cached |-> FALSE, conflict |-> FALSE,
         suffix |-> "order_fail"] \in Busy
    BY DEF Busy, Steps, Stock!CompensateSuffixes
  <1>4. attempt' \in [Attempts -> Busy \cup {Idle}]
    BY <1>3 DEF Purchase, TypeOK
  <1>5. tries' \in [Requests -> 0..MaxTries]
    BY PurchaseAssumption DEF Purchase, TypeOK
  <1>6. ProcessTypeOK'
    BY <1>4, <1>5 DEF ProcessTypeOK, Purchase, TypeOK
  <1> QED
    BY <1>2, <1>6, TypePartsNext

LEMMA ContinueType ==
  ASSUME TypeOK, NEW a \in Attempts, Continue(a) \/ Crash(a)
  PROVE  TypeOK'
  <1>1. attempt[a] # Idle
    BY DEF Continue, Crash, At, ReservePurchaseInCache, TryAsyncKafkaPath,
           ReserveDBAndHandleConflict, OrderCreated, OrderRefused, OrderPending,
           CompensateRelease, RollbackReserveInCache
  <1>2. attempt[a] \in Busy /\ Req(a) \in Requests
    BY <1>1, AttemptType
  <1>3. Stock!StockTypeOK
    BY DEF TypeOK
  <1>4. {"publish", "db", "order", "replay", "compensate"} \subseteq Steps
    BY DEF Steps
  <1>5. CASE ReservePurchaseInCache(a)
    <2>1. /\ UNCHANGED <<tries, consumer>> /\ UNCHANGED <<order, topics>>
          /\ UNCHANGED dbVars
          /\ UNCHANGED cacheVars \/ Stock!CacheReserved(Req(a))
      BY <1>5 DEF ReservePurchaseInCache, Stock!CacheRefused, Stock!CacheDuplicate,
                  cacheVars, Stock!cacheVars
    <2>2. ASSUME attempt' = [attempt EXCEPT ![a] =
                   [@ EXCEPT !.step = "publish", !.cached = TRUE]]
          PROVE  ProcessTypeOK'
      <3>1. [attempt[a] EXCEPT !.step = "publish", !.cached = TRUE] \in Busy
        BY <1>2, <1>4, BusyType
      <3>2. attempt' \in [Attempts -> Busy \cup {Idle}]
        BY <2>2, <3>1 DEF TypeOK
      <3> QED
        BY <2>1, <3>2 DEF ProcessTypeOK, TypeOK
    <2>3. ASSUME Return(a) \/ Goto(a, "db")
          PROVE  ProcessTypeOK'
      BY <1>1, <1>4, <2>1, <2>3, AttemptMoves
    <2>4. ProcessTypeOK'
      BY <1>5, <2>2, <2>3 DEF ReservePurchaseInCache
    <2>5. OrderTypeOK' /\ DBTypeOK'
      BY <2>1, UnchangedTypes
    <2>6. CacheTypeOK'
      BY <1>2, <1>3, <2>1, CacheScriptsType
    <2> QED
      BY <2>4, <2>5, <2>6, TypePartsNext
  <1>6. CASE TryAsyncKafkaPath(a)
    <2>1. /\ UNCHANGED <<tries, consumer>> /\ UNCHANGED cacheVars /\ UNCHANGED dbVars
          /\ Return(a) \/ Goto(a, "db")
      BY <1>6 DEF TryAsyncKafkaPath, stockVars, cacheVars, dbVars
    <2>2. ProcessTypeOK'
      BY <1>1, <1>4, <2>1, AttemptMoves
    <2>3. OrderTypeOK'
      BY <1>2, <1>6 DEF TryAsyncKafkaPath, OrderTypeOK, TypeOK
    <2> QED
      BY <2>1, <2>2, <2>3, UnchangedTypes, TypePartsNext
  <1>7. CASE ReserveDBAndHandleConflict(a)
    <2>1. /\ UNCHANGED <<tries, consumer>> /\ UNCHANGED <<order, topics>>
          /\ UNCHANGED cacheVars
          /\ UNCHANGED dbVars \/ Stock!ReservePurchase(Req(a), TRUE)
      BY <1>7 DEF ReserveDBAndHandleConflict, Stock!ReserveConflict,
                  Stock!ReserveMissed, dbVars, Stock!dbVars
    <2>2. ASSUME attempt' = [attempt EXCEPT ![a] =
                   [@ EXCEPT !.step = "order", !.conflict = TRUE]]
          PROVE  ProcessTypeOK'
      <3>1. [attempt[a] EXCEPT !.step = "order", !.conflict = TRUE] \in Busy
        BY <1>2, <1>4, BusyType
      <3>2. attempt' \in [Attempts -> Busy \cup {Idle}]
        BY <2>2, <3>1 DEF TypeOK
      <3> QED
        BY <2>1, <3>2 DEF ProcessTypeOK, TypeOK
    <2>3. ASSUME GiveUp(a) \/ Goto(a, "order")
          PROVE  ProcessTypeOK'
      BY <1>1, <1>4, <2>1, <2>3, AttemptMoves
    <2>4. ProcessTypeOK'
      BY <1>7, <2>2, <2>3 DEF ReserveDBAndHandleConflict
    <2>5. OrderTypeOK' /\ CacheTypeOK'
      BY <2>1, UnchangedTypes
    <2>6. DBTypeOK'
      BY <1>2, <1>3, <2>1, TransactionsType
    <2> QED
      BY <2>4, <2>5, <2>6, TypePartsNext
  <1>8. CASE OrderCreated(a) \/ OrderPending(a)
    <2>1. /\ UNCHANGED <<tries, consumer>> /\ UNCHANGED topics
          /\ UNCHANGED cacheVars /\ UNCHANGED dbVars
          /\ Return(a) \/ Goto(a, "replay")
          /\ OrderStored(Req(a)) \/ UNCHANGED order
      BY <1>8 DEF OrderCreated, OrderPending, OrderMaybeStored, stockVars,
                  cacheVars, dbVars
    <2>2. ProcessTypeOK'
      BY <1>1, <1>4, <2>1, AttemptMoves
    <2>3. OrderTypeOK'
      BY <1>2, <2>1, OrderType DEF OrderTypeOK, TypeOK, topics
    <2> QED
      BY <2>1, <2>2, <2>3, UnchangedTypes, TypePartsNext
  <1>9. CASE OrderRefused(a)
    <2>1. /\ UNCHANGED <<tries, consumer>> /\ UNCHANGED <<order, topics>>
          /\ UNCHANGED cacheVars /\ UNCHANGED dbVars
      BY <1>9 DEF OrderRefused, stockVars, cacheVars, dbVars
    <2>2. ASSUME Return(a)
          PROVE  ProcessTypeOK'
      BY <1>1, <2>1, <2>2, AttemptMoves
    <2>3. ASSUME NEW x \in Stock!CompensateSuffixes,
                 attempt' = [attempt EXCEPT ![a] =
                   [@ EXCEPT !.step = "compensate", !.suffix = x]]
          PROVE  ProcessTypeOK'
      <3>1. [attempt[a] EXCEPT !.step = "compensate", !.suffix = x] \in Busy
        BY <1>2, <1>4, BusyType
      <3>2. attempt' \in [Attempts -> Busy \cup {Idle}]
        BY <2>3, <3>1 DEF TypeOK
      <3> QED
        BY <2>1, <3>2 DEF ProcessTypeOK, TypeOK
    <2>4. ProcessTypeOK'
      BY <1>9, <2>2, <2>3 DEF OrderRefused
    <2> QED
      BY <2>1, <2>4, UnchangedTypes, TypePartsNext
  <1>10. CASE CompensateRelease(a)
    <2>1. /\ UNCHANGED <<tries, consumer>> /\ UNCHANGED <<order, topics>>
          /\ UNCHANGED cacheVars /\ GiveUp(a)
          /\ \/ UNCHANGED dbVars
             \/ Stock!CompensateReleasePurchase(Req(a), attempt[a].suffix)
      BY <1>10 DEF CompensateRelease
    <2>2. attempt[a].suffix \in Stock!CompensateSuffixes
      BY <1>2 DEF Busy
    <2>3. DBTypeOK'
      BY <1>2, <1>3, <2>1, <2>2, TransactionsType
    <2>4. ProcessTypeOK'
      BY <1>1, <2>1, AttemptMoves
    <2> QED
      BY <2>1, <2>3, <2>4, UnchangedTypes, TypePartsNext
  <1>11. CASE RollbackReserveInCache(a)
    <2>1. /\ UNCHANGED <<tries, consumer>> /\ UNCHANGED <<order, topics>>
          /\ UNCHANGED dbVars /\ Return(a)
          /\ UNCHANGED cacheVars \/ Stock!RollbackReserve(Req(a))
      BY <1>11 DEF RollbackReserveInCache
    <2>2. CacheTypeOK'
      BY <1>2, <1>3, <2>1, CacheScriptsType
    <2>3. ProcessTypeOK'
      BY <1>1, <2>1, AttemptMoves
    <2> QED
      BY <2>1, <2>2, <2>3, UnchangedTypes, TypePartsNext
  <1>12. CASE Crash(a)
    <2>1. /\ UNCHANGED <<tries, consumer>> /\ UNCHANGED <<order, topics>>
          /\ UNCHANGED cacheVars /\ UNCHANGED dbVars /\ Return(a)
      BY <1>12 DEF Crash, stockVars, cacheVars, dbVars
    <2>2. ProcessTypeOK'
      BY <1>1, <2>1, AttemptMoves
    <2> QED
      BY <2>1, <2>2, UnchangedTypes, TypePartsNext
  <1> QED
    BY <1>5, <1>6, <1>7, <1>8, <1>9, <1>10, <1>11, <1>12 DEF Continue

LEMMA ConsumerType ==
  ASSUME TypeOK, NEW k \in Consumers, Consume(k) \/ ConsumerStops(k)
  PROVE  TypeOK'
  <1>1. consumer[k] \in Consuming /\ consumer[k].req \in Requests
    BY DEF Consume, ConsumerStops, Consumes, ConsumePurchaseCreate,
           RetriesExhausted, PublishStockCompensate, TypeOK, Consuming
  <1>2. /\ UNCHANGED <<attempt, tries>>
        /\ UNCHANGED cacheVars /\ UNCHANGED dbVars
    BY DEF Consume, ConsumerStops, ConsumePurchaseCreate, RetriesExhausted,
           PublishStockCompensate, stockVars, cacheVars, dbVars
  <1>3. \/ consumer' = [consumer EXCEPT ![k] = Idle]
        \/ consumer' = [consumer EXCEPT ![k].step = "compensate"]
    BY DEF Consume, ConsumerStops, ConsumePurchaseCreate, RetriesExhausted,
           PublishStockCompensate, Handled
  <1>4. [consumer[k] EXCEPT !.step = "compensate"] \in Consuming
    BY <1>1 DEF Consuming
  <1>5. consumer' \in [Consumers -> Consuming \cup {Idle}]
    BY <1>3, <1>4 DEF TypeOK
  <1>6. ProcessTypeOK'
    BY <1>2, <1>5 DEF ProcessTypeOK, TypeOK
  <1>7. OrderStored(consumer[k].req) \/ UNCHANGED order
    BY DEF Consume, ConsumerStops, ConsumePurchaseCreate, RetriesExhausted,
           PublishStockCompensate
  <1>8. order' \in [Requests -> {"none", "live", "closed"}]
    BY <1>1, <1>7, OrderType
  <1>9. /\ createTopic' \subseteq createTopic
        /\ compensateTopic' \subseteq compensateTopic \cup {consumer[k].req}
        /\ closeTopic' = closeTopic
    BY DEF Consume, ConsumerStops, ConsumePurchaseCreate, RetriesExhausted,
           PublishStockCompensate, Handled, topics
  <1>10. OrderTypeOK'
    BY <1>1, <1>8, <1>9 DEF OrderTypeOK, TypeOK
  <1> QED
    BY <1>2, <1>6, <1>10, UnchangedTypes, TypePartsNext

LEMMA PollType ==
  ASSUME TypeOK, NEW k \in Consumers, NEW r \in Requests, Poll(k, r)
  PROVE  TypeOK'
  <1>1. /\ UNCHANGED <<attempt, tries>> /\ UNCHANGED <<order, topics>>
        /\ UNCHANGED cacheVars /\ UNCHANGED dbVars
    BY DEF Poll, stockVars, cacheVars, dbVars
  <1>2. [step |-> "create", req |-> r] \in Consuming
    BY DEF Consuming
  <1>3. ProcessTypeOK'
    BY <1>1, <1>2 DEF Poll, ProcessTypeOK, TypeOK
  <1> QED
    BY <1>1, <1>3, UnchangedTypes, TypePartsNext

LEMMA ReleaseType ==
  ASSUME TypeOK, NEW r \in Requests,
         \/ CloseOrder(r)
         \/ ConsumeStockCompensate(r)
         \/ ReleaseClosedInDB(r)
         \/ ReleaseClosedInCache(r)
         \/ RequestKeyExpires(r)
  PROVE  TypeOK'
  <1>1. Stock!StockTypeOK
    BY DEF TypeOK
  <1>2. ProcessTypeOK'
    BY DEF CloseOrder, ConsumeStockCompensate, ReleaseClosedInDB,
           ReleaseClosedInCache, RequestKeyExpires, ProcessTypeOK, TypeOK
  <1>3. OrderTypeOK'
    BY DEF CloseOrder, ConsumeStockCompensate, ReleaseClosedInDB,
           ReleaseClosedInCache, RequestKeyExpires, OrderTypeOK, TypeOK, topics
  <1>4. \/ UNCHANGED cacheVars
        \/ Stock!RollbackByReleaseToken(r)
        \/ Stock!ReleaseByClose(r)
        \/ Stock!RequestKeyExpires(r)
    BY DEF CloseOrder, ConsumeStockCompensate, ReleaseClosedInDB,
           ReleaseClosedInCache, RequestKeyExpires, stockVars, cacheVars
  <1>5. CacheTypeOK'
    BY <1>1, <1>4, CacheScriptsType
  <1>6. UNCHANGED dbVars \/ Stock!ReleasePurchaseByOrder(r)
    BY DEF CloseOrder, ConsumeStockCompensate, ReleaseClosedInDB,
           ReleaseClosedInCache, RequestKeyExpires, stockVars, dbVars
  <1>7. DBTypeOK'
    BY <1>1, <1>6, TransactionsType
  <1> QED
    BY <1>2, <1>3, <1>5, <1>7, TypePartsNext

LEMMA InitType == Init => TypeOK
  BY PurchaseAssumption
  DEF Init, TypeOK, Stock!StockInit, Stock!StockTypeOK

LEMMA StutterType == TypeOK /\ UNCHANGED vars => TypeOK'
  <1> SUFFICES ASSUME TypeOK, UNCHANGED vars
               PROVE  TypeOK'
    OBVIOUS
  <1>1. /\ UNCHANGED <<attempt, tries, consumer>> /\ UNCHANGED <<order, topics>>
        /\ UNCHANGED cacheVars /\ UNCHANGED dbVars
    BY DEF vars, stockVars, cacheVars, dbVars
  <1> QED
    BY <1>1, UnchangedTypes, TypePartsNext

LEMMA NextType == TypeOK /\ [Next]_vars => TypeOK'
  BY ContinueType, PurchaseType, ConsumerType, PollType, ReleaseType,
     StutterType DEF Next

(* In every reachable state both stores, the topics and the handlers are   *)
(* well typed: no counter in Redis or MySQL goes below zero.               *)
THEOREM TypeCorrect == Spec => []TypeOK
  BY InitType, NextType, PTL DEF Spec

-----------------------------------------------------------------------------
(* What MySQL gives back.                                                  *)

(* The two kinds of ledger keys never meet.                                *)
LEMMA KeyKinds ==
  ASSUME NEW r, NEW q, NEW s \in Stock!CompensateSuffixes \cup {"reserve"}
  PROVE  Stock!CloseKey(r) # <<KeyOf[q], s>>
  BY DEF Stock!CloseKey, Stock!CompensateSuffixes

(* A step that leaves the ledger alone, makes nobody an owner, reopens no   *)
(* order and gives back in Redis only after MySQL keeps the invariant.     *)
LEMMA LedgerFrame ==
  ASSUME LedgerInv,
         ledger' = ledger,
         \A r \in Requests : r \in closeKeys' =>
            r \in closeKeys \/ Stock!CloseKey(r) \in ledger,
         \A r \in Requests : order[r] = "closed" => order'[r] = "closed",
         \A r \in closeTopic' : order'[r] = "closed",
         \A a \in Attempts : At(a, "compensate")' => ~ attempt'[a].conflict,
         \A a \in Attempts : Owner(a)' => Owner(a) /\ Req(a)' = Req(a)
  PROVE  LedgerInv'
  <1>1. \A r : /\ Compensations(r)' = Compensations(r)
               /\ Stock!ReserveKey(r)' = Stock!ReserveKey(r)
               /\ Stock!CloseKey(r)' = Stock!CloseKey(r)
    BY DEF Compensations, Stock!ReserveKey, Stock!CloseKey
  <1>2. CompensatedAtMostOnce'
    BY <1>1 DEF LedgerInv, CompensatedAtMostOnce
  <1>3. ClosedBeforeReleased'
    BY <1>1 DEF LedgerInv, ClosedBeforeReleased
  <1>4. ASSUME NEW a \in Attempts, Owner(a)'
        PROVE  /\ (Stock!ReserveKey(Req(a)) \in ledger)'
               /\ (Compensations(Req(a)) = {})'
    <2>1. Owner(a) /\ Req(a)' = Req(a)
      BY <1>4
    <2>2. Stock!ReserveKey(Req(a)) \in ledger /\ Compensations(Req(a)) = {}
      BY <2>1 DEF LedgerInv
    <2> QED
      BY <2>1, <2>2 DEF Compensations, Stock!ReserveKey
  <1>5. ASSUME NEW a \in Attempts, NEW b \in Attempts, Owner(a)', Owner(b)',
               (KeyOf[Req(a)] = KeyOf[Req(b)])'
        PROVE  a = b
    BY <1>5 DEF LedgerInv
  <1> QED
    BY <1>2, <1>3, <1>4, <1>5 DEF LedgerInv

(* One handler moves; the others stay.                                     *)
LEMMA OthersStay ==
  ASSUME TypeOK, NEW a \in Attempts, NEW x,
         attempt' = [attempt EXCEPT ![a] = x]
  PROVE  /\ attempt'[a] = x
         /\ \A b \in Attempts \ {a} :
              /\ attempt'[b] = attempt[b]
              /\ Req(b)' = Req(b)
              /\ Owner(b)' <=> Owner(b)
              /\ At(b, "compensate")' <=> At(b, "compensate")
  BY DEF TypeOK, Req, Owner, At

(* Storing an order reopens none.                                          *)
LEMMA StoredStaysClosed ==
  ASSUME TypeOK, NEW q \in Requests, OrderStored(q) \/ UNCHANGED order
  PROVE  \A r \in Requests : order[r] = "closed" => order'[r] = "closed"
  BY DEF TypeOK, OrderStored

LEMMA TopicIsOfRequests == TypeOK => closeTopic \subseteq Requests
  BY DEF TypeOK

(* A handler's step that touches neither the ledger nor the closes.        *)
LEMMA HandlerFrame ==
  ASSUME TypeOK, LedgerInv, NEW a \in Attempts, NEW x,
         attempt' = [attempt EXCEPT ![a] = x],
         \/ x = Idle
         \/ x.step \notin {"order", "compensate"}
         \/ Owner(a) /\ x.req = Req(a) /\ ~ x.conflict,
         NEW q \in Requests, OrderStored(q) \/ UNCHANGED order,
         UNCHANGED <<ledger, closeKeys, closeTopic>>
  PROVE  LedgerInv'
  <1>1. \A r \in Requests : order[r] = "closed" => order'[r] = "closed"
    BY StoredStaysClosed
  <1>2. \A r \in closeTopic' : order'[r] = "closed"
    BY <1>1, TopicIsOfRequests DEF LedgerInv
  <1>3. ASSUME NEW b \in Attempts
        PROVE  /\ Owner(b)' => Owner(b) /\ Req(b)' = Req(b)
               /\ At(b, "compensate")' => ~ attempt'[b].conflict
    <2>1. CASE b # a
      BY <2>1, OthersStay DEF LedgerInv
    <2>2. CASE b = a
      <3>1. attempt'[b] = x
        BY <2>2, OthersStay
      <3>2. Owner(b)' => x # Idle /\ x.step \in {"order", "compensate"}
        BY <3>1 DEF Owner, At
      <3>3. At(b, "compensate")' => x # Idle /\ x.step \in {"order", "compensate"}
        BY <3>1 DEF At
      <3>4. Req(b)' = x.req
        BY <3>1 DEF Req
      <3> QED
        BY <2>2, <3>1, <3>2, <3>3, <3>4
    <2> QED
      BY <2>1, <2>2
  <1> QED
    BY <1>1, <1>2, <1>3, LedgerFrame

LEMMA CacheScriptsKeepCloseKeys ==
  ASSUME NEW r \in Requests,
         \/ UNCHANGED cacheVars
         \/ Stock!CacheReserved(r)
         \/ Stock!RollbackReserve(r)
         \/ Stock!RollbackByReleaseToken(r)
         \/ Stock!RequestKeyExpires(r)
  PROVE  closeKeys' = closeKeys
  BY DEF cacheVars, Stock!cacheVars, Stock!CacheReserved, Stock!RollbackReserve,
         Stock!RollbackByReleaseToken, Stock!RequestKeyExpires

(* Every step of a handler but the two transactions.                       *)
LEMMA LedgerQuiet ==
  ASSUME TypeOK, LedgerInv, NEW a \in Attempts,
         \/ ReservePurchaseInCache(a)
         \/ TryAsyncKafkaPath(a)
         \/ OrderCreated(a)
         \/ OrderRefused(a)
         \/ OrderPending(a)
         \/ RollbackReserveInCache(a)
         \/ Crash(a)
  PROVE  LedgerInv'
  <1>1. attempt[a] # Idle
    BY DEF Crash, At, ReservePurchaseInCache, TryAsyncKafkaPath, OrderCreated,
           OrderRefused, OrderPending, RollbackReserveInCache
  <1>2. attempt[a] \in Busy /\ Req(a) \in Requests
    BY <1>1, AttemptType
  <1>3. UNCHANGED <<ledger, closeTopic>>
    BY DEF ReservePurchaseInCache, TryAsyncKafkaPath, OrderCreated,
           OrderRefused, OrderPending, RollbackReserveInCache, Crash,
           topics, stockVars, dbVars
  <1>4. OrderStored(Req(a)) \/ UNCHANGED order
    BY DEF ReservePurchaseInCache, TryAsyncKafkaPath, OrderCreated,
           OrderRefused, OrderPending, OrderMaybeStored,
           RollbackReserveInCache, Crash
  <1>5. \/ UNCHANGED cacheVars
        \/ Stock!CacheReserved(Req(a))
        \/ Stock!RollbackReserve(Req(a))
    BY DEF ReservePurchaseInCache, TryAsyncKafkaPath, OrderCreated,
           OrderRefused, OrderPending, RollbackReserveInCache, Crash,
           Stock!CacheRefused, Stock!CacheDuplicate, cacheVars,
           Stock!cacheVars, stockVars
  <1>6. closeKeys' = closeKeys
    BY <1>2, <1>5, CacheScriptsKeepCloseKeys
  <1>7. ASSUME NEW x,
               attempt' = [attempt EXCEPT ![a] = x],
               \/ x = Idle
               \/ x.step \notin {"order", "compensate"}
               \/ Owner(a) /\ x.req = Req(a) /\ ~ x.conflict
        PROVE  LedgerInv'
    BY <1>2, <1>3, <1>4, <1>6, <1>7, HandlerFrame
  <1>8. CASE Return(a)
    BY <1>7, <1>8 DEF Return
  <1>9. ASSUME NEW s \in {"db", "replay"}, Goto(a, s)
        PROVE  LedgerInv'
    <2>1. [attempt[a] EXCEPT !.step = s].step = s
      BY <1>2 DEF Busy
    <2>2. attempt' = [attempt EXCEPT ![a] = [attempt[a] EXCEPT !.step = s]]
      BY <1>9 DEF Goto
    <2> QED
      BY <1>7, <2>1, <2>2
  <1>10. CASE attempt' = [attempt EXCEPT ![a] =
                [@ EXCEPT !.step = "publish", !.cached = TRUE]]
    <2>1. [attempt[a] EXCEPT !.step = "publish", !.cached = TRUE].step = "publish"
      BY <1>2 DEF Busy
    <2> QED
      BY <1>7, <1>10, <2>1
  <1>11. ASSUME At(a, "order"), ~ attempt[a].conflict,
                NEW x \in Stock!CompensateSuffixes,
                attempt' = [attempt EXCEPT ![a] =
                  [@ EXCEPT !.step = "compensate", !.suffix = x]]
         PROVE  LedgerInv'
    <2>1. LET y == [attempt[a] EXCEPT !.step = "compensate", !.suffix = x]
          IN  y.req = Req(a) /\ y.conflict = attempt[a].conflict
      BY <1>2 DEF Busy, Req
    <2>2. Owner(a)
      BY <1>11 DEF Owner
    <2> QED
      BY <1>7, <1>11, <2>1, <2>2
  <1> QED
    BY <1>8, <1>9, <1>10, <1>11
    DEF ReservePurchaseInCache, TryAsyncKafkaPath, OrderCreated, OrderRefused,
        OrderPending, RollbackReserveInCache, Crash

LEMMA LedgerPurchase ==
  ASSUME TypeOK, LedgerInv, NEW a \in Attempts, NEW r \in Requests,
         Purchase(a, r)
  PROVE  LedgerInv'
  <1> DEFINE x == [step |-> "cache", req |-> r, cached |-> FALSE,
                   conflict |-> FALSE, suffix |-> "order_fail"]
  <1>1. attempt' = [attempt EXCEPT ![a] = x]
    BY DEF Purchase
  <1>2. UNCHANGED order /\ UNCHANGED <<ledger, closeKeys, closeTopic>>
    BY DEF Purchase, topics, stockVars, dbVars, cacheVars
  <1>3. x.step \notin {"order", "compensate"}
    OBVIOUS
  <1> QED
    BY <1>1, <1>2, <1>3, HandlerFrame

(* The transaction that takes a piece makes its handler the owner: nobody   *)
(* else holds the ledger line it claims, and nothing was compensated.      *)
LEMMA LedgerClaim ==
  ASSUME TypeOK, LedgerInv, NEW a \in Attempts, NEW x,
         Req(a) \in Requests,
         attempt' = [attempt EXCEPT ![a] = x],
         x # Idle => x.step # "compensate" /\ x.req = Req(a),
         Stock!ReserveKey(Req(a)) \notin ledger,
         ledger' = ledger \cup {Stock!ReserveKey(Req(a))},
         UNCHANGED <<order, closeKeys, closeTopic>>
  PROVE  LedgerInv'
  <1>1. attempt'[a] = x
    BY OthersStay
  <1>2. \A r : Compensations(r)' = Compensations(r)
    BY DEF Compensations, Stock!ReserveKey, Stock!CompensateSuffixes
  <1>3. \A r : Stock!CloseKey(r) \in ledger' <=> Stock!CloseKey(r) \in ledger
    BY KeyKinds DEF Stock!ReserveKey
  <1>4. \A r : Stock!ReserveKey(r) \in ledger => (Stock!ReserveKey(r) \in ledger)'
    BY DEF Stock!ReserveKey
  <1>5. CompensatedAtMostOnce'
    BY <1>2, <1>4 DEF LedgerInv, CompensatedAtMostOnce
  <1>6. ClosedBeforeReleased'
    BY <1>3 DEF LedgerInv, ClosedBeforeReleased, Stock!CloseKey
  <1>7. \A r \in closeTopic' : order'[r] = "closed"
    BY DEF LedgerInv
  <1>8. \A b \in Attempts : At(b, "compensate")' => ~ attempt'[b].conflict
    <2> SUFFICES ASSUME NEW b \in Attempts, At(b, "compensate")'
                 PROVE  ~ attempt'[b].conflict
      OBVIOUS
    <2>1. b # a
      BY <1>1 DEF At
    <2> QED
      BY <2>1, OthersStay DEF LedgerInv
  <1>9. Compensations(Req(a)) = {}
    BY DEF LedgerInv, CompensatedAtMostOnce
  <1>10. ASSUME NEW b \in Attempts, Owner(b)'
         PROVE  /\ (Stock!ReserveKey(Req(b)) \in ledger)'
                /\ (Compensations(Req(b)) = {})'
    <2>1. CASE b = a
      <3>1. Req(a)' = Req(a)
        BY <1>1, <1>10, <2>1 DEF Owner, At, Req
      <3> QED
        BY <1>2, <1>9, <2>1, <3>1 DEF Compensations, Stock!ReserveKey
    <2>2. CASE b # a
      <3>1. Owner(b) /\ Req(b)' = Req(b)
        BY <1>10, <2>2, OthersStay
      <3>2. Stock!ReserveKey(Req(b)) \in ledger /\ Compensations(Req(b)) = {}
        BY <3>1 DEF LedgerInv
      <3> QED
        BY <1>2, <3>1, <3>2 DEF Compensations, Stock!ReserveKey
    <2> QED
      BY <2>1, <2>2
  <1>11. ASSUME NEW b \in Attempts \ {a}, Owner(b)'
         PROVE  (KeyOf[Req(b)])' # KeyOf[Req(a)]
    <2>1. Owner(b) /\ Req(b)' = Req(b)
      BY <1>11, OthersStay
    <2>2. Stock!ReserveKey(Req(b)) \in ledger
      BY <2>1 DEF LedgerInv
    <2> QED
      BY <2>1, <2>2 DEF Stock!ReserveKey
  <1>12. Owner(a)' => Req(a)' = Req(a)
    BY <1>1 DEF Owner, At, Req
  <1>13. ASSUME NEW b \in Attempts, NEW c \in Attempts, Owner(b)', Owner(c)',
                (KeyOf[Req(b)] = KeyOf[Req(c)])'
         PROVE  b = c
    <2>1. CASE b # a /\ c # a
      <3>1. Owner(b) /\ Owner(c) /\ KeyOf[Req(b)] = KeyOf[Req(c)]
        BY <1>13, <2>1, OthersStay
      <3> QED
        BY <3>1 DEF LedgerInv
    <2>2. CASE b = a \/ c = a
      BY <1>11, <1>12, <1>13, <2>2
    <2> QED
      BY <2>1, <2>2
  <1> QED
    BY <1>5, <1>6, <1>7, <1>8, <1>10, <1>13 DEF LedgerInv

LEMMA LedgerReserve ==
  ASSUME TypeOK, LedgerInv, NEW a \in Attempts, ReserveDBAndHandleConflict(a)
  PROVE  LedgerInv'
  <1>1. attempt[a] # Idle
    BY DEF ReserveDBAndHandleConflict, At
  <1>2. attempt[a] \in Busy /\ Req(a) \in Requests
    BY <1>1, AttemptType
  <1>3. UNCHANGED order /\ UNCHANGED <<closeKeys, closeTopic>>
    BY DEF ReserveDBAndHandleConflict, topics, cacheVars
  <1>4. \/ ledger' = ledger
        \/ /\ Stock!ReserveKey(Req(a)) \notin ledger
           /\ ledger' = ledger \cup {Stock!ReserveKey(Req(a))}
    BY DEF ReserveDBAndHandleConflict, Stock!ReserveConflict,
           Stock!ReserveMissed, Stock!ReservePurchase, dbVars, Stock!dbVars
  <1>5. ASSUME NEW x, attempt' = [attempt EXCEPT ![a] = x],
               x # Idle => x.step = "rollback" /\ x.req = Req(a)
        PROVE  LedgerInv'
    <2>1. CASE ledger' = ledger
      <3>1. x = Idle \/ x.step \notin {"order", "compensate"}
        BY <1>5
      <3> QED
        BY <1>2, <1>3, <1>5, <2>1, <3>1, HandlerFrame
    <2>2. CASE ledger' # ledger
      BY <1>2, <1>3, <1>4, <1>5, <2>2, LedgerClaim
    <2> QED
      BY <2>1, <2>2
  <1>6. CASE GiveUp(a)
    <2>1. CASE Return(a)
      BY <1>5, <2>1 DEF Return
    <2>2. CASE Goto(a, "rollback")
      <3>1. LET y == [attempt[a] EXCEPT !.step = "rollback"]
            IN  y.step = "rollback" /\ y.req = Req(a)
        BY <1>2 DEF Busy, Req
      <3> QED
        BY <1>5, <2>2, <3>1 DEF Goto
    <2> QED
      BY <1>6, <2>1, <2>2 DEF GiveUp
  <1>7. CASE Stock!ReservePurchase(Req(a), TRUE) /\ Goto(a, "order")
    <2>1. LET y == [attempt[a] EXCEPT !.step = "order"]
          IN  y.step = "order" /\ y.req = Req(a)
      BY <1>2 DEF Busy, Req
    <2>2. /\ Stock!ReserveKey(Req(a)) \notin ledger
          /\ ledger' = ledger \cup {Stock!ReserveKey(Req(a))}
      BY <1>7 DEF Stock!ReservePurchase
    <2> QED
      BY <1>2, <1>3, <1>7, <2>1, <2>2, LedgerClaim DEF Goto
  <1>8. ASSUME Stock!ReserveConflict(Req(a)),
               attempt' = [attempt EXCEPT ![a] =
                 [@ EXCEPT !.step = "order", !.conflict = TRUE]]
        PROVE  LedgerInv'
    <2> DEFINE x == [attempt[a] EXCEPT !.step = "order", !.conflict = TRUE]
    <2>1. ledger' = ledger
      BY <1>8 DEF Stock!ReserveConflict, Stock!dbVars
    <2>2. x.step = "order" /\ x.conflict
      BY <1>2 DEF Busy
    <2>3. attempt'[a] = x
      BY <1>8, OthersStay
    <2>4. ~ Owner(a)' /\ ~ At(a, "compensate")'
      BY <2>2, <2>3 DEF Owner, At
    <2>5. \A b \in Attempts : b # a =>
            /\ Owner(b)' => Owner(b) /\ Req(b)' = Req(b)
            /\ At(b, "compensate")' => ~ attempt'[b].conflict
      BY <1>8, OthersStay DEF LedgerInv
    <2>6. \A b \in Attempts : Owner(b)' => Owner(b) /\ Req(b)' = Req(b)
      BY <2>4, <2>5
    <2>7. \A b \in Attempts : At(b, "compensate")' => ~ attempt'[b].conflict
      BY <2>4, <2>5
    <2>8. \A r \in closeTopic' : order'[r] = "closed"
      BY <1>3 DEF LedgerInv
    <2> QED
      BY <1>3, <2>1, <2>6, <2>7, <2>8, LedgerFrame
  <1> QED
    BY <1>6, <1>7, <1>8 DEF ReserveDBAndHandleConflict

(* The owner gives back what it took, under one key, and owns no more.     *)
LEMMA LedgerCompensate ==
  ASSUME TypeOK, LedgerInv, NEW a \in Attempts, CompensateRelease(a)
  PROVE  LedgerInv'
  <1>1. At(a, "compensate") /\ attempt[a] # Idle
    BY DEF CompensateRelease, At
  <1>2. attempt[a] \in Busy /\ Req(a) \in Requests
    BY <1>1, AttemptType
  <1>3. Owner(a)
    BY <1>1 DEF Owner, LedgerInv
  <1>4. Stock!ReserveKey(Req(a)) \in ledger /\ Compensations(Req(a)) = {}
    BY <1>3 DEF LedgerInv
  <1>5. UNCHANGED order /\ UNCHANGED <<closeKeys, closeTopic>>
    BY DEF CompensateRelease, topics, cacheVars
  <1>6. PICK x : /\ attempt' = [attempt EXCEPT ![a] = x]
                 /\ x = Idle \/ x.step = "rollback"
    <2>1. CASE Return(a)
      BY <2>1 DEF Return
    <2>2. CASE Goto(a, "rollback")
      <3>1. [attempt[a] EXCEPT !.step = "rollback"].step = "rollback"
        BY <1>2 DEF Busy
      <3> QED
        BY <2>2, <3>1 DEF Goto
    <2> QED
      BY <2>1, <2>2 DEF CompensateRelease, GiveUp
  <1>7. attempt'[a] = x /\ ~ Owner(a)' /\ ~ At(a, "compensate")'
    BY <1>6, OthersStay DEF Owner, At
  <1>8. \A b \in Attempts : Owner(b)' => b # a /\ Owner(b) /\ Req(b)' = Req(b)
    BY <1>6, <1>7, OthersStay
  <1>9. \A b \in Attempts : At(b, "compensate")' => ~ attempt'[b].conflict
    BY <1>6, <1>7, OthersStay DEF LedgerInv
  <1>10. \A r \in closeTopic' : order'[r] = "closed"
    BY <1>5 DEF LedgerInv
  <1>11. CASE UNCHANGED dbVars
    <2>1. ledger' = ledger
      BY <1>11 DEF dbVars
    <2> QED
      BY <1>5, <1>8, <1>9, <1>10, <2>1, LedgerFrame
  <1>12. CASE Stock!CompensateReleasePurchase(Req(a), attempt[a].suffix)
    <2> DEFINE s == attempt[a].suffix
               K == KeyOf[Req(a)]
    <2>1. s \in Stock!CompensateSuffixes
      BY <1>2 DEF Busy
    <2>2. <<K, s>> \notin ledger
      BY <1>4, <2>1 DEF Compensations
    <2>3. ledger' = ledger \cup {<<K, s>>}
      BY <1>12, <2>2 DEF Stock!CompensateReleasePurchase, Stock!ReleaseUnder
    <2>4. \A r : KeyOf[r] # K => Compensations(r)' = Compensations(r)
      BY <2>3 DEF Compensations
    <2>5. \A r : KeyOf[r] = K => /\ Compensations(r) = {}
                                /\ Stock!ReserveKey(r) \in ledger
      BY <1>4 DEF Compensations, Stock!ReserveKey
    <2>6. \A r : KeyOf[r] = K => \A t \in Compensations(r)' : t = s
      BY <2>3, <2>5 DEF Compensations
    <2>7. \A r : Stock!ReserveKey(r) \in ledger => (Stock!ReserveKey(r) \in ledger)'
      BY <2>3 DEF Stock!ReserveKey
    <2>8. \A r : Stock!CloseKey(r) \in ledger' <=> Stock!CloseKey(r) \in ledger
      BY <2>1, <2>3, KeyKinds
    <2>9. CompensatedAtMostOnce'
      BY <2>4, <2>5, <2>6, <2>7 DEF LedgerInv, CompensatedAtMostOnce
    <2>10. ClosedBeforeReleased'
      BY <1>5, <2>8 DEF LedgerInv, ClosedBeforeReleased, Stock!CloseKey
    <2>11. ASSUME NEW b \in Attempts, Owner(b)'
           PROVE  /\ (Stock!ReserveKey(Req(b)) \in ledger)'
                  /\ (Compensations(Req(b)) = {})'
      <3>1. b # a /\ Owner(b) /\ Req(b)' = Req(b)
        BY <1>8, <2>11
      <3>2. KeyOf[Req(b)] # K
        BY <1>3, <3>1 DEF LedgerInv
      <3>3. Stock!ReserveKey(Req(b)) \in ledger /\ Compensations(Req(b)) = {}
        BY <3>1 DEF LedgerInv
      <3> QED
        BY <2>3, <3>1, <3>2, <3>3 DEF Compensations, Stock!ReserveKey
    <2>12. ASSUME NEW b \in Attempts, NEW c \in Attempts, Owner(b)', Owner(c)',
                  (KeyOf[Req(b)] = KeyOf[Req(c)])'
           PROVE  b = c
      BY <1>8, <2>12 DEF LedgerInv
    <2> QED
      BY <1>9, <1>10, <2>9, <2>10, <2>11, <2>12 DEF LedgerInv
  <1> QED
    BY <1>11, <1>12 DEF CompensateRelease

(* order-rpc and the consumers.                                            *)
LEMMA LedgerOutside ==
  ASSUME TypeOK, LedgerInv, UNCHANGED attempt, ledger' = ledger,
         \A r \in Requests : r \in closeKeys' =>
            r \in closeKeys \/ Stock!CloseKey(r) \in ledger,
         \A r \in Requests : order[r] = "closed" => order'[r] = "closed",
         \A r \in closeTopic' : order'[r] = "closed"
  PROVE  LedgerInv'
  <1>1. \A a \in Attempts : Owner(a)' => Owner(a) /\ Req(a)' = Req(a)
    BY DEF Owner, At, Req
  <1>2. \A a \in Attempts : At(a, "compensate")' => ~ attempt'[a].conflict
    BY DEF LedgerInv, At
  <1> QED
    BY <1>1, <1>2, LedgerFrame

LEMMA LedgerConsume ==
  ASSUME TypeOK, LedgerInv, NEW k \in Consumers,
         Consume(k) \/ ConsumerStops(k) \/ \E r \in Requests : Poll(k, r)
  PROVE  LedgerInv'
  <1>1. /\ UNCHANGED attempt /\ ledger' = ledger
        /\ UNCHANGED <<closeKeys, closeTopic>>
    BY DEF Consume, ConsumerStops, Poll, ConsumePurchaseCreate, RetriesExhausted,
           PublishStockCompensate, topics, stockVars, cacheVars, dbVars
  <1>2. UNCHANGED order \/ \E r \in Requests : OrderStored(r)
    <2>1. consumer[k] # Idle => consumer[k].req \in Requests
      BY DEF TypeOK, Consuming
    <2> QED
      BY <2>1 DEF Consume, ConsumerStops, Poll, Consumes, ConsumePurchaseCreate,
                  RetriesExhausted, PublishStockCompensate
  <1>3. \A r \in Requests : order[r] = "closed" => order'[r] = "closed"
    BY <1>2, StoredStaysClosed
  <1>4. \A r \in closeTopic' : order'[r] = "closed"
    BY <1>1, <1>3, TopicIsOfRequests DEF LedgerInv
  <1> QED
    BY <1>1, <1>3, <1>4, LedgerOutside

LEMMA LedgerClose ==
  ASSUME TypeOK, LedgerInv, NEW r \in Requests, CloseOrder(r)
  PROVE  LedgerInv'
  <1>1. /\ UNCHANGED attempt /\ ledger' = ledger /\ closeKeys' = closeKeys
        /\ order' = [order EXCEPT ![r] = "closed"]
        /\ closeTopic' \subseteq closeTopic \cup {r}
    BY DEF CloseOrder, stockVars, cacheVars, dbVars
  <1>2. \A q \in Requests : order[q] = "closed" => order'[q] = "closed"
    BY <1>1 DEF TypeOK
  <1>3. \A q \in closeTopic' : order'[q] = "closed"
    BY <1>1, TopicIsOfRequests DEF TypeOK, LedgerInv
  <1> QED
    BY <1>1, <1>2, <1>3, LedgerOutside

(* Redis gives back what MySQL has, or moves nothing of this invariant.    *)
LEMMA LedgerCache ==
  ASSUME TypeOK, LedgerInv, NEW r \in Requests,
         \/ ConsumeStockCompensate(r)
         \/ ReleaseClosedInCache(r)
         \/ RequestKeyExpires(r)
  PROVE  LedgerInv'
  <1>1. /\ UNCHANGED attempt /\ ledger' = ledger /\ UNCHANGED order
        /\ closeTopic' \subseteq closeTopic
    BY DEF ConsumeStockCompensate, ReleaseClosedInCache, RequestKeyExpires,
           dbVars, topics
  <1>2. \A q \in closeTopic' : order'[q] = "closed"
    BY <1>1 DEF LedgerInv
  <1>3. \A q \in Requests : q \in closeKeys' =>
          q \in closeKeys \/ Stock!CloseKey(q) \in ledger
    BY DEF ConsumeStockCompensate, ReleaseClosedInCache, RequestKeyExpires,
           Stock!RollbackByReleaseToken, Stock!ReleaseByClose,
           Stock!RequestKeyExpires, Stock!cacheVars, cacheVars
  <1> QED
    BY <1>1, <1>2, <1>3, LedgerOutside

LEMMA LedgerRelease ==
  ASSUME TypeOK, LedgerInv, NEW r \in Requests, ReleaseClosedInDB(r)
  PROVE  LedgerInv'
  <1>1. /\ UNCHANGED attempt /\ UNCHANGED order
        /\ UNCHANGED <<closeKeys, closeTopic>>
        /\ r \in closeTopic
        /\ Stock!ReleaseUnder(Stock!CloseKey(r))
    BY DEF ReleaseClosedInDB, Stock!ReleasePurchaseByOrder, topics, cacheVars
  <1>2. order[r] = "closed"
    BY <1>1 DEF LedgerInv
  <1>3. CASE Stock!CloseKey(r) \in ledger
    <2>1. ledger' = ledger
      BY <1>1, <1>3 DEF Stock!ReleaseUnder, Stock!dbVars
    <2> QED
      BY <1>1, <2>1, LedgerOutside DEF LedgerInv
  <1>4. CASE Stock!CloseKey(r) \notin ledger
    <2>1. ledger' = ledger \cup {Stock!CloseKey(r)}
      BY <1>1, <1>4 DEF Stock!ReleaseUnder
    <2>2. \A q : Compensations(q)' = Compensations(q)
      BY <2>1, KeyKinds DEF Compensations
    <2>3. \A q : (Stock!ReserveKey(q) \in ledger)' <=> Stock!ReserveKey(q) \in ledger
      BY <2>1, KeyKinds DEF Stock!ReserveKey
    <2>4. CompensatedAtMostOnce'
      BY <2>2, <2>3 DEF LedgerInv, CompensatedAtMostOnce
    <2>5. ClosedBeforeReleased'
      BY <1>1, <1>2, <2>1 DEF LedgerInv, ClosedBeforeReleased, Stock!CloseKey
    <2>6. ASSUME NEW a \in Attempts, Owner(a)'
          PROVE  /\ (Stock!ReserveKey(Req(a)) \in ledger)'
                 /\ (Compensations(Req(a)) = {})'
      <3>1. Owner(a) /\ Req(a)' = Req(a)
        BY <1>1, <2>6 DEF Owner, At, Req
      <3>2. Stock!ReserveKey(Req(a)) \in ledger /\ Compensations(Req(a)) = {}
        BY <3>1 DEF LedgerInv
      <3> QED
        BY <2>2, <2>1, <3>1, <3>2 DEF Compensations, Stock!ReserveKey
    <2>7. ASSUME NEW a \in Attempts, NEW b \in Attempts, Owner(a)', Owner(b)',
                 (KeyOf[Req(a)] = KeyOf[Req(b)])'
          PROVE  a = b
      BY <1>1, <2>7 DEF LedgerInv, Owner, At, Req
    <2>8. \A a \in Attempts : At(a, "compensate")' => ~ attempt'[a].conflict
      BY <1>1 DEF LedgerInv, At
    <2> QED
      BY <1>1, <2>4, <2>5, <2>6, <2>7, <2>8 DEF LedgerInv
  <1> QED
    BY <1>3, <1>4

LEMMA LedgerInit == Init => LedgerInv
  BY DEF Init, Stock!StockInit, LedgerInv, CompensatedAtMostOnce,
         ClosedBeforeReleased, Compensations, Owner, At

LEMMA LedgerStutter ==
  ASSUME TypeOK, LedgerInv, UNCHANGED vars
  PROVE  LedgerInv'
  <1>1. /\ UNCHANGED attempt /\ ledger' = ledger /\ UNCHANGED order
        /\ closeKeys' = closeKeys /\ closeTopic' = closeTopic
    BY DEF vars, topics, stockVars, cacheVars, dbVars
  <1> QED
    BY <1>1, LedgerOutside DEF LedgerInv, TypeOK

LEMMA LedgerNext == TypeOK /\ LedgerInv /\ [Next]_vars => LedgerInv'
  BY LedgerPurchase, LedgerQuiet, LedgerReserve, LedgerCompensate,
     LedgerConsume, LedgerClose, LedgerCache, LedgerRelease, LedgerStutter
  DEF Next, Continue

(* The ledger and its owners agree in every reachable state.               *)
THEOREM LedgerCorrect == Spec => []LedgerInv
  BY TypeCorrect, LedgerInit, LedgerNext, PTL DEF Spec

(* A reservation in MySQL is compensated at most once, under one of the     *)
(* three reasons, and only if it was made: for any number of purchases     *)
(* under one key, whatever fails or crashes between their steps.           *)
THEOREM CompensatedOnce == Spec => []CompensatedAtMostOnce
  <1>1. LedgerInv => CompensatedAtMostOnce
    BY DEF LedgerInv
  <1> QED
    BY LedgerCorrect, <1>1, PTL

(* A piece goes back for a close in MySQL before it does in Redis, and for  *)
(* an order that is closed for good.                                       *)
THEOREM ClosesFirst == Spec => []ClosedBeforeReleased
  <1>1. LedgerInv => ClosedBeforeReleased
    BY DEF LedgerInv
  <1> QED
    BY LedgerCorrect, <1>1, PTL
=============================================================================
