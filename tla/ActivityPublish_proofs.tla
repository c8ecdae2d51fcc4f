------------------------ MODULE ActivityPublish_proofs ------------------------
(***************************************************************************)
(* Proofs about ActivityPublish, for every set of items and requests, every *)
(* bound and every set of hazards.                                         *)
(***************************************************************************)
EXTENDS ActivityPublish, TLAPS

AnyRow == Row \cup {NoRow, Removed}
AnyRequest == Serving \cup Editing \cup {Idle}

Offered(list) == {i \in Items : list[i].there = "yes"}

(* A request reserves, rolls back and releases items of the list it read.  *)
Sound(r) ==
  r.step \in Steps =>
    /\ r.done \subseteq Offered(r.list)
    /\ r.step \in {"reserve", "rollback", "release"} => r.todo \subseteq Offered(r.list)

RequestsOK ==
  /\ request \in [Admins -> AnyRequest]
  /\ \A a \in Admins : Sound(request[a])

(* The inductive invariant.                                                *)
StockInv == TypeOK /\ RequestsOK /\ ProductBalance

LEMMA RowKind ==
  ASSUME NEW r \in AnyRow, r.there = "yes"
  PROVE  r \in Row
  BY DEF AnyRow, NoRow, Removed

LEMMA RequestKind ==
  ASSUME RequestsOK, NEW a \in Admins
  PROVE  /\ request[a].step \in Steps => request[a] \in Serving
         /\ request[a].step \in {"upsert", "remove"} => request[a] \in Editing
         /\ Sound(request[a])
  BY DEF RequestsOK, AnyRequest, Serving, Editing, Idle, Steps

LEMMA Moves ==
  ASSUME RequestsOK, NEW a \in Admins, NEW s \in AnyRequest, Sound(s),
         request' = [request EXCEPT ![a] = s]
  PROVE  RequestsOK'
  BY DEF RequestsOK, Sound

LEMMA Returns ==
  ASSUME RequestsOK, NEW a \in Admins, Return(a)
  PROVE  RequestsOK'
  <1>1. Idle \in AnyRequest /\ Sound(Idle) BY DEF AnyRequest, Idle, Sound, Steps
  <1> QED BY <1>1, Moves DEF Return

(* A call that is being served goes on to another step.                    *)
LEMMA GoesOn ==
  ASSUME RequestsOK, NEW a \in Admins, NEW s \in Serving,
         s.done \subseteq Offered(s.list),
         s.step \in {"reserve", "rollback", "release"} => s.todo \subseteq Offered(s.list),
         request' = [request EXCEPT ![a] = s]
  PROVE  RequestsOK'
  BY Moves DEF AnyRequest, Sound

(* The same for a move of step and todo alone.                             *)
LEMMA GoesTo ==
  ASSUME RequestsOK, NEW a \in Admins, request[a].step \in Steps,
         NEW step \in Steps, NEW items \in SUBSET Items,
         step \in {"reserve", "rollback", "release"} =>
           items \subseteq Offered(request[a].list),
         Goto(a, step, items)
  PROVE  RequestsOK'
  <1> DEFINE r == request[a]
             s == [r EXCEPT !.step = step, !.todo = items]
  <1>1. r \in Serving /\ Sound(r) BY RequestKind
  <1>2. /\ s \in Serving
        /\ s.step = step /\ s.todo = items /\ s.done = r.done /\ s.list = r.list
    BY <1>1 DEF Serving
  <1>3. Sound(s) BY <1>1, <1>2 DEF Sound
  <1>4. request' = [request EXCEPT ![a] = s] BY DEF Goto
  <1> HIDE DEF s
  <1> QED BY <1>2, <1>3, <1>4, Moves DEF AnyRequest

LEMMA RollsBack ==
  ASSUME RequestsOK, NEW a \in Admins, request[a].step \in Steps, RollBackFrom(a)
  PROVE  RequestsOK'
  <1>1. /\ request[a] \in Serving
        /\ request[a].done \subseteq Offered(request[a].list)
    BY RequestKind DEF Sound
  <1> QED BY <1>1, GoesTo DEF RollBackFrom, Steps, Serving

-----------------------------------------------------------------------------
(* What the calls do to the requests.                                      *)
LEMMA AdministerRequests ==
  ASSUME TypeOK, RequestsOK, NEW a \in Admins, Administer(a)
  PROVE  RequestsOK'
  <1> DEFINE r == request[a]
  <1>0. /\ r.step \in Steps => /\ r \in Serving
                               /\ r.done \subseteq Offered(r.list)
                               /\ r.step \in {"reserve", "rollback", "release"} =>
                                    r.todo \subseteq Offered(r.list)
        /\ Enabled(row) \subseteq Offered(row) /\ Enabled(row) \subseteq Items
        /\ row \in [Items -> AnyRow]
    BY RequestKind DEF Sound, Enabled, Offered, TypeOK, AnyRow
  <1>1. CASE UpsertActivityItem(a)
    <2> PICK i \in Items, q \in Quantity, e \in BOOLEAN :
          request' = [request EXCEPT ![a] =
            [step |-> "upsert", item |-> i, total |-> q, enabled |-> e]]
      BY <1>1 DEF UpsertActivityItem
    <2> DEFINE s == [step |-> "upsert", item |-> i, total |-> q, enabled |-> e]
    <2>1. s \in AnyRequest /\ Sound(s) BY DEF AnyRequest, Editing, Sound, Steps
    <2> QED BY <2>1, Moves
  <1>2. CASE RemoveActivityItem(a)
    <2> PICK i \in Listed :
          request' = [request EXCEPT ![a] = [step |-> "remove", item |-> i]]
      BY <1>2 DEF RemoveActivityItem
    <2> DEFINE s == [step |-> "remove", item |-> i]
    <2>1. s \in AnyRequest /\ Sound(s)
      BY DEF AnyRequest, Editing, Sound, Steps, Listed
    <2> QED BY <2>1, Moves
  <1>3. CASE \/ StoreItem(a) \/ DropItem(a) \/ RollBackEnds(a)
             \/ MarkOffline(a) \/ Crash(a)
    BY <1>3, Returns DEF StoreItem, DropItem, RollBackEnds, MarkOffline, Crash
  <1>4. CASE PublishActivity(a)
    <2> DEFINE s == [step |-> "reserve", list |-> row, todo |-> Enabled(row),
                     done |-> {}, failed |-> FALSE, fresh |-> [i \in Items |-> 0]]
    <2>1. s \in Serving BY <1>0 DEF Serving, Steps, AnyRow
    <2>2. Sound(s) BY <1>0 DEF Sound
    <2>3. request' = [request EXCEPT ![a] = s] BY <1>4 DEF PublishActivity
    <2> HIDE DEF s
    <2> QED BY <2>1, <2>2, <2>3, Moves DEF AnyRequest
  <1>5. CASE OfflineActivity(a)
    <2> DEFINE items == IF status = "published" THEN Listed ELSE {}
               s == [step |-> IF items = {} THEN "offline" ELSE "release", list |-> row,
                     todo |-> items, done |-> {}, failed |-> FALSE,
                     fresh |-> [i \in Items |-> 0]]
    <2>1. items \subseteq Offered(row) /\ items \subseteq Items
      BY DEF Listed, Offered, There
    <2>2. s \in Serving BY <1>0, <2>1 DEF Serving, Steps, AnyRow
    <2>3. Sound(s) BY <2>1 DEF Sound
    <2>4. request' = [request EXCEPT ![a] = s] BY <1>5 DEF OfflineActivity
    <2> HIDE DEF s
    <2> QED BY <2>2, <2>3, <2>4, Moves DEF AnyRequest
  <1>6. CASE ResetAvailableStockByReserved(a)
    BY <1>6, GoesTo DEF ResetAvailableStockByReserved, At, Steps
  <1>7. CASE RefreshItems(a)
    <2> DEFINE step == IF Enabled(row) = {} THEN "publish" ELSE "cache"
               fresh == [i \in Items |-> IF There(i) THEN row[i].available ELSE 0]
    <2>1. r.step \in Steps BY <1>7 DEF RefreshItems, At, Steps
    <2>2. fresh \in [Items -> Nat]
      <3> SUFFICES ASSUME NEW i \in Items, There(i) PROVE row[i].available \in Nat
        OBVIOUS
      <3> QED BY <1>0, RowKind DEF There, Row
    <2> DEFINE s == [request[a] EXCEPT !.step = step, !.todo = Enabled(row),
                                       !.fresh = fresh]
    <2>3. request' = [request EXCEPT ![a] = s] BY <1>7 DEF RefreshItems
    <2>4. step \in Steps /\ step \notin {"reserve", "rollback", "release"}
      BY DEF Steps
    <2> HIDE DEF step, fresh
    <2>5. /\ s \in Serving /\ s.step = step /\ s.done = r.done /\ s.list = r.list
      BY <1>0, <2>1, <2>2, <2>4 DEF Serving
    <2> HIDE DEF s
    <2> QED BY <1>0, <2>1, <2>3, <2>4, <2>5, GoesOn
  <1>8. CASE MarkPublished(a) \/ DatabaseError(a)
    BY <1>8, Returns, RollsBack DEF MarkPublished, DatabaseError, At, Steps
  <1>9. CASE \E i \in Items : ReserveItem(a, i)
    <2> PICK i \in Items : ReserveItem(a, i) BY <1>9
    <2>1. r.step = "reserve" /\ i \in r.todo BY DEF ReserveItem, At
    <2>2. r \in Serving /\ r.todo \subseteq Offered(r.list) /\ r.done \subseteq Offered(r.list)
      BY <1>0, <2>1 DEF Steps
    <2>3. CASE ReserveNext(a, i)
      <3> DEFINE s == [r EXCEPT !.todo = r.todo \ {i}, !.done = r.done \cup {i},
                                !.step = IF r.todo = {i} THEN "reset" ELSE "reserve"]
      <3>1. request' = [request EXCEPT ![a] = s] BY <2>3 DEF ReserveNext
      <3>2. /\ s \in Serving
            /\ s.todo = r.todo \ {i} /\ s.done = r.done \cup {i} /\ s.list = r.list
        BY <2>1, <2>2 DEF Serving, Steps
      <3> HIDE DEF s
      <3> QED BY <2>1, <2>2, <3>1, <3>2, GoesOn
    <2>4. CASE RollBackFrom(a) BY <2>1, <2>4, RollsBack DEF Steps
    <2> QED BY <2>3, <2>4 DEF ReserveItem
  <1>10. CASE \E i \in Items : SetCacheStock(a, i) \/ RollBackItem(a, i)
    <2> PICK i \in Items : SetCacheStock(a, i) \/ RollBackItem(a, i) BY <1>10
    <2>1. r.step \in {"cache", "rollback"} BY DEF SetCacheStock, RollBackItem, At
    <2>2. /\ r \in Serving
          /\ r.step = "rollback" => r.todo \subseteq Offered(r.list)
      BY <1>0, <2>1 DEF Steps
    <2>3. r.todo \ {i} \in SUBSET Items BY <2>2 DEF Serving
    <2>4. CASE SetCacheStock(a, i)
      <3> DEFINE step == IF r.todo = {i} THEN "publish" ELSE "cache"
      <3>1. step \in Steps /\ step \notin {"reserve", "rollback", "release"}
        BY DEF Steps
      <3>2. Goto(a, step, r.todo \ {i}) BY <2>4 DEF SetCacheStock
      <3> HIDE DEF step
      <3> QED BY <2>1, <2>3, <3>1, <3>2, GoesTo DEF Steps
    <2>5. CASE RollBackItem(a, i)
      BY <2>1, <2>2, <2>3, <2>5, GoesTo DEF RollBackItem, At, Steps
    <2> QED BY <2>4, <2>5
  <1>11. CASE \E i \in Items : ReleaseItem(a, i)
    <2> PICK i \in Items : ReleaseItem(a, i) BY <1>11
    <2>1. r.step = "release" BY DEF ReleaseItem, At
    <2>2. r \in Serving /\ r.todo \subseteq Offered(r.list) /\ r.done \subseteq Offered(r.list)
      BY <1>0, <2>1 DEF Steps
    <2> PICK failed \in BOOLEAN : ReleaseNext(a, i, failed) BY DEF ReleaseItem
    <2> DEFINE s == [r EXCEPT !.todo = r.todo \ {i}, !.failed = r.failed \/ failed,
                              !.step = IF r.todo = {i} THEN "offline" ELSE "release"]
    <2>3. request' = [request EXCEPT ![a] = s] BY DEF ReleaseNext
    <2>4. /\ s \in Serving
          /\ s.todo = r.todo \ {i} /\ s.done = r.done /\ s.list = r.list
      BY <2>1, <2>2 DEF Serving, Steps
    <2> HIDE DEF s
    <2> QED BY <2>1, <2>2, <2>3, <2>4, GoesOn
  <1> QED BY <1>1, <1>2, <1>3, <1>4, <1>5, <1>6, <1>7, <1>8, <1>9, <1>10, <1>11
       DEF Administer
-----------------------------------------------------------------------------
(* The product's ledger.                                                   *)
LedgerOK ==
  /\ stock \in [Items -> Nat]
  /\ taken \in [Items -> Nat]
  /\ returned \in [Items -> [{"rollback", "offline"} -> Nat]]
  /\ ProductBalance

LEMMA SameLedger ==
  ASSUME StockInv, UNCHANGED <<initial, productVars>>
  PROVE  LedgerOK'
  BY DEF StockInv, TypeOK, LedgerOK, productVars, ProductBalance

LEMMA Reserving ==
  ASSUME StockInv, NEW i \in Items, NEW q \in Nat, ReserveStock(i, q),
         UNCHANGED initial
  PROVE  LedgerOK'
  <1>1. CASE UNCHANGED productVars BY <1>1, SameLedger
  <1>2. CASE /\ taken[i] = 0
             /\ stock[i] >= q
             /\ stock' = [stock EXCEPT ![i] = @ - q]
             /\ taken' = [taken EXCEPT ![i] = q]
             /\ UNCHANGED returned
    <2>1. /\ stock' \in [Items -> Nat] /\ taken' \in [Items -> Nat]
          /\ returned' \in [Items -> [{"rollback", "offline"} -> Nat]]
      BY <1>2 DEF StockInv, TypeOK
    <2>2. ProductBalance'
      BY <1>2, <2>1 DEF StockInv, TypeOK, ProductBalance
    <2> QED BY <2>1, <2>2 DEF LedgerOK
  <1> QED BY <1>1, <1>2 DEF ReserveStock

LEMMA Releasing ==
  ASSUME StockInv, NEW i \in Items, NEW key \in {"rollback", "offline"},
         NEW q \in Nat, ReleaseStock(i, key, q), UNCHANGED initial
  PROVE  LedgerOK'
  <1>1. CASE UNCHANGED productVars BY <1>1, SameLedger
  <1>2. CASE /\ ~ (returned[i][key] > 0)
             /\ stock' = [stock EXCEPT ![i] = @ + q]
             /\ returned' = [returned EXCEPT ![i][key] = q]
             /\ UNCHANGED taken
    <2>1. returned[i] \in [{"rollback", "offline"} -> Nat] /\ returned[i][key] = 0
      BY <1>2 DEF StockInv, TypeOK
    <2>2. /\ returned'[i] = [returned[i] EXCEPT ![key] = q]
          /\ \A j \in Items \ {i} : returned'[j] = returned[j]
          /\ returned' \in [Items -> [{"rollback", "offline"} -> Nat]]
      BY <1>2 DEF StockInv, TypeOK
    <2>3. /\ stock' \in [Items -> Nat] /\ taken' \in [Items -> Nat]
          /\ stock'[i] = stock[i] + q
          /\ \A j \in Items \ {i} : stock'[j] = stock[j]
      BY <1>2 DEF StockInv, TypeOK
    <2>4. /\ returned'[i][key] = q
          /\ \A k \in {"rollback", "offline"} \ {key} : returned'[i][k] = returned[i][k]
      BY <2>1, <2>2
    <2>5. returned'[i]["rollback"] + returned'[i]["offline"]
            = returned[i]["rollback"] + returned[i]["offline"] + q
      <3>1. CASE key = "rollback" BY <2>1, <2>4, <3>1
      <3>2. CASE key = "offline" BY <2>1, <2>4, <3>2
      <3> QED BY <3>1, <3>2
    <2>6. ProductBalance'
      <3> SUFFICES ASSUME NEW j \in Items
                   PROVE  stock'[j] = initial[j] - taken[j] + returned'[j]["rollback"]
                                        + returned'[j]["offline"]
        BY <1>2 DEF ProductBalance
      <3>1. CASE j # i BY <2>2, <2>3, <3>1 DEF StockInv, ProductBalance
      <3>2. CASE j = i
        BY <2>1, <2>2, <2>3, <2>5, <3>2 DEF StockInv, TypeOK, ProductBalance
      <3> QED BY <3>1, <3>2
    <2> QED BY <2>2, <2>3, <2>6 DEF LedgerOK
  <1> QED BY <1>1, <1>2 DEF ReleaseStock

(* The numbers that a request hands to product-rpc.                        *)
LEMMA Amounts ==
  ASSUME StockInv, NEW a \in Admins, NEW i \in Items,
         request[a].step \in {"reserve", "rollback", "release"},
         i \in request[a].todo
  PROVE  /\ request[a].list[i].total \in Nat
         /\ request[a].list[i].available \in Nat
  <1>1. request[a] \in Serving /\ i \in Offered(request[a].list)
    BY RequestKind DEF StockInv, Sound, Steps
  <1>2. request[a].list[i] \in Row BY <1>1, RowKind DEF Offered, Serving, AnyRow
  <1> QED BY <1>2 DEF Row, Quantity

LEMMA NextLedger == StockInv /\ [Next]_vars => LedgerOK'
  <1> SUFFICES ASSUME StockInv, [Next]_vars PROVE LedgerOK' OBVIOUS
  <1> USE DEF setting
  <1>1. CASE UNCHANGED vars BY <1>1, SameLedger DEF vars
  <1>2. CASE DeleteActivity BY <1>2, SameLedger DEF DeleteActivity
  <1>3. ASSUME NEW i \in Items,
               \/ LoadItem(i) \/ WarmCacheStock(i)
               \/ SellAsync(i) \/ SellSync(i) \/ CloseOrder(i)
        PROVE  LedgerOK'
    BY <1>3, SameLedger DEF LoadItem, WarmCacheStock, SellAsync, SellSync, CloseOrder
  <1>4. ASSUME NEW a \in Admins, Administer(a) PROVE LedgerOK'
    <2>1. CASE \E i \in Items : ReserveItem(a, i)
      <3> PICK i \in Items : ReserveItem(a, i) BY <2>1
      <3>1. request[a].list[i].total \in Nat BY Amounts DEF ReserveItem, At
      <3>2. UNCHANGED initial BY DEF ReserveItem
      <3> QED BY <3>1, <3>2, Reserving, SameLedger DEF ReserveItem, ReserveRefused
    <2>2. CASE \E i \in Items : RollBackItem(a, i)
      <3> PICK i \in Items : RollBackItem(a, i) BY <2>2
      <3>1. request[a].list[i].total \in Nat BY Amounts DEF RollBackItem, At
      <3>2. UNCHANGED initial BY DEF RollBackItem
      <3> QED BY <3>1, <3>2, Releasing, SameLedger DEF RollBackItem
    <2>3. CASE \E i \in Items : ReleaseItem(a, i)
      <3> PICK i \in Items : ReleaseItem(a, i) BY <2>3
      <3>1. request[a].list[i].available \in Nat BY Amounts DEF ReleaseItem, At
      <3>2. UNCHANGED initial BY DEF ReleaseItem
      <3> QED BY <3>1, <3>2, Releasing, SameLedger DEF ReleaseItem
    <2>4. CASE \/ UpsertActivityItem(a) \/ StoreItem(a)
               \/ RemoveActivityItem(a) \/ DropItem(a)
               \/ PublishActivity(a)
               \/ ResetAvailableStockByReserved(a) \/ RefreshItems(a)
               \/ MarkPublished(a) \/ DatabaseError(a) \/ RollBackEnds(a)
               \/ OfflineActivity(a) \/ MarkOffline(a)
               \/ Crash(a)
               \/ \E i \in Items : SetCacheStock(a, i)
      BY <2>4, SameLedger
      DEF UpsertActivityItem, StoreItem, RemoveActivityItem, DropItem, PublishActivity,
          ResetAvailableStockByReserved, RefreshItems, MarkPublished, DatabaseError,
          RollBackEnds, OfflineActivity, MarkOffline, Crash, SetCacheStock
    <2> QED BY <1>4, <2>1, <2>2, <2>3, <2>4 DEF Administer
  <1> QED BY <1>1, <1>2, <1>3, <1>4 DEF Next

-----------------------------------------------------------------------------
(* The activity, its cache and its sales.                                  *)
OtherTypes ==
  /\ hazards \in HazardSets
  /\ status \in {"draft", "published", "offline"}
  /\ onceOnSale \in BOOLEAN
  /\ deleted \in BOOLEAN
  /\ row \in [Items -> AnyRow]
  /\ initial \in [Items -> Nat]
  /\ cacheStock \in [Items -> Nat \cup {NoKey}]
  /\ loaded \in [Items -> Nat \cup {NoKey}]
  /\ published \in Nat
  /\ sold \in [Items -> Nat]
  /\ sales \in Nat

LEMMA BuyersTypes ==
  ASSUME OtherTypes, NEW i \in Items,
         \/ LoadItem(i) \/ WarmCacheStock(i)
         \/ SellAsync(i) \/ SellSync(i) \/ CloseOrder(i)
  PROVE  OtherTypes'
  <1> USE DEF OtherTypes, setting, activityVars
  <1>1. There(i) => row[i] \in Row BY RowKind DEF There
  <1>2. CASE LoadItem(i)
    BY <1>1, <1>2 DEF LoadItem, Row
  <1>3. CASE WarmCacheStock(i)
    BY <1>3 DEF WarmCacheStock, buyerVars
  <1>4. CASE SellAsync(i)
    BY <1>4 DEF SellAsync, Sold, NoKey
  <1>5. CASE SellSync(i)
    <2>1. row[i] \in Row /\ row[i].available - 1 \in Nat
      BY <1>1, <1>5 DEF SellSync, Row
    <2>2. [row[i] EXCEPT !.available = @ - 1] \in AnyRow BY <2>1 DEF Row, AnyRow
    <2>3. row' \in [Items -> AnyRow] BY <1>5, <2>2 DEF SellSync
    <2>4. cacheStock' \in [Items -> Nat \cup {NoKey}] BY <1>5 DEF SellSync, NoKey
    <2> QED BY <1>5, <2>3, <2>4 DEF SellSync, Sold
  <1>6. CASE CloseOrder(i)
    <2>0. sold' \in [Items -> Nat] BY <1>6 DEF CloseOrder
    <2>1. CASE There(i)
      <3>1. [row[i] EXCEPT !.available = @ + 1] \in AnyRow
        BY <1>1, <2>1 DEF Row, AnyRow
      <3>2. row' \in [Items -> AnyRow] BY <1>6, <2>1, <3>1 DEF CloseOrder
      <3>3. cacheStock' \in [Items -> Nat \cup {NoKey}]
        BY <1>6, <2>1 DEF CloseOrder, NoKey
      <3> QED BY <1>6, <2>0, <3>2, <3>3 DEF CloseOrder
    <2>2. CASE ~ There(i) BY <1>6, <2>0, <2>2 DEF CloseOrder
    <2> QED BY <2>1, <2>2
  <1> QED BY <1>2, <1>3, <1>4, <1>5, <1>6

LEMMA AdministerTypes ==
  ASSUME StockInv, OtherTypes, NEW a \in Admins, Administer(a)
  PROVE  OtherTypes'
  <1> USE DEF OtherTypes, setting, activityVars, buyerVars
  <1> DEFINE r == request[a]
  <1>0. /\ r.step \in Steps => r \in Serving
        /\ r.step \in {"upsert", "remove"} => r \in Editing
    BY RequestKind DEF StockInv
  <1>1. CASE StoreItem(a)
    <2>1. r \in Editing /\ r.step = "upsert" BY <1>0, <1>1 DEF StoreItem, At
    <2>2. r.item \in Items /\ r.total \in Quantity /\ r.enabled \in BOOLEAN
      BY <2>1 DEF Editing
    <2>3. There(r.item) => row[r.item].available \in Nat
      BY <2>2, RowKind DEF There, Row
    <2> DEFINE s == [there |-> "yes", total |-> r.total, enabled |-> r.enabled,
                     available |-> IF There(r.item) THEN row[r.item].available
                                   ELSE r.total]
    <2>4. s \in AnyRow BY <2>2, <2>3 DEF Row, AnyRow, Quantity
    <2>5. row' = row \/ row' = [row EXCEPT ![r.item] = s] BY <1>1 DEF StoreItem
    <2> HIDE DEF s
    <2>6. row' \in [Items -> AnyRow] BY <2>4, <2>5
    <2> QED BY <1>1, <2>6 DEF StoreItem
  <1>2. CASE DropItem(a)
    <2>1. row' \in [Items -> AnyRow] BY <1>2 DEF DropItem, AnyRow
    <2> QED BY <1>2, <2>1 DEF DropItem
  <1>3. CASE ResetAvailableStockByReserved(a) \/ DatabaseError(a)
    <2>1. \A i \in Items : ResetRow(row[i]) \in AnyRow
      <3> SUFFICES ASSUME NEW i \in Items, row[i].there = "yes"
                   PROVE  [row[i] EXCEPT !.available = row[i].total] \in Row
        BY DEF ResetRow, AnyRow
      <3> QED BY RowKind DEF Row, Quantity
    <2>2. row' \in [Items -> AnyRow]
      BY <1>3, <2>1 DEF ResetAvailableStockByReserved, DatabaseError
    <2> QED BY <1>3, <2>2 DEF ResetAvailableStockByReserved, DatabaseError, SetPublished
  <1>4. CASE PublishActivity(a)
    BY <1>4 DEF PublishActivity
  <1>5. CASE \E i \in Items : SetCacheStock(a, i)
    <2> PICK i \in Items : SetCacheStock(a, i) BY <1>5
    <2>1. r \in Serving BY <1>0 DEF SetCacheStock, At, Steps
    <2>2. cacheStock' \in [Items -> Nat \cup {NoKey}]
      BY <2>1 DEF SetCacheStock, Serving
    <2> QED BY <2>2 DEF SetCacheStock
  <1>6. CASE \E i \in Items : RollBackItem(a, i) \/ ReleaseItem(a, i)
    BY <1>6 DEF RollBackItem, ReleaseItem, DeleteCacheStock
  <1>7. CASE MarkPublished(a) \/ MarkOffline(a)
    BY <1>7 DEF MarkPublished, SetPublished, MarkOffline
  <1>8. CASE \/ UpsertActivityItem(a) \/ RemoveActivityItem(a)
             \/ RefreshItems(a) \/ RollBackEnds(a)
             \/ OfflineActivity(a) \/ Crash(a)
             \/ \E i \in Items : ReserveItem(a, i)
    BY <1>8 DEF UpsertActivityItem, RemoveActivityItem, RefreshItems,
       RollBackEnds, OfflineActivity, Crash, ReserveItem
  <1> QED BY <1>1, <1>2, <1>3, <1>4, <1>5, <1>6, <1>7, <1>8 DEF Administer

LEMMA NextStock == StockInv /\ [Next]_vars => StockInv'
  <1> SUFFICES ASSUME StockInv, [Next]_vars PROVE StockInv' OBVIOUS
  <1>1. OtherTypes BY DEF StockInv, TypeOK, OtherTypes, AnyRow
  <1>2. LedgerOK' BY NextLedger
  <1>3. RequestsOK' /\ OtherTypes'
    <2>1. CASE UNCHANGED vars
      BY <1>1, <2>1 DEF vars, setting, activityVars, buyerVars, StockInv,
         RequestsOK, Sound, OtherTypes
    <2>2. CASE DeleteActivity
      BY <1>1, <2>2 DEF DeleteActivity, setting, buyerVars, StockInv,
         RequestsOK, Sound, OtherTypes
    <2>3. ASSUME NEW a \in Admins, Administer(a) PROVE RequestsOK' /\ OtherTypes'
      BY <1>1, <2>3, AdministerRequests, AdministerTypes DEF StockInv
    <2>4. ASSUME NEW i \in Items,
                 \/ LoadItem(i) \/ WarmCacheStock(i)
                 \/ SellAsync(i) \/ SellSync(i) \/ CloseOrder(i)
          PROVE  RequestsOK' /\ OtherTypes'
      <3>1. UNCHANGED request
        BY <2>4 DEF LoadItem, WarmCacheStock, SellAsync, SellSync, CloseOrder
      <3>2. RequestsOK' BY <3>1 DEF StockInv, RequestsOK, Sound
      <3> QED BY <1>1, <2>4, <3>2, BuyersTypes
    <2> QED BY <2>1, <2>2, <2>3, <2>4 DEF Next
  <1> QED BY <1>2, <1>3 DEF StockInv, LedgerOK, OtherTypes, RequestsOK, TypeOK,
          AnyRow, AnyRequest

LEMMA InitStock == Init => StockInv
  <1> SUFFICES ASSUME Init PROVE StockInv OBVIOUS
  <1>1. TypeOK
    <2>1. /\ request \in [Admins -> Serving \cup Editing \cup {Idle}]
          /\ row \in [Items -> Row \cup {NoRow, Removed}]
      BY DEF Init
    <2>2. initial \in [Items -> Nat] /\ stock \in [Items -> Nat]
      BY ActivityAssumption DEF Init
    <2>3. returned \in [Items -> [{"rollback", "offline"} -> Nat]] BY DEF Init
    <2> QED BY <2>1, <2>2, <2>3 DEF Init, TypeOK
  <1>2. RequestsOK BY DEF Init, RequestsOK, AnyRequest, Sound, Idle, Steps
  <1>3. ProductBalance BY <1>1 DEF Init, TypeOK, ProductBalance
  <1> QED BY <1>1, <1>2, <1>3 DEF StockInv

-----------------------------------------------------------------------------
(* Every row, key, count and request keeps its type; in particular no       *)
(* stock, neither the product's nor the row's nor Redis's, is ever negative. *)
THEOREM TypeCorrect == Spec => []TypeOK
  <1>1. StockInv => TypeOK BY DEF StockInv
  <1> QED BY InitStock, NextStock, <1>1, PTL DEF Spec

(* Whatever publications, rollbacks and closings interleave, repeat, fail or *)
(* crash, the product's stock agrees with the records of what was reserved  *)
(* and given back: each key moves pieces once.                              *)
THEOREM StockIsAccounted == Spec => []ProductBalance
  <1>1. StockInv => ProductBalance BY DEF StockInv
  <1> QED BY InitStock, NextStock, <1>1, PTL DEF Spec

-----------------------------------------------------------------------------
(* What a publication has reserved and given back, call by call.           *)
Publishers == {a \in Admins : request[a].step \in Publishing}

Reserved(r, i) ==
  /\ returned[i]["rollback"] = 0
  /\ taken[i] = IF i \in r.done THEN r.list[i].total ELSE 0

RolledBack(r, i) ==
  IF i \in r.todo
  THEN taken[i] = r.list[i].total /\ returned[i]["rollback"] = 0
  ELSE returned[i]["rollback"] = taken[i]

Entries(r) ==
  \A i \in Items : IF r.step = "rollback" THEN RolledBack(r, i) ELSE Reserved(r, i)

Offlined == \E i \in Items : returned[i]["offline"] > 0

PublishOK ==
  /\ published \in {0, 1}
  /\ published = 0 => /\ Publishers = {}
                      /\ \A i \in Items : taken[i] = 0 /\ returned[i]["rollback"] = 0
  /\ \A a, b \in Publishers : a = b
  /\ \A a \in Publishers :
       /\ Entries(request[a])
       /\ request[a].step = "reserve" => request[a].todo \cap request[a].done = {}
  /\ ~ onceOnSale /\ Publishers = {} =>
       \A i \in Items : returned[i]["rollback"] = taken[i]
  /\ status = "published" \/ InStep({"release"}) \/ Offlined => onceOnSale

HistoryKept ==
  /\ onceOnSale => onceOnSale'
  /\ status' = "published" => onceOnSale'

LEMMA OneRequest ==
  ASSUME RequestsOK, NEW a \in Admins, NEW s, request' = [request EXCEPT ![a] = s]
  PROVE  /\ request'[a] = s
         /\ \A b \in Admins \ {a} : request'[b] = request[b]
  BY DEF RequestsOK

LEMMA PublishingSteps ==
  /\ Publishing \subseteq Steps
  /\ "idle" \notin Publishing /\ "upsert" \notin Publishing
  /\ "remove" \notin Publishing /\ "release" \notin Publishing
  /\ "offline" \notin Publishing
  BY DEF Publishing, Steps

(* Requests that publish nothing, buyers, and the release of sold-out      *)
(* stock leave the books of the publication alone.                         *)
LEMMA PublishOutside ==
  ASSUME PublishOK, UNCHANGED <<published, taken>>,
         \A i \in Items : returned'[i]["rollback"] = returned[i]["rollback"],
         \A b \in Admins :
           \/ request'[b] = request[b]
           \/ /\ request[b].step \notin Publishing
              /\ request'[b].step \notin Publishing
              /\ request'[b].step = "release" => onceOnSale,
         Offlined' => Offlined \/ onceOnSale,
         HistoryKept
  PROVE  PublishOK'
  <1>1. Publishers' = Publishers /\ \A a \in Publishers : request'[a] = request[a]
    BY DEF Publishers
  <1>2. \A a \in Publishers : Entries(request[a])'
    BY <1>1 DEF PublishOK, Entries, RolledBack, Reserved
  <1>3. InStep({"release"})' => InStep({"release"}) \/ onceOnSale
    BY DEF InStep
  <1> QED
    BY <1>1, <1>2, <1>3 DEF PublishOK, HistoryKept

(* The one publication under way moves on.                                 *)
LEMMA PublishInside ==
  ASSUME RequestsOK, PublishOK, NEW a \in Publishers, NEW s,
         request' = [request EXCEPT ![a] = s],
         s.step \in Publishing => Entries(s)',
         s.step = "reserve" => s.todo \cap s.done = {},
         s.step \notin Publishing =>
           /\ s.step # "release"
           /\ ~ onceOnSale' =>
                \A i \in Items : returned'[i]["rollback"] = taken'[i],
         \A i \in Items : returned'[i]["offline"] = returned[i]["offline"],
         HistoryKept,
         UNCHANGED published
  PROVE  PublishOK'
  <1>1. a \in Admins /\ request[a].step \in Publishing
    BY DEF Publishers
  <1>2. request'[a] = s /\ \A b \in Admins \ {a} : request'[b] = request[b]
    BY <1>1, OneRequest
  <1>3. published = 1 /\ Publishers = {a}
    BY DEF PublishOK, HistoryKept
  <1>4. \A b \in Publishers' : b = a
    BY <1>2, <1>3 DEF Publishers
  <1>5. a \in Publishers' <=> s.step \in Publishing
    BY <1>1, <1>2 DEF Publishers
  <1>6. \A b \in Publishers' : Entries(request[b])'
    BY <1>2, <1>4, <1>5 DEF Entries, RolledBack, Reserved
  <1>7. InStep({"release"})' => InStep({"release"})
    BY <1>1, <1>2, PublishingSteps DEF InStep
  <1>8. Offlined' => Offlined
    BY DEF Offlined
  <1>9. Publishers' = {} => s.step \notin Publishing
    BY <1>5
  <1>10. \A b \in Publishers' :
           request'[b].step = "reserve" => request'[b].todo \cap request'[b].done = {}
    BY <1>2, <1>4
  <1>11. (~ onceOnSale /\ Publishers = {})' =>
           \A i \in Items : returned'[i]["rollback"] = taken'[i]
    BY <1>9
  <1>12. (status = "published" \/ InStep({"release"}) \/ Offlined)' => onceOnSale'
    BY <1>7, <1>8 DEF PublishOK, HistoryKept
  <1>13. \A b, c \in Publishers' : b = c
    BY <1>4
  <1> QED
    BY <1>3, <1>6, <1>10, <1>11, <1>12, <1>13 DEF PublishOK, HistoryKept

LEMMA PublisherAt ==
  ASSUME StockInv, NEW a \in Admins, request[a].step \in Publishing
  PROVE  /\ a \in Publishers
         /\ request[a] \in Serving
         /\ request[a].done \subseteq Offered(request[a].list)
         /\ request[a].step \in {"reserve", "rollback"} =>
              request[a].todo \subseteq Offered(request[a].list)
         /\ \A i \in Offered(request[a].list) : request[a].list[i].total \in Quantity
  <1>1. /\ request[a] \in Serving /\ Sound(request[a]) /\ request[a].step \in Steps
    BY RequestKind, PublishingSteps DEF StockInv
  <1>2. request[a].list \in [Items -> AnyRow]
    BY <1>1 DEF Serving, AnyRow
  <1>3. \A i \in Offered(request[a].list) : request[a].list[i] \in Row
    BY <1>2, RowKind DEF Offered
  <1> QED
    BY <1>1, <1>3 DEF Publishers, Sound, Row

(* A publication goes on without a call to product-rpc.                    *)
LEMMA PublishGoesOn ==
  ASSUME StockInv, PublishOK, NEW a \in Admins,
         request[a].step \in Publishing \ {"rollback"},
         NEW s, request' = [request EXCEPT ![a] = s],
         s.step \in {"reset", "refresh", "cache", "publish"},
         s.list = request[a].list, s.done = request[a].done,
         UNCHANGED <<taken, returned, published>>,
         HistoryKept
  PROVE  PublishOK'
  <1>1. a \in Publishers /\ RequestsOK
    BY PublisherAt DEF StockInv
  <1>2. Entries(request[a])
    BY <1>1 DEF PublishOK
  <1>3. \A i \in Items : Reserved(request[a], i)
    BY <1>2 DEF Entries
  <1>4. Entries(s)'
    BY <1>3 DEF Entries, Reserved
  <1>5. s.step \in Publishing
    BY DEF Publishing
  <1> QED
    BY <1>1, <1>4, <1>5, PublishInside

(* It fails, and starts to give back what it has reserved.                 *)
LEMMA PublishFails ==
  ASSUME StockInv, PublishOK, NEW a \in Admins,
         request[a].step \in Publishing \ {"rollback"},
         RollBackFrom(a), UNCHANGED <<taken, returned, published>>,
         HistoryKept
  PROVE  PublishOK'
  <1> PICK s : s = [request[a] EXCEPT !.step = "rollback", !.todo = request[a].done]
    OBVIOUS
  <1>1. a \in Publishers /\ RequestsOK /\ request[a] \in Serving
    BY PublisherAt DEF StockInv
  <1>2. request' = [request EXCEPT ![a] = s]
    BY DEF RollBackFrom, Goto
  <1>3. /\ s.step = "rollback" /\ s.todo = request[a].done
        /\ s.list = request[a].list
    BY <1>1 DEF Serving
  <1>4. \A i \in Items : Reserved(request[a], i)
    BY <1>1 DEF PublishOK, Entries
  <1>5. Entries(s)'
    <2> SUFFICES ASSUME NEW i \in Items PROVE RolledBack(s, i)'
      BY <1>3 DEF Entries
    <2> QED
      BY <1>3, <1>4 DEF Reserved, RolledBack
  <1>6. s.step \in Publishing
    BY <1>3 DEF Publishing
  <1> QED
    BY <1>1, <1>2, <1>3, <1>5, <1>6, PublishInside

LEMMA PublishReservesItem ==
  ASSUME StockInv, PublishOK, NEW a \in Admins, NEW i \in Items,
         "rpc_error" \notin hazards, ReserveItem(a, i)
  PROVE  PublishOK'
  <1> DEFINE r == request[a]
  <1>1. /\ r.step = "reserve" /\ i \in r.todo /\ r.step \in Publishing
        /\ UNCHANGED published /\ HistoryKept
    BY DEF ReserveItem, At, Publishing, activityVars, PublishOK, HistoryKept
  <1>2. /\ a \in Publishers /\ RequestsOK /\ r \in Serving
        /\ r.list[i].total \in Quantity
    BY <1>1, PublisherAt DEF StockInv
  <1>3. /\ \A j \in Items : Reserved(r, j)
        /\ r.todo \cap r.done = {}
    BY <1>1, <1>2 DEF PublishOK, Entries
  <1>4. CASE ReserveRefused(i, r.list[i].total) /\ RollBackFrom(a)
    BY <1>1, <1>4, PublishFails DEF ReserveRefused, productVars
  <1>5. CASE ReserveStock(i, r.list[i].total) /\ ReserveNext(a, i)
    <2> PICK s :
          s = [r EXCEPT !.todo = r.todo \ {i}, !.done = r.done \cup {i},
                        !.step = IF r.todo = {i} THEN "reset" ELSE "reserve"]
      OBVIOUS
    <2>1. request' = [request EXCEPT ![a] = s]
      BY <1>5 DEF ReserveNext
    <2>2. /\ s.step \in {"reset", "reserve"} /\ s.list = r.list
          /\ s.todo = r.todo \ {i} /\ s.done = r.done \cup {i}
      BY <1>2 DEF Serving
    <2>3. taken[i] = 0
      BY <1>1, <1>3 DEF Reserved
    <2>4. /\ taken' = [taken EXCEPT ![i] = r.list[i].total]
          /\ UNCHANGED returned
      BY <1>5, <2>3 DEF ReserveStock
    <2>5. Entries(s)'
      <3> SUFFICES ASSUME NEW j \in Items PROVE Reserved(s, j)'
        BY <2>2 DEF Entries
      <3>1. taken'[i] = r.list[i].total /\ (j # i => taken'[j] = taken[j])
        BY <2>4 DEF StockInv, TypeOK
      <3> QED
        BY <1>3, <2>2, <2>4, <3>1 DEF Reserved
    <2>6. s.todo \cap s.done = {}
      BY <1>3, <2>2
    <2>7. s.step \in Publishing
      BY <2>2 DEF Publishing
    <2> QED
      BY <1>1, <1>2, <2>1, <2>4, <2>5, <2>6, <2>7, PublishInside
  <1> QED
    BY <1>4, <1>5 DEF ReserveItem

LEMMA PublishGivesBack ==
  ASSUME StockInv, PublishOK, NEW a \in Admins, NEW i \in Items,
         "rpc_error" \notin hazards, RollBackItem(a, i)
  PROVE  PublishOK'
  <1> DEFINE r == request[a]
  <1> PICK s : s = [r EXCEPT !.step = "rollback", !.todo = r.todo \ {i}]
    OBVIOUS
  <1>1. /\ r.step = "rollback" /\ i \in r.todo /\ r.step \in Publishing
        /\ ReleaseStock(i, "rollback", r.list[i].total)
        /\ UNCHANGED published /\ HistoryKept
    BY DEF RollBackItem, At, Publishing, activityVars, PublishOK, HistoryKept
  <1>2. /\ a \in Publishers /\ RequestsOK /\ r \in Serving
        /\ r.list[i].total \in Quantity
    BY <1>1, PublisherAt DEF StockInv
  <1>3. \A j \in Items : RolledBack(r, j)
    BY <1>1, <1>2 DEF PublishOK, Entries
  <1>4. request' = [request EXCEPT ![a] = s]
    BY DEF RollBackItem, Goto
  <1>5. s.step = "rollback" /\ s.list = r.list /\ s.todo = r.todo \ {i}
    BY <1>2 DEF Serving
  <1>6. taken[i] = r.list[i].total /\ returned[i]["rollback"] = 0
    BY <1>1, <1>3 DEF RolledBack
  <1>7. /\ returned' = [returned EXCEPT ![i]["rollback"] = r.list[i].total]
        /\ UNCHANGED taken
    BY <1>1, <1>6 DEF ReleaseStock
  <1>8. /\ returned'[i]["rollback"] = r.list[i].total
        /\ \A j \in Items \ {i} : returned'[j] = returned[j]
        /\ returned'[i]["offline"] = returned[i]["offline"]
    BY <1>7 DEF StockInv, TypeOK
  <1>9. Entries(s)'
    <2> SUFFICES ASSUME NEW j \in Items PROVE RolledBack(s, j)'
      BY <1>5 DEF Entries
    <2>1. CASE j = i
      BY <1>5, <1>6, <1>7, <1>8, <2>1 DEF RolledBack
    <2>2. CASE j # i
      BY <1>3, <1>5, <1>7, <1>8, <2>2 DEF RolledBack
    <2> QED
      BY <2>1, <2>2
  <1>10. s.step \in Publishing
    BY <1>5 DEF Publishing
  <1>11. \A j \in Items : returned'[j]["offline"] = returned[j]["offline"]
    BY <1>8
  <1> QED
    BY <1>1, <1>2, <1>4, <1>5, <1>9, <1>10, <1>11, PublishInside

LEMMA PublishStarts ==
  ASSUME StockInv, PublishOK, NEW a \in Admins, "republish" \notin hazards,
         PublishActivity(a)
  PROVE  PublishOK'
  <1> PICK s : s = [step |-> "reserve", list |-> row, todo |-> Enabled(row),
                    done |-> {}, failed |-> FALSE, fresh |-> [i \in Items |-> 0]]
    OBVIOUS
  <1>1. /\ published = 0 /\ published' = 1
        /\ request' = [request EXCEPT ![a] = s]
        /\ UNCHANGED <<status, onceOnSale, taken, returned>>
    BY DEF PublishActivity, PublishOK, activityVars, productVars
  <1>2. /\ Publishers = {}
        /\ \A i \in Items : taken[i] = 0 /\ returned[i]["rollback"] = 0
    BY <1>1 DEF PublishOK
  <1>3. request'[a] = s /\ \A b \in Admins \ {a} : request'[b] = request[b]
    BY <1>1, OneRequest DEF StockInv
  <1>4. s.step = "reserve" /\ s.done = {}
    OBVIOUS
  <1>5. Publishers' = {a}
    BY <1>2, <1>3, <1>4 DEF Publishers, Publishing
  <1>6. Entries(s)'
    BY <1>1, <1>2, <1>4 DEF Entries, Reserved
  <1>7. Entries(request[a])'
    BY <1>3, <1>6 DEF Entries, Reserved, RolledBack
  <1>8. InStep({"release"})' => InStep({"release"})
    BY <1>3, <1>4 DEF InStep
  <1>9. Offlined' => Offlined
    BY <1>1 DEF Offlined
  <1> QED
    BY <1>1, <1>3, <1>4, <1>5, <1>7, <1>8, <1>9 DEF PublishOK

LEMMA PublishMoves ==
  ASSUME StockInv, PublishOK, NEW a \in Admins,
         \/ ResetAvailableStockByReserved(a)
         \/ RefreshItems(a)
         \/ \E i \in Items : SetCacheStock(a, i)
  PROVE  PublishOK'
  <1> DEFINE r == request[a]
  <1>1. /\ r.step \in {"reset", "refresh", "cache"}
        /\ UNCHANGED <<taken, returned, published>> /\ HistoryKept
    BY DEF ResetAvailableStockByReserved, RefreshItems, SetCacheStock, At,
           activityVars, productVars, PublishOK, HistoryKept
  <1>2. r.step \in Publishing \ {"rollback"}
    BY <1>1 DEF Publishing
  <1>3. r \in Serving
    BY <1>2, PublisherAt
  <1>4. ASSUME NEW step \in {"refresh", "cache", "publish"}, NEW items,
               Goto(a, step, items)
        PROVE  PublishOK'
    <2> PICK s : s = [r EXCEPT !.step = step, !.todo = items]
      OBVIOUS
    <2>1. s.step = step /\ s.list = r.list /\ s.done = r.done
      BY <1>3 DEF Serving
    <2>2. request' = [request EXCEPT ![a] = s]
      BY <1>4 DEF Goto
    <2> QED
      BY <1>1, <1>2, <2>1, <2>2, PublishGoesOn
  <1>5. CASE ResetAvailableStockByReserved(a)
    BY <1>4, <1>5 DEF ResetAvailableStockByReserved
  <1>6. CASE \E i \in Items : SetCacheStock(a, i)
    <2> PICK i \in Items : SetCacheStock(a, i)
      BY <1>6
    <2> PICK step \in {"cache", "publish"} :
          step = IF r.todo = {i} THEN "publish" ELSE "cache"
      OBVIOUS
    <2>1. Goto(a, step, r.todo \ {i})
      BY DEF SetCacheStock
    <2> QED
      BY <1>4, <2>1
  <1>7. CASE RefreshItems(a)
    <2> PICK step \in {"cache", "publish"} :
          step = IF Enabled(row) = {} THEN "publish" ELSE "cache"
      OBVIOUS
    <2> PICK fresh : fresh = [i \in Items |-> IF There(i) THEN row[i].available ELSE 0]
      OBVIOUS
    <2> PICK s :
          s = [r EXCEPT !.step = step, !.todo = Enabled(row), !.fresh = fresh]
      OBVIOUS
    <2>1. s.step = step /\ s.list = r.list /\ s.done = r.done
      BY <1>3 DEF Serving
    <2>2. request' = [request EXCEPT ![a] = s]
      BY <1>7 DEF RefreshItems
    <2> QED
      BY <1>1, <1>2, <2>1, <2>2, PublishGoesOn
  <1> QED
    BY <1>5, <1>6, <1>7

LEMMA PublishEnds ==
  ASSUME StockInv, PublishOK, NEW a \in Admins,
         MarkPublished(a) \/ DatabaseError(a) \/ RollBackEnds(a)
  PROVE  PublishOK'
  <1>1. request[a].step \in {"reset", "refresh", "publish", "rollback"}
    BY DEF MarkPublished, DatabaseError, RollBackEnds, At
  <1>2. request[a].step \in Publishing /\ UNCHANGED <<taken, returned, published>>
    BY <1>1 DEF Publishing, MarkPublished, DatabaseError, RollBackEnds, productVars
  <1>3. a \in Publishers /\ RequestsOK
    BY <1>2, PublisherAt DEF StockInv
  <1>0. HistoryKept
    BY DEF MarkPublished, DatabaseError, RollBackEnds, SetPublished, activityVars,
       PublishOK, HistoryKept
  <1>4. CASE RollBackFrom(a) /\ request[a].step # "rollback"
    BY <1>0, <1>2, <1>4, PublishFails
  <1>5. CASE /\ Return(a)
             /\ ~ onceOnSale' =>
                  \A i \in Items : returned[i]["rollback"] = taken[i]
    <2>1. Idle.step \notin Publishing /\ Idle.step # "release" /\ Idle.step # "reserve"
      BY PublishingSteps DEF Idle
    <2>2. request' = [request EXCEPT ![a] = Idle]
      BY <1>5 DEF Return
    <2> QED
      BY <1>0, <1>2, <1>3, <1>5, <2>1, <2>2, PublishInside
  <1>6. CASE MarkPublished(a)
    BY <1>4, <1>5, <1>6 DEF MarkPublished, SetPublished, At
  <1>7. CASE DatabaseError(a)
    BY <1>4, <1>7 DEF DatabaseError
  <1>8. CASE RollBackEnds(a)
    <2>1. request[a].step = "rollback" /\ request[a].todo = {} /\ Return(a)
      BY <1>8 DEF RollBackEnds, At
    <2>2. \A i \in Items : RolledBack(request[a], i)
      BY <1>3, <2>1 DEF PublishOK, Entries
    <2>3. \A i \in Items : returned[i]["rollback"] = taken[i]
      BY <2>1, <2>2 DEF RolledBack
    <2> QED
      BY <1>5, <2>1, <2>3
  <1> QED
    BY <1>6, <1>7, <1>8

(* Everybody else: what they put in the place of their request.            *)
LEMMA OthersMove ==
  ASSUME StockInv, NEW a \in Admins,
         \/ UpsertActivityItem(a) \/ StoreItem(a)
         \/ RemoveActivityItem(a) \/ DropItem(a)
         \/ OfflineActivity(a) \/ MarkOffline(a)
  PROVE  /\ request[a].step \in {"idle", "upsert", "remove", "offline"}
         /\ \A b \in Admins \ {a} : request'[b] = request[b]
         /\ request'[a].step \in {"idle", "upsert", "remove", "release", "offline"}
         /\ request'[a].step = "idle" <=>
              StoreItem(a) \/ DropItem(a) \/ MarkOffline(a)
         /\ request'[a].step \in {"upsert", "remove"} =>
              /\ Editable /\ EditsAllowed
              /\ UNCHANGED <<status, deleted, row>>
         /\ request'[a].step = "upsert" /\ "disabled_item" \notin hazards =>
              request'[a].enabled
         /\ request'[a].step \in {"release", "offline"} =>
              /\ OfflineActivity(a)
              /\ ~ request'[a].failed
              /\ request'[a].step = "release" =>
                   /\ status = "published" /\ request'[a].list = row
                   /\ request'[a].todo = Listed
         /\ UNCHANGED <<taken, returned, published, sold>>
  <1>1. UNCHANGED <<taken, returned, published, sold>>
    BY DEF UpsertActivityItem, StoreItem, RemoveActivityItem, DropItem,
        OfflineActivity, MarkOffline, productVars, buyerVars
  <1>2. request[a].step \in {"idle", "upsert", "remove", "offline"}
    BY DEF UpsertActivityItem, StoreItem, RemoveActivityItem, DropItem,
        OfflineActivity, MarkOffline, At
  <1>3. CASE StoreItem(a) \/ DropItem(a) \/ MarkOffline(a)
    <2>1. request' = [request EXCEPT ![a] = Idle]
      BY <1>3 DEF StoreItem, DropItem, MarkOffline, Return
    <2>2. request'[a] = Idle /\ \A b \in Admins \ {a} : request'[b] = request[b]
      BY <2>1, OneRequest DEF StockInv
    <2>3. request'[a].step = "idle"
      BY <2>2 DEF Idle
    <2> QED
      BY <1>1, <1>2, <1>3, <2>2, <2>3
  <1>4. CASE UpsertActivityItem(a)
    <2>1. PICK i \in Items, q \in Quantity,
               e \in {TRUE} \cup IF "disabled_item" \in hazards THEN {FALSE} ELSE {} :
            request' = [request EXCEPT ![a] =
              [step |-> "upsert", item |-> i, total |-> q, enabled |-> e]]
      BY <1>4 DEF UpsertActivityItem
    <2>2. PICK s : s = [step |-> "upsert", item |-> i, total |-> q, enabled |-> e]
      OBVIOUS
    <2>3. request'[a] = s /\ \A b \in Admins \ {a} : request'[b] = request[b]
      BY <2>1, <2>2, OneRequest DEF StockInv
    <2>4. s.step = "upsert" /\ s.enabled = e
      BY <2>2
    <2>5. Editable /\ EditsAllowed /\ UNCHANGED <<status, deleted, row>>
      BY <1>4 DEF UpsertActivityItem, activityVars
    <2>6. ~ StoreItem(a) /\ ~ DropItem(a) /\ ~ MarkOffline(a)
      BY <1>4 DEF UpsertActivityItem, StoreItem, DropItem, MarkOffline, At
    <2> QED
      BY <1>1, <1>2, <2>3, <2>4, <2>5, <2>6
  <1>5. CASE RemoveActivityItem(a)
    <2>1. PICK i \in Listed :
            request' = [request EXCEPT ![a] = [step |-> "remove", item |-> i]]
      BY <1>5 DEF RemoveActivityItem
    <2>2. PICK s : s = [step |-> "remove", item |-> i]
      OBVIOUS
    <2>3. request'[a] = s /\ \A b \in Admins \ {a} : request'[b] = request[b]
      BY <2>1, <2>2, OneRequest DEF StockInv
    <2>4. s.step = "remove"
      BY <2>2
    <2>5. Editable /\ EditsAllowed /\ UNCHANGED <<status, deleted, row>>
      BY <1>5 DEF RemoveActivityItem, activityVars
    <2>6. ~ StoreItem(a) /\ ~ DropItem(a) /\ ~ MarkOffline(a)
      BY <1>5 DEF RemoveActivityItem, StoreItem, DropItem, MarkOffline, At
    <2> QED
      BY <1>1, <1>2, <2>3, <2>4, <2>5, <2>6
  <1>6. CASE OfflineActivity(a)
    <2>1. PICK items : items = IF status = "published" THEN Listed ELSE {}
      OBVIOUS
    <2>2. PICK s :
            s = [step |-> IF items = {} THEN "offline" ELSE "release", list |-> row,
                 todo |-> items, done |-> {}, failed |-> FALSE,
                 fresh |-> [i \in Items |-> 0]]
      OBVIOUS
    <2>3. request' = [request EXCEPT ![a] = s]
      BY <1>6, <2>1, <2>2 DEF OfflineActivity
    <2>4. request'[a] = s /\ \A b \in Admins \ {a} : request'[b] = request[b]
      BY <2>3, OneRequest DEF StockInv
    <2>5. /\ s.step \in {"release", "offline"} /\ ~ s.failed /\ s.list = row
          /\ s.todo = items
          /\ s.step = "release" => items # {}
      BY <2>2
    <2>6. ~ StoreItem(a) /\ ~ DropItem(a) /\ ~ MarkOffline(a)
      BY <1>6 DEF OfflineActivity, StoreItem, DropItem, MarkOffline, At
    <2> QED
      BY <1>1, <1>2, <1>6, <2>1, <2>4, <2>5, <2>6
  <1> QED
    BY <1>3, <1>4, <1>5, <1>6

LEMMA PublishOthers ==
  ASSUME StockInv, PublishOK, NEW a \in Admins,
         \/ UpsertActivityItem(a) \/ StoreItem(a)
         \/ RemoveActivityItem(a) \/ DropItem(a)
         \/ OfflineActivity(a) \/ MarkOffline(a)
  PROVE  PublishOK'
  <1>1. /\ request[a].step \in {"idle", "upsert", "remove", "offline"}
        /\ request'[a].step \in {"idle", "upsert", "remove", "release", "offline"}
        /\ request'[a].step = "release" => status = "published"
        /\ \A b \in Admins \ {a} : request'[b] = request[b]
        /\ UNCHANGED <<taken, returned, published>>
    BY OthersMove
  <1>2. HistoryKept
    BY DEF UpsertActivityItem, StoreItem, RemoveActivityItem, DropItem,
        OfflineActivity, MarkOffline, activityVars, PublishOK, HistoryKept
  <1>3. Offlined' => Offlined
    BY <1>1 DEF Offlined
  <1>4. request[a].step \notin Publishing /\ request'[a].step \notin Publishing
    BY <1>1, PublishingSteps
  <1>5. request'[a].step = "release" => onceOnSale
    BY <1>1 DEF PublishOK
  <1> QED
    BY <1>1, <1>2, <1>3, <1>4, <1>5, PublishOutside

LEMMA ReleaseLeaves ==
  ASSUME StockInv, NEW a \in Admins, NEW i \in Items,
         "rpc_error" \notin hazards, ReleaseItem(a, i)
  PROVE  /\ request[a].step = "release" /\ i \in request[a].todo
         /\ request[a] \in Serving
         /\ request'[a].step \in {"release", "offline"}
         /\ request'[a].todo = request[a].todo \ {i}
         /\ request'[a].list = request[a].list
         /\ request'[a].failed = request[a].failed
         /\ \A b \in Admins \ {a} : request'[b] = request[b]
         /\ \A j \in Items : returned'[j]["rollback"] = returned[j]["rollback"]
         /\ \A j \in Items \ {i} : returned'[j] = returned[j]
         /\ \/ returned'[i]["offline"] = returned[i]["offline"]
            \/ /\ returned[i]["offline"] = 0
               /\ returned'[i]["offline"] = request[a].list[i].available
         /\ UNCHANGED <<taken, status, onceOnSale, deleted, row, published, sold>>
  <1> DEFINE r == request[a]
             q == r.list[i].available
  <1>1. /\ r.step = "release" /\ i \in r.todo
        /\ IF q > 0 THEN ReleaseStock(i, "offline", q) ELSE UNCHANGED productVars
        /\ ReleaseNext(a, i, FALSE)
        /\ UNCHANGED <<status, onceOnSale, deleted, row, published, sold>>
    BY DEF ReleaseItem, At, activityVars, buyerVars
  <1>2. r \in Serving
    BY <1>1, RequestKind DEF StockInv, Steps
  <1>3. PICK s : s = [r EXCEPT !.todo = r.todo \ {i}, !.failed = r.failed \/ FALSE,
                               !.step = IF r.todo = {i} THEN "offline" ELSE "release"]
    OBVIOUS
  <1>4. /\ s.step \in {"release", "offline"} /\ s.todo = r.todo \ {i}
        /\ s.list = r.list /\ s.failed = r.failed
    BY <1>2, <1>3 DEF Serving
  <1>5. request' = [request EXCEPT ![a] = s]
    BY <1>1, <1>3 DEF ReleaseNext
  <1>6. request'[a] = s /\ \A b \in Admins \ {a} : request'[b] = request[b]
    BY <1>5, OneRequest DEF StockInv
  <1>7. \/ UNCHANGED productVars
        \/ /\ ~ (returned[i]["offline"] > 0)
           /\ returned' = [returned EXCEPT ![i]["offline"] = q]
           /\ UNCHANGED taken
    BY <1>1 DEF ReleaseStock
  <1>8. /\ \A j \in Items : returned'[j]["rollback"] = returned[j]["rollback"]
        /\ \A j \in Items \ {i} : returned'[j] = returned[j]
        /\ \/ returned'[i]["offline"] = returned[i]["offline"]
           \/ /\ returned[i]["offline"] = 0
              /\ returned'[i]["offline"] = q
        /\ UNCHANGED taken
    BY <1>7 DEF productVars, StockInv, TypeOK
  <1> QED
    BY <1>1, <1>2, <1>4, <1>6, <1>8

LEMMA PublishReleases ==
  ASSUME StockInv, PublishOK, NEW a \in Admins, NEW i \in Items,
         "rpc_error" \notin hazards, ReleaseItem(a, i)
  PROVE  PublishOK'
  <1>1. /\ request[a].step = "release"
        /\ request'[a].step \in {"release", "offline"}
        /\ \A b \in Admins \ {a} : request'[b] = request[b]
        /\ \A j \in Items : returned'[j]["rollback"] = returned[j]["rollback"]
        /\ UNCHANGED <<taken, status, onceOnSale, published>>
    BY ReleaseLeaves
  <1>2. onceOnSale /\ HistoryKept
    BY <1>1 DEF PublishOK, InStep, HistoryKept
  <1>3. /\ request[a].step \notin Publishing
        /\ request'[a].step \notin Publishing
    BY <1>1, PublishingSteps
  <1> QED
    BY <1>1, <1>2, <1>3, PublishOutside

LEMMA PublishUntouched ==
  ASSUME PublishOK, UNCHANGED <<request, taken, returned, published>>,
         HistoryKept
  PROVE  PublishOK'
  <1>1. Offlined' => Offlined
    BY DEF Offlined
  <1> QED
    BY <1>1, PublishOutside

PublishHazards == {"async", "sale_overlap", "edit_overlap", "disabled_item",
                   "status_error"}

LEMMA PublishNext ==
  ASSUME StockInv, PublishOK, hazards \subseteq PublishHazards, [Next]_vars
  PROVE  PublishOK'
  <1>1. /\ "republish" \notin hazards /\ "rpc_error" \notin hazards
        /\ "crash" \notin hazards
    BY DEF PublishHazards
  <1>2. ASSUME NEW a \in Admins, Administer(a) PROVE PublishOK'
    BY <1>1, <1>2, PublishOthers, PublishStarts, PublishMoves, PublishEnds,
       PublishReservesItem, PublishGivesBack, PublishReleases
    DEF Administer, Crash
  <1>3. CASE DeleteActivity
    BY <1>3, PublishUntouched DEF DeleteActivity, productVars, PublishOK, HistoryKept
  <1>4. ASSUME NEW i \in Items,
               \/ LoadItem(i) \/ WarmCacheStock(i)
               \/ SellAsync(i) \/ SellSync(i) \/ CloseOrder(i)
        PROVE  PublishOK'
    BY <1>4, PublishUntouched
    DEF LoadItem, WarmCacheStock, SellAsync, SellSync, CloseOrder, productVars,
        activityVars, PublishOK, HistoryKept
  <1>5. CASE UNCHANGED vars
    BY <1>5, PublishUntouched DEF vars, productVars, activityVars, PublishOK, HistoryKept
  <1> QED
    BY <1>2, <1>3, <1>4, <1>5 DEF Next

-----------------------------------------------------------------------------
(* The activity on sale.                                                   *)

(* The rows are those the publication read: nobody edits meanwhile.        *)
Configured(r) ==
  \A i \in Items :
    /\ r.list[i].there = "yes" <=> There(i)
    /\ There(i) => /\ r.list[i].enabled = row[i].enabled
                   /\ r.list[i].total = row[i].total
                   /\ r.step \in {"refresh", "cache", "publish"} =>
                        row[i].available = row[i].total

Sees(r) ==
  /\ Configured(r)
  /\ r.step = "reserve" => r.todo \cup r.done = Enabled(r.list)
  /\ r.step \in {"reset", "refresh", "cache", "publish"} => r.done = Enabled(r.list)

(* The activity was published, once and for all.                           *)
WentOnSale == status = "published" \/ InStep({"release"}) \/ Offlined

SoldFits ==
  \A i \in Enabled(row) :
    /\ row[i].available + sold[i] <= taken[i]
    /\ returned[i]["rollback"] = 0

SaleOK ==
  /\ deleted => status = "offline"
  /\ WentOnSale => Publishers = {} /\ published = 1
  /\ published = 0 \/ Publishers # {} => \A i \in Items : sold[i] = 0
  /\ Publishers # {} \/ status = "published" => ~ InStep({"upsert", "remove"})
  /\ \A a \in Publishers : Sees(request[a])
  /\ status = "published" => SoldFits
  /\ Offlined => status = "offline" \/ InStep({"release", "offline"})
  /\ \A a \in Admins : request[a].step \in {"release", "offline"} => ~ request[a].failed

SaleHazards == {"sale_overlap", "disabled_item"}

LEMMA SaleInside ==
  ASSUME RequestsOK, PublishOK, SaleOK, NEW a \in Publishers, NEW s,
         request' = [request EXCEPT ![a] = s],
         s.step \in Publishing => status' = status /\ Sees(s)',
         s.step \notin Publishing =>
           /\ s.step = "idle"
           /\ \/ status' = status
              \/ /\ status' = "published" /\ ~ deleted
                 /\ \A i \in Enabled(row)' :
                      row'[i].available <= taken'[i] /\ returned'[i]["rollback"] = 0,
         \A i \in Items : returned'[i]["offline"] = returned[i]["offline"],
         row' \in [Items -> AnyRow], taken' \in [Items -> Nat],
         UNCHANGED <<published, sold, deleted>>
  PROVE  SaleOK'
  <1>1. a \in Admins /\ request[a].step \in Publishing
    BY DEF Publishers
  <1>2. request'[a] = s /\ \A b \in Admins \ {a} : request'[b] = request[b]
    BY <1>1, OneRequest
  <1>3. /\ Publishers = {a} /\ ~ WentOnSale
        /\ ~ InStep({"upsert", "remove"})
        /\ \A i \in Items : sold[i] = 0
    BY DEF PublishOK, SaleOK
  <1>4. \A b \in Publishers' : b = a
    BY <1>2, <1>3 DEF Publishers
  <1>5. a \in Publishers' <=> s.step \in Publishing
    BY <1>1, <1>2 DEF Publishers
  <1>6. /\ s.step \in Publishing \/ s.step = "idle"
        /\ s.step \notin {"upsert", "remove", "release", "offline"}
    BY PublishingSteps
  <1>7. ~ InStep({"release"})' /\ ~ InStep({"upsert", "remove"})'
    BY <1>2, <1>3, <1>6 DEF InStep, WentOnSale
  <1>8. ~ Offlined'
    BY <1>3 DEF WentOnSale, Offlined
  <1>9. published' = 1
    BY DEF PublishOK
  <1>10. status' = "published" => Publishers' = {}
    BY <1>3, <1>4, <1>5 DEF WentOnSale
  <1>11. \A b \in Publishers' : Sees(request[b])'
    <2> SUFFICES ASSUME s.step \in Publishing PROVE Sees(request[a])'
      BY <1>4, <1>5
    <2> QED
      BY <1>2 DEF Sees, Configured
  <1>12. status' = "published" => SoldFits'
    <2> SUFFICES ASSUME status' = "published", NEW i \in Enabled(row)'
                 PROVE  /\ row'[i].available + sold'[i] <= taken'[i]
                        /\ returned'[i]["rollback"] = 0
      BY DEF SoldFits
    <2>1. row'[i].available <= taken'[i] /\ returned'[i]["rollback"] = 0
      BY <1>3 DEF WentOnSale
    <2>2. i \in Items /\ row'[i] \in Row /\ sold'[i] = 0
      BY <1>3, RowKind DEF Enabled
    <2> QED
      BY <2>1, <2>2 DEF Row
  <1>13. (deleted => status = "offline")'
    BY DEF SaleOK
  <1>14. \A b \in Admins :
           request'[b].step \in {"release", "offline"} => ~ request'[b].failed
    BY <1>2, <1>6 DEF SaleOK
  <1> QED
    BY <1>3, <1>7, <1>8, <1>9, <1>10, <1>11, <1>12, <1>13, <1>14
    DEF SaleOK, WentOnSale

LEMMA RowsAre == StockInv => row \in [Items -> AnyRow] /\ taken \in [Items -> Nat]
  BY DEF StockInv, TypeOK, AnyRow

(* Between its calls the publication sees the rows it read.                *)
LEMMA SaleGoesOn ==
  ASSUME StockInv, StockInv', PublishOK, SaleOK, NEW a \in Admins,
         request[a].step \in Publishing,
         NEW s, request' = [request EXCEPT ![a] = s],
         s.step \in Publishing, s.list = request[a].list,
         s.step \in {"refresh", "cache", "publish"} =>
           request[a].step \in {"refresh", "cache", "publish"},
         s.step = "reserve" => s.todo \cup s.done = Enabled(s.list),
         s.step \in {"reset", "refresh", "cache", "publish"} => s.done = Enabled(s.list),
         \A i \in Items : returned'[i]["offline"] = returned[i]["offline"],
         UNCHANGED <<row, published, sold, deleted, status>>
  PROVE  SaleOK'
  <1>1. a \in Publishers /\ RequestsOK
    BY PublisherAt DEF StockInv
  <1>2. Sees(request[a])
    BY <1>1 DEF SaleOK
  <1>3. Sees(s)'
    BY <1>2 DEF Sees, Configured, There
  <1>4. row' \in [Items -> AnyRow] /\ taken' \in [Items -> Nat]
    BY RowsAre DEF StockInv, TypeOK, AnyRow
  <1> QED
    BY <1>1, <1>3, <1>4, SaleInside

LEMMA SaleFails ==
  ASSUME StockInv, StockInv', PublishOK, SaleOK, NEW a \in Admins,
         request[a].step \in Publishing, RollBackFrom(a),
         \A i \in Items : returned'[i]["offline"] = returned[i]["offline"],
         UNCHANGED <<row, published, sold, deleted, status>>
  PROVE  SaleOK'
  <1>1. request[a] \in Serving
    BY PublisherAt
  <1> PICK s : s = [request[a] EXCEPT !.step = "rollback", !.todo = request[a].done]
    OBVIOUS
  <1>2. s.step = "rollback" /\ s.list = request[a].list
    BY <1>1 DEF Serving
  <1>3. request' = [request EXCEPT ![a] = s]
    BY DEF RollBackFrom, Goto
  <1>4. s.step \in Publishing
    BY <1>2 DEF Publishing
  <1> QED
    BY <1>2, <1>3, <1>4, SaleGoesOn

LEMMA SaleReserves ==
  ASSUME StockInv, StockInv', PublishOK, SaleOK, NEW a \in Admins, NEW i \in Items,
         "rpc_error" \notin hazards, ReserveItem(a, i)
  PROVE  SaleOK'
  <1> DEFINE r == request[a]
  <1>1. /\ r.step = "reserve" /\ i \in r.todo /\ r.step \in Publishing
        /\ UNCHANGED <<status, published, deleted, row, sold, returned>>
    BY DEF ReserveItem, At, Publishing, activityVars, buyerVars, ReserveStock,
           ReserveRefused, productVars
  <1>2. a \in Publishers /\ r \in Serving
    BY <1>1, PublisherAt
  <1>3. r.todo \cup r.done = Enabled(r.list)
    BY <1>1, <1>2 DEF SaleOK, Sees
  <1>4. CASE RollBackFrom(a)
    BY <1>1, <1>4, SaleFails
  <1>5. CASE ReserveNext(a, i)
    <2> PICK s :
          s = [r EXCEPT !.todo = r.todo \ {i}, !.done = r.done \cup {i},
                        !.step = IF r.todo = {i} THEN "reset" ELSE "reserve"]
      OBVIOUS
    <2>1. request' = [request EXCEPT ![a] = s]
      BY <1>5 DEF ReserveNext
    <2>2. /\ s.step \in {"reset", "reserve"} /\ s.list = r.list
          /\ s.todo = r.todo \ {i} /\ s.done = r.done \cup {i}
          /\ s.step = "reset" => r.todo = {i}
      BY <1>2 DEF Serving
    <2>3. s.todo \cup s.done = Enabled(s.list)
      BY <1>1, <1>3, <2>2
    <2>4. s.step = "reset" => s.done = Enabled(s.list)
      BY <1>3, <2>2
    <2>5. s.step \in Publishing
      BY <2>2 DEF Publishing
    <2>6. s.step \notin {"refresh", "cache", "publish"}
      BY <2>2
    <2> QED
      BY <1>1, <2>1, <2>2, <2>3, <2>4, <2>5, <2>6, SaleGoesOn
  <1> QED
    BY <1>4, <1>5 DEF ReserveItem

(* The rows are reset, and the publication goes on or hears of an error.   *)
LEMMA SaleResetsRows ==
  ASSUME StockInv, StockInv', PublishOK, SaleOK, NEW a \in Admins,
         request[a].step = "reset", row' = [i \in Items |-> ResetRow(row[i])],
         NEW step \in {"refresh", "rollback"}, NEW items, Goto(a, step, items),
         UNCHANGED <<status, published, deleted, sold, returned>>
  PROVE  SaleOK'
  <1> DEFINE r == request[a]
  <1>1. r.step \in Publishing
    BY DEF Publishing
  <1>2. a \in Publishers /\ r \in Serving /\ RequestsOK
    BY <1>1, PublisherAt DEF StockInv
  <1>3. Sees(r)
    BY <1>2 DEF SaleOK
  <1> PICK s : s = [r EXCEPT !.step = step, !.todo = items]
    OBVIOUS
  <1>4. s.step = step /\ s.list = r.list /\ s.done = r.done
    BY <1>2 DEF Serving
  <1>5. request' = [request EXCEPT ![a] = s]
    BY DEF Goto
  <1>6. ASSUME NEW i \in Items
        PROVE  /\ row'[i].there = row[i].there
               /\ row[i].there = "yes" =>
                    /\ row'[i].enabled = row[i].enabled
                    /\ row'[i].total = row[i].total
                    /\ row'[i].available = row[i].total
    <2>1. row'[i] = ResetRow(row[i])
      BY <1>1
    <2>2. CASE row[i].there = "yes"
      <3>1. row[i] \in Row
        BY <2>2, RowsAre, RowKind
      <3>2. row'[i] = [row[i] EXCEPT !.available = row[i].total]
        BY <2>1, <2>2 DEF ResetRow
      <3> QED
        BY <3>1, <3>2 DEF Row
    <2>3. CASE row[i].there # "yes"
      BY <2>1, <2>3 DEF ResetRow
    <2> QED
      BY <2>2, <2>3
  <1>7. Sees(s)'
    <2>1. Configured(s)'
      BY <1>3, <1>4, <1>6 DEF Sees, Configured, There
    <2>2. s.done = Enabled(s.list)
      BY <1>1, <1>3, <1>4 DEF Sees
    <2> QED
      BY <1>4, <2>1, <2>2 DEF Sees
  <1>8. row' \in [Items -> AnyRow] /\ taken' \in [Items -> Nat]
    BY RowsAre DEF StockInv, TypeOK, AnyRow
  <1>9. s.step \in Publishing
    BY <1>4 DEF Publishing
  <1> QED
    BY <1>1, <1>2, <1>5, <1>7, <1>8, <1>9, SaleInside

LEMMA SaleResets ==
  ASSUME StockInv, StockInv', PublishOK, SaleOK, NEW a \in Admins,
         ResetAvailableStockByReserved(a)
  PROVE  SaleOK'
  BY SaleResetsRows DEF ResetAvailableStockByReserved, At, productVars, buyerVars

LEMMA SaleMoves ==
  ASSUME StockInv, StockInv', PublishOK, SaleOK, NEW a \in Admins,
         RefreshItems(a) \/ \E i \in Items : SetCacheStock(a, i)
  PROVE  SaleOK'
  <1> DEFINE r == request[a]
  <1>1. /\ r.step \in {"refresh", "cache"} /\ r.step \in Publishing
        /\ UNCHANGED <<status, published, deleted, row, sold, returned>>
    BY DEF RefreshItems, SetCacheStock, At, Publishing, productVars, buyerVars,
           activityVars
  <1>2. a \in Publishers /\ r \in Serving
    BY <1>1, PublisherAt
  <1>3. r.done = Enabled(r.list)
    BY <1>1, <1>2 DEF SaleOK, Sees
  <1>4. CASE \E i \in Items : SetCacheStock(a, i)
    <2> PICK i \in Items : SetCacheStock(a, i)
      BY <1>4
    <2>1. PICK s :
            s = [r EXCEPT !.step = IF r.todo = {i} THEN "publish" ELSE "cache",
                          !.todo = r.todo \ {i}]
      OBVIOUS
    <2>2. s.step \in {"cache", "publish"} /\ s.list = r.list /\ s.done = r.done
      BY <1>2, <2>1 DEF Serving
    <2>3. request' = [request EXCEPT ![a] = s]
      BY <2>1 DEF SetCacheStock, Goto
    <2>4. s.step \in Publishing
      BY <2>2 DEF Publishing
    <2> QED
      BY <1>1, <1>3, <2>2, <2>3, <2>4, SaleGoesOn
  <1>5. CASE RefreshItems(a)
    <2> PICK fresh : fresh = [i \in Items |-> IF There(i) THEN row[i].available ELSE 0]
      OBVIOUS
    <2>1. PICK s :
            s = [r EXCEPT !.step = IF Enabled(row) = {} THEN "publish" ELSE "cache",
                          !.todo = Enabled(row), !.fresh = fresh]
      OBVIOUS
    <2>2. s.step \in {"cache", "publish"} /\ s.list = r.list /\ s.done = r.done
      BY <1>2, <2>1 DEF Serving
    <2>3. request' = [request EXCEPT ![a] = s]
      BY <1>5, <2>1 DEF RefreshItems
    <2>4. s.step \in Publishing
      BY <2>2 DEF Publishing
    <2> QED
      BY <1>1, <1>3, <2>2, <2>3, <2>4, SaleGoesOn
  <1> QED
    BY <1>4, <1>5

LEMMA SaleGivesBack ==
  ASSUME StockInv, StockInv', PublishOK, SaleOK, NEW a \in Admins, NEW i \in Items,
         RollBackItem(a, i)
  PROVE  SaleOK'
  <1> DEFINE r == request[a]
  <1>1. /\ r.step = "rollback" /\ r.step \in Publishing
        /\ UNCHANGED <<status, published, deleted, row, sold>>
    BY DEF RollBackItem, At, Publishing, activityVars, buyerVars
  <1>2. r \in Serving
    BY <1>1, PublisherAt
  <1> PICK s : s = [r EXCEPT !.step = "rollback", !.todo = r.todo \ {i}]
    OBVIOUS
  <1>3. s.step = "rollback" /\ s.list = r.list
    BY <1>2 DEF Serving
  <1>4. request' = [request EXCEPT ![a] = s]
    BY DEF RollBackItem, Goto
  <1>5. \A j \in Items : returned'[j]["offline"] = returned[j]["offline"]
    <2>1. \/ returned' = returned
          \/ \E q : returned' = [returned EXCEPT ![i]["rollback"] = q]
      BY DEF RollBackItem, ReleaseStock, productVars
    <2>2. returned \in [Items -> [{"rollback", "offline"} -> Nat]]
      BY DEF StockInv, TypeOK
    <2> QED
      BY <2>1, <2>2
  <1> QED
    BY <1>1, <1>3, <1>4, <1>5, SaleGoesOn

(* What goes on sale was reserved: the enabled rows are those of the list, *)
(* all reserved, and their stock was reset to the reservation.             *)
LEMMA SaleStarts ==
  ASSUME StockInv, StockInv', PublishOK, SaleOK, NEW a \in Admins, MarkPublished(a)
  PROVE  SaleOK'
  <1> DEFINE r == request[a]
  <1>1. /\ r.step = "publish" /\ r.step \in Publishing
        /\ UNCHANGED <<published, deleted, row, sold, taken, returned>>
    BY DEF MarkPublished, At, Publishing, buyerVars, productVars
  <1>2. a \in Publishers /\ r \in Serving /\ RequestsOK
    BY <1>1, PublisherAt DEF StockInv
  <1>3. CASE RollBackFrom(a) /\ UNCHANGED status
    BY <1>1, <1>3, SaleFails
  <1>4. CASE ~ deleted /\ Return(a) /\ SetPublished
    <2>1. Sees(r) /\ r.done = Enabled(r.list)
      BY <1>1, <1>2 DEF SaleOK, Sees
    <2>2. \A i \in Items : Reserved(r, i)
      BY <1>1, <1>2 DEF PublishOK, Entries
    <2>3. ASSUME NEW i \in Enabled(row)
          PROVE  row[i].available <= taken[i] /\ returned[i]["rollback"] = 0
      <3>1. i \in Items /\ There(i) /\ row[i] \in Row /\ row[i].enabled
        BY RowsAre, RowKind DEF Enabled, There
      <3>2. /\ r.list[i].there = "yes" /\ r.list[i].enabled
            /\ r.list[i].total = row[i].total /\ row[i].available = row[i].total
        BY <1>1, <2>1, <3>1 DEF Sees, Configured
      <3>3. taken[i] = row[i].total /\ returned[i]["rollback"] = 0
        BY <2>1, <2>2, <3>1, <3>2 DEF Enabled, Reserved
      <3> QED
        BY <3>1, <3>2, <3>3 DEF Row
    <2>4. \A i \in Enabled(row)' :
            row'[i].available <= taken'[i] /\ returned'[i]["rollback"] = 0
      BY <1>1, <2>3 DEF Enabled
    <2>5. request' = [request EXCEPT ![a] = Idle]
      BY <1>4 DEF Return
    <2>6. Idle.step = "idle" /\ Idle.step \notin Publishing
      BY PublishingSteps DEF Idle
    <2>7. row' \in [Items -> AnyRow] /\ taken' \in [Items -> Nat]
      BY RowsAre DEF StockInv, TypeOK, AnyRow
    <2> QED
      BY <1>1, <1>2, <1>4, <2>4, <2>5, <2>6, <2>7, SaleInside DEF SetPublished
  <1> QED
    BY <1>3, <1>4 DEF MarkPublished

LEMMA SaleGivesUp ==
  ASSUME StockInv, StockInv', PublishOK, SaleOK, NEW a \in Admins,
         "status_error" \notin hazards, DatabaseError(a) \/ RollBackEnds(a)
  PROVE  SaleOK'
  <1>1. /\ request[a].step \in Publishing
        /\ UNCHANGED <<published, deleted, sold, taken, returned, status>>
    BY DEF DatabaseError, RollBackEnds, At, Publishing, buyerVars, productVars,
           activityVars
  <1>2. a \in Publishers /\ RequestsOK
    BY <1>1, PublisherAt DEF StockInv
  <1>3. CASE DatabaseError(a) /\ row' = row
    BY <1>1, <1>3, SaleFails DEF DatabaseError
  <1>4. CASE DatabaseError(a) /\ row' # row
    <2>1. request[a].step = "reset" /\ row' = [i \in Items |-> ResetRow(row[i])]
      BY <1>4 DEF DatabaseError, At, activityVars
    <2>2. Goto(a, "rollback", request[a].done)
      BY <1>4 DEF DatabaseError, RollBackFrom
    <2> QED
      BY <1>1, <2>1, <2>2, SaleResetsRows
  <1>5. CASE RollBackEnds(a)
    <2>1. request' = [request EXCEPT ![a] = Idle]
      BY <1>5 DEF RollBackEnds, Return
    <2>2. Idle.step = "idle" /\ Idle.step \notin Publishing
      BY PublishingSteps DEF Idle
    <2>3. row' \in [Items -> AnyRow] /\ taken' \in [Items -> Nat]
      BY RowsAre DEF StockInv, TypeOK, AnyRow
    <2>4. row' = row
      BY <1>5 DEF RollBackEnds, activityVars
    <2> QED
      BY <1>1, <1>2, <2>1, <2>2, <2>3, <2>4, SaleInside
  <1> QED
    BY <1>3, <1>4, <1>5

LEMMA SalePublishes ==
  ASSUME StockInv, PublishOK, SaleOK, NEW a \in Admins,
         "republish" \notin hazards, "edit_overlap" \notin hazards,
         PublishActivity(a)
  PROVE  SaleOK'
  <1>1. PICK s : s = [step |-> "reserve", list |-> row, todo |-> Enabled(row),
                      done |-> {}, failed |-> FALSE, fresh |-> [i \in Items |-> 0]]
    OBVIOUS
  <1>2. /\ published = 0 /\ published' = 1
        /\ request' = [request EXCEPT ![a] = s]
        /\ Editable /\ ~ InStep({"upsert", "remove"})
        /\ UNCHANGED <<status, deleted, row, taken, returned, sold>>
    BY <1>1 DEF PublishActivity, PublishOK, activityVars, productVars, buyerVars
  <1>3. /\ Publishers = {} /\ ~ WentOnSale
        /\ \A i \in Items : sold[i] = 0
    BY <1>2 DEF PublishOK, SaleOK
  <1>4. request'[a] = s /\ \A b \in Admins \ {a} : request'[b] = request[b]
    BY <1>2, OneRequest DEF StockInv
  <1>5. /\ s.step = "reserve" /\ s.list = row /\ s.todo = Enabled(row) /\ s.done = {}
    BY <1>1
  <1>6. \A b \in Publishers' : b = a
    BY <1>3, <1>4 DEF Publishers
  <1>7. Sees(request[a])'
    BY <1>2, <1>4, <1>5 DEF Sees, Configured, There, Enabled
  <1>8. ~ InStep({"release"})' /\ ~ InStep({"upsert", "remove"})'
    BY <1>2, <1>3, <1>4, <1>5 DEF InStep, WentOnSale
  <1>9. ~ Offlined'
    BY <1>2, <1>3 DEF WentOnSale, Offlined
  <1>10. status' # "published"
    BY <1>2 DEF Editable
  <1>11. \A b \in Admins :
           request'[b].step \in {"release", "offline"} => ~ request'[b].failed
    BY <1>4, <1>5 DEF SaleOK
  <1> QED
    BY <1>2, <1>3, <1>6, <1>7, <1>8, <1>9, <1>10, <1>11 DEF SaleOK, WentOnSale

(* The requests that do not publish.                                       *)
LEMMA SaleOthers ==
  ASSUME StockInv, PublishOK, SaleOK, NEW a \in Admins,
         "edit_overlap" \notin hazards, "status_error" \notin hazards,
         \/ UpsertActivityItem(a) \/ StoreItem(a)
         \/ RemoveActivityItem(a) \/ DropItem(a)
         \/ OfflineActivity(a) \/ MarkOffline(a)
  PROVE  SaleOK'
  <1>1. /\ request[a].step \in {"idle", "upsert", "remove", "offline"}
        /\ request'[a].step \in {"idle", "upsert", "remove", "release", "offline"}
        /\ request'[a].step = "release" => status = "published"
        /\ \A b \in Admins \ {a} : request'[b] = request[b]
        /\ UNCHANGED <<taken, returned, published, sold>>
    BY OthersMove
  <1>2. /\ request'[a].step \in {"upsert", "remove"} =>
             /\ Editable /\ EditsAllowed
             /\ UNCHANGED <<status, deleted, row>>
        /\ request'[a].step \in {"release", "offline"} =>
             ~ request'[a].failed /\ OfflineActivity(a)
    BY OthersMove
  <1>3. Publishers' = Publishers /\ \A b \in Publishers : request'[b] = request[b]
    BY <1>1, PublishingSteps DEF Publishers
  <1>4. Offlined' <=> Offlined
    BY <1>1 DEF Offlined
  <1>5. InStep({"release"})' => InStep({"release"}) \/ status = "published"
    BY <1>1 DEF InStep
  <1>6. status' = "published" => status = "published" /\ row' = row
    <2>1. CASE StoreItem(a) \/ DropItem(a)
      <3>1. request[a].step \in {"upsert", "remove"} /\ status' = status
        BY <2>1 DEF StoreItem, DropItem, At
      <3>2. status # "published"
        BY <3>1 DEF SaleOK, InStep
      <3> QED
        BY <3>1, <3>2
    <2>2. CASE MarkOffline(a)
      BY <2>2 DEF MarkOffline
    <2>3. CASE UpsertActivityItem(a) \/ RemoveActivityItem(a) \/ OfflineActivity(a)
      BY <2>3 DEF UpsertActivityItem, RemoveActivityItem, OfflineActivity, activityVars
    <2> QED
      BY <2>1, <2>2, <2>3
  <1>7. WentOnSale' => WentOnSale
    BY <1>4, <1>5, <1>6 DEF WentOnSale
  <1>8. deleted' => status' = "offline"
    BY DEF SaleOK, UpsertActivityItem, StoreItem, RemoveActivityItem, DropItem,
        OfflineActivity, MarkOffline, activityVars
  <1>9. Publishers' # {} \/ status' = "published" => ~ InStep({"upsert", "remove"})'
    <2> SUFFICES ASSUME Publishers' # {} \/ status' = "published",
                        InStep({"upsert", "remove"})'
                 PROVE  FALSE
      OBVIOUS
    <2>1. ~ InStep({"upsert", "remove"})
      BY <1>3, <1>6 DEF SaleOK
    <2>2. request'[a].step \in {"upsert", "remove"}
      BY <1>1, <2>1 DEF InStep
    <2>3. ~ InStep(Publishing) /\ status' # "published"
      BY <1>2, <1>6, <2>2 DEF EditsAllowed, Editable
    <2> QED
      BY <1>3, <2>3 DEF InStep, Publishers
  <1>10. \A b \in Publishers' : Sees(request[b])'
    <2> SUFFICES ASSUME NEW b \in Publishers PROVE Sees(request[b])'
      BY <1>3
    <2>1. Sees(request[b]) /\ ~ InStep({"upsert", "remove"})
      BY DEF SaleOK
    <2>2. row' = row
      BY <2>1 DEF InStep, UpsertActivityItem, StoreItem, RemoveActivityItem, DropItem,
        OfflineActivity, MarkOffline, activityVars, At
    <2> QED
      BY <1>3, <2>1, <2>2 DEF Sees, Configured, There
  <1>11. status' = "published" => SoldFits'
    BY <1>1, <1>6 DEF SaleOK, SoldFits, Enabled
  <1>12. Offlined' => status' = "offline" \/ InStep({"release", "offline"})'
    <2> SUFFICES ASSUME Offlined, status' # "offline"
                 PROVE  InStep({"release", "offline"})'
      BY <1>4
    <2>1. ~ MarkOffline(a)
      BY DEF MarkOffline, At, SaleOK
    <2>2. status' = status
      BY <2>1 DEF UpsertActivityItem, StoreItem, RemoveActivityItem, DropItem,
        OfflineActivity, activityVars
    <2>3. request[a].step \notin {"release", "offline"}
      BY <2>1 DEF UpsertActivityItem, StoreItem, RemoveActivityItem, DropItem,
        OfflineActivity, At
    <2>4. InStep({"release", "offline"})
      BY <2>2 DEF SaleOK
    <2> QED
      BY <1>1, <2>3, <2>4 DEF InStep
  <1>13. \A b \in Admins :
           request'[b].step \in {"release", "offline"} => ~ request'[b].failed
    BY <1>1, <1>2 DEF SaleOK
  <1>14. published' = 0 \/ Publishers' # {} => \A i \in Items : sold'[i] = 0
    BY <1>1, <1>3 DEF SaleOK
  <1>15. WentOnSale' => Publishers' = {} /\ published' = 1
    BY <1>1, <1>3, <1>7 DEF SaleOK
  <1> QED
    BY <1>8, <1>9, <1>10, <1>11, <1>12, <1>13, <1>14, <1>15 DEF SaleOK

LEMMA SaleReleases ==
  ASSUME StockInv, PublishOK, SaleOK, NEW a \in Admins, NEW i \in Items,
         "rpc_error" \notin hazards, ReleaseItem(a, i)
  PROVE  SaleOK'
  <1>1. /\ request[a].step = "release"
        /\ request'[a].step \in {"release", "offline"}
        /\ request'[a].failed = request[a].failed
        /\ \A b \in Admins \ {a} : request'[b] = request[b]
        /\ \A j \in Items : returned'[j]["rollback"] = returned[j]["rollback"]
        /\ UNCHANGED <<taken, status, deleted, row, published, sold>>
    BY ReleaseLeaves
  <1>2. WentOnSale
    BY <1>1 DEF WentOnSale, InStep
  <1>3. Publishers = {} /\ published = 1
    BY <1>2 DEF SaleOK
  <1>4. Publishers' = {}
    BY <1>1, <1>3, PublishingSteps DEF Publishers
  <1>5. InStep({"release", "offline"})'
    BY <1>1 DEF InStep
  <1>6. InStep({"upsert", "remove"})' => InStep({"upsert", "remove"})
    BY <1>1 DEF InStep
  <1>7. status' = "published" => SoldFits'
    BY <1>1 DEF SaleOK, SoldFits, Enabled
  <1>8. \A b \in Admins :
          request'[b].step \in {"release", "offline"} => ~ request'[b].failed
    BY <1>1 DEF SaleOK
  <1> QED
    BY <1>1, <1>3, <1>4, <1>5, <1>6, <1>7, <1>8 DEF SaleOK

LEMMA SaleDeletes ==
  ASSUME SaleOK, DeleteActivity
  PROVE  SaleOK'
  <1>1. /\ deleted' /\ status' = "offline"
        /\ UNCHANGED <<row, taken, returned, request, published, sold>>
    BY DEF DeleteActivity, productVars, buyerVars
  <1>2. /\ Publishers' = Publishers /\ (Offlined' <=> Offlined)
        /\ InStep({"release"})' <=> InStep({"release"})
        /\ InStep({"upsert", "remove"})' <=> InStep({"upsert", "remove"})
    BY <1>1 DEF Publishers, Offlined, InStep
  <1>3. \A b \in Publishers : Sees(request[b])' <=> Sees(request[b])
    BY <1>1 DEF Sees, Configured, There
  <1> QED
    BY <1>1, <1>2, <1>3 DEF SaleOK, WentOnSale

(* Buyers draw on an activity that is on sale, or put back.                *)
LEMMA SaleBuyers ==
  ASSUME StockInv, SaleOK, NEW i \in Items, "async" \notin hazards,
         \/ LoadItem(i) \/ WarmCacheStock(i)
         \/ SellAsync(i) \/ SellSync(i) \/ CloseOrder(i)
  PROVE  SaleOK'
  <1>1. UNCHANGED <<status, deleted, taken, returned, request, published>>
    BY DEF LoadItem, WarmCacheStock, SellAsync, SellSync, CloseOrder, productVars,
           activityVars
  <1>2. /\ Publishers' = Publishers /\ (WentOnSale' <=> WentOnSale)
        /\ (Offlined' <=> Offlined)
        /\ InStep({"release", "offline"})' <=> InStep({"release", "offline"})
        /\ InStep({"upsert", "remove"})' <=> InStep({"upsert", "remove"})
    BY <1>1 DEF Publishers, Offlined, InStep, WentOnSale
  <1>3. CASE UNCHANGED <<row, sold>>
    <2>1. \A b \in Publishers : Sees(request[b])' <=> Sees(request[b])
      BY <1>1, <1>3 DEF Sees, Configured, There
    <2>2. SoldFits' <=> SoldFits
      BY <1>1, <1>3 DEF SoldFits, Enabled
    <2> QED
      BY <1>1, <1>2, <1>3, <2>1, <2>2 DEF SaleOK
  <1>4. CASE SellSync(i) \/ CloseOrder(i)
    <2>1. published # 0 /\ Publishers = {}
      <3>1. CASE SellSync(i)
        <4>1. WentOnSale
          BY <3>1 DEF SellSync, WentOnSale
        <4> QED
          BY <4>1 DEF SaleOK
      <3>2. CASE CloseOrder(i)
        <4>1. sold[i] # 0
          BY <3>2 DEF CloseOrder, StockInv, TypeOK
        <4> QED
          BY <4>1 DEF SaleOK
      <3> QED
        BY <1>4, <3>1, <3>2
    <2>2. sold \in [Items -> Nat] /\ row \in [Items -> AnyRow]
      BY DEF StockInv, TypeOK, AnyRow
    <2>3. \A j \in Items \ {i} : row'[j] = row[j] /\ sold'[j] = sold[j]
      BY <1>4, <2>2 DEF SellSync, CloseOrder, Sold
    <2>4. /\ row'[i].there = row[i].there
          /\ There(i) => /\ row'[i].enabled = row[i].enabled
                         /\ row'[i].available + sold'[i] = row[i].available + sold[i]
      <3>1. CASE There(i)
        <4>1. row[i] \in Row
          BY <2>2, <3>1, RowKind DEF There
        <4>2. CASE SellSync(i)
          <5>1. row'[i] = [row[i] EXCEPT !.available = @ - 1] /\ sold'[i] = sold[i] + 1
            BY <2>2, <4>2 DEF SellSync, Sold
          <5> QED
            BY <2>2, <4>1, <5>1 DEF Row
        <4>3. CASE CloseOrder(i)
          <5>1. row'[i] = [row[i] EXCEPT !.available = @ + 1] /\ sold'[i] = sold[i] - 1
            BY <2>2, <3>1, <4>3 DEF CloseOrder
          <5> QED
            BY <2>2, <4>1, <5>1 DEF Row
        <4> QED
          BY <1>4, <4>2, <4>3
      <3>2. CASE ~ There(i)
        BY <1>4, <3>2 DEF SellSync, CloseOrder
      <3> QED
        BY <3>1, <3>2
    <2>5. status' = "published" => SoldFits'
      <3> SUFFICES ASSUME status = "published", NEW j \in Enabled(row)'
                   PROVE  /\ row'[j].available + sold'[j] <= taken[j]
                          /\ returned[j]["rollback"] = 0
        BY <1>1 DEF SoldFits
      <3>1. j \in Enabled(row)
        BY <2>3, <2>4 DEF Enabled, There
      <3>2. row[j].available + sold[j] <= taken[j] /\ returned[j]["rollback"] = 0
        BY <3>1 DEF SaleOK, SoldFits
      <3>3. row'[j].available + sold'[j] = row[j].available + sold[j]
        BY <2>3, <2>4, <3>1 DEF Enabled, There
      <3> QED
        BY <3>2, <3>3
    <2> QED
      BY <1>1, <1>2, <2>1, <2>5 DEF SaleOK
  <1> QED
    BY <1>3, <1>4
    DEF LoadItem, WarmCacheStock, SellAsync, activityVars, buyerVars

LEMMA SaleNext ==
  ASSUME StockInv, PublishOK, SaleOK, hazards \subseteq SaleHazards, [Next]_vars
  PROVE  SaleOK'
  <1>1. /\ "republish" \notin hazards /\ "rpc_error" \notin hazards
        /\ "crash" \notin hazards /\ "edit_overlap" \notin hazards
        /\ "async" \notin hazards /\ "status_error" \notin hazards
    BY DEF SaleHazards
  <1>2. StockInv'
    BY NextStock
  <1>3. ASSUME NEW a \in Admins, Administer(a) PROVE SaleOK'
    BY <1>1, <1>2, <1>3, SaleOthers, SalePublishes, SaleResets, SaleMoves, SaleStarts,
       SaleGivesUp, SaleReserves, SaleGivesBack, SaleReleases
    DEF Administer, Crash
  <1>4. CASE DeleteActivity
    BY <1>4, SaleDeletes
  <1>5. ASSUME NEW i \in Items,
               \/ LoadItem(i) \/ WarmCacheStock(i)
               \/ SellAsync(i) \/ SellSync(i) \/ CloseOrder(i)
        PROVE  SaleOK'
    BY <1>1, <1>5, SaleBuyers
  <1>6. CASE UNCHANGED vars
    <2>1. UNCHANGED <<status, deleted, row, taken, returned, request, published, sold>>
      BY <1>6 DEF vars, productVars, activityVars, buyerVars
    <2> QED
      BY <2>1 DEF SaleOK, WentOnSale, Offlined, InStep, Publishers, Sees, Configured,
         There, SoldFits, Enabled
  <1> QED
    BY <1>3, <1>4, <1>5, <1>6 DEF Next

-----------------------------------------------------------------------------
(* What OfflineActivity gives back.                                        *)

(* Without disabled items, OfflineActivity lists what PublishActivity      *)
(* reserved.                                                               *)
AllEnabled ==
  /\ \A i \in Items : There(i) => row[i].enabled
  /\ \A a \in Admins : request[a].step = "upsert" => request[a].enabled

(* The pieces back in the product's stock and those in orders were all     *)
(* reserved, and so are those a request is about to give back.             *)
ReturnFits ==
  /\ \A i \in Items :
       sold[i] + returned[i]["offline"] + returned[i]["rollback"] <= taken[i]
  /\ \A a \in Admins : request[a].step = "release" =>
       \A i \in request[a].todo :
         request[a].list[i].available + sold[i] + returned[i]["rollback"] <= taken[i]

ReleaseOK == AllEnabled /\ ReturnFits

LEMMA GotoStep ==
  ASSUME StockInv, NEW a \in Admins, request[a] \in Serving,
         NEW step, NEW items, Goto(a, step, items)
  PROVE  /\ request'[a].step = step
         /\ \A b \in Admins \ {a} : request'[b] = request[b]
  <1>1. PICK s : s = [request[a] EXCEPT !.step = step, !.todo = items]
    OBVIOUS
  <1>2. s.step = step
    BY <1>1 DEF Serving
  <1>3. request' = [request EXCEPT ![a] = s]
    BY <1>1 DEF Goto
  <1> QED
    BY <1>2, <1>3, OneRequest DEF StockInv

(* A publication becomes nothing else.                                     *)
LEMMA PublisherLeaves ==
  ASSUME StockInv, NEW a \in Admins, "crash" \notin hazards,
         \/ PublishActivity(a)
         \/ ResetAvailableStockByReserved(a) \/ RefreshItems(a)
         \/ MarkPublished(a) \/ DatabaseError(a) \/ RollBackEnds(a)
         \/ \E i \in Items : \/ ReserveItem(a, i) \/ SetCacheStock(a, i)
                             \/ RollBackItem(a, i)
  PROVE  /\ request'[a].step \in Publishing \cup {"idle"}
         /\ \A b \in Admins \ {a} : request'[b] = request[b]
         /\ request[a].step \in Publishing \/ PublishActivity(a)
         /\ UNCHANGED sold
  <1> DEFINE r == request[a]
             Leaves == /\ request'[a].step \in Publishing \cup {"idle"}
                       /\ \A b \in Admins \ {a} : request'[b] = request[b]
  <1>1. RequestsOK
    BY DEF StockInv
  <1>2. UNCHANGED sold
    BY DEF PublishActivity, ResetAvailableStockByReserved, RefreshItems, MarkPublished,
       DatabaseError, RollBackEnds, ReserveItem, SetCacheStock, RollBackItem, buyerVars
  <1>3. CASE PublishActivity(a)
    <2>1. PICK s : s = [step |-> "reserve", list |-> row, todo |-> Enabled(row),
                        done |-> {}, failed |-> FALSE, fresh |-> [i \in Items |-> 0]]
      OBVIOUS
    <2>2. s.step \in Publishing
      BY <2>1 DEF Publishing
    <2>3. request' = [request EXCEPT ![a] = s]
      BY <1>3, <2>1 DEF PublishActivity
    <2> QED
      BY <1>1, <1>2, <1>3, <2>2, <2>3, OneRequest
  <1>4. CASE ~ PublishActivity(a)
    <2>1. r.step \in Publishing
      BY <1>4 DEF ResetAvailableStockByReserved, RefreshItems, MarkPublished,
         DatabaseError, RollBackEnds, ReserveItem, SetCacheStock, RollBackItem,
         At, Publishing
    <2>2. r \in Serving
      BY <2>1, PublisherAt
    <2>3. ASSUME NEW step \in Publishing, NEW items, Goto(a, step, items)
          PROVE  Leaves
      BY <2>2, <2>3, GotoStep
    <2>4. ASSUME NEW s, request' = [request EXCEPT ![a] = s],
                 s.step \in Publishing \cup {"idle"}
          PROVE  Leaves
      BY <1>1, <2>4, OneRequest
    <2>5. "rollback" \in Publishing /\ "refresh" \in Publishing /\ Idle.step = "idle"
      BY DEF Publishing, Idle
    <2>6. ASSUME RollBackFrom(a) PROVE Leaves
      BY <2>3, <2>5, <2>6 DEF RollBackFrom
    <2>7. ASSUME Return(a) PROVE Leaves
      BY <2>4, <2>5, <2>7 DEF Return
    <2>8. CASE MarkPublished(a) \/ DatabaseError(a) \/ RollBackEnds(a)
      <3>1. Leaves
        BY <2>6, <2>7, <2>8 DEF MarkPublished, DatabaseError, RollBackEnds
      <3> QED
        BY <1>2, <2>1, <3>1
    <2>9. CASE ResetAvailableStockByReserved(a)
      <3>1. Goto(a, "refresh", {})
        BY <2>9 DEF ResetAvailableStockByReserved
      <3>2. Leaves
        BY <2>3, <2>5, <3>1
      <3> QED
        BY <1>2, <2>1, <3>2
    <2>10. CASE RefreshItems(a)
      <3>1. PICK fresh : fresh = [i \in Items |-> IF There(i) THEN row[i].available ELSE 0]
        OBVIOUS
      <3>2. PICK s :
              s = [r EXCEPT !.step = IF Enabled(row) = {} THEN "publish" ELSE "cache",
                            !.todo = Enabled(row), !.fresh = fresh]
        OBVIOUS
      <3>3. request' = [request EXCEPT ![a] = s]
        BY <2>10, <3>1, <3>2 DEF RefreshItems
      <3>4. s.step \in Publishing
        BY <2>2, <3>2 DEF Serving, Publishing
      <3>5. Leaves
        BY <2>4, <3>3, <3>4
      <3> QED
        BY <1>2, <2>1, <3>5
    <2>11. ASSUME NEW i \in Items, ReserveItem(a, i) PROVE Leaves
      <3>1. CASE RollBackFrom(a)
        BY <2>6, <3>1
      <3>2. CASE ReserveNext(a, i)
        <4>1. PICK s :
                s = [r EXCEPT !.todo = r.todo \ {i}, !.done = r.done \cup {i},
                              !.step = IF r.todo = {i} THEN "reset" ELSE "reserve"]
          OBVIOUS
        <4>2. request' = [request EXCEPT ![a] = s]
          BY <3>2, <4>1 DEF ReserveNext
        <4>3. s.step \in Publishing
          BY <2>2, <4>1 DEF Serving, Publishing
        <4> QED
          BY <2>4, <4>2, <4>3
      <3> QED
        BY <2>11, <3>1, <3>2 DEF ReserveItem
    <2>12. ASSUME NEW i \in Items, SetCacheStock(a, i) \/ RollBackItem(a, i) PROVE Leaves
      <3>1. CASE SetCacheStock(a, i)
        <4>1. PICK step : step = IF r.todo = {i} THEN "publish" ELSE "cache"
          OBVIOUS
        <4>2. step \in Publishing /\ Goto(a, step, r.todo \ {i})
          BY <3>1, <4>1 DEF SetCacheStock, Publishing
        <4> QED
          BY <2>3, <4>2
      <3>2. CASE RollBackItem(a, i)
        <4>1. Goto(a, "rollback", r.todo \ {i})
          BY <3>2 DEF RollBackItem
        <4> QED
          BY <2>3, <2>5, <4>1
      <3> QED
        BY <2>12, <3>1, <3>2
    <2> QED
      BY <1>2, <1>4, <2>1, <2>8, <2>9, <2>10, <2>11, <2>12
  <1> QED
    BY <1>3, <1>4

(* Nothing else enables or disables a row: StoreItem writes what the       *)
(* request asks for, and without "disabled_item" that is an enabled item.  *)
LEMMA EnabledNext ==
  ASSUME StockInv, StockInv', AllEnabled, hazards = {}, [Next]_vars
  PROVE  AllEnabled'
  <1>1. row \in [Items -> AnyRow] /\ row' \in [Items -> AnyRow]
    BY DEF StockInv, TypeOK, AnyRow
  <1>2. ASSUME \A i \in Items : There(i)' => There(i) /\ row'[i].enabled = row[i].enabled,
               \A a \in Admins : request'[a].step = "upsert" =>
                 request'[a].enabled \/ request'[a] = request[a]
        PROVE  AllEnabled'
    BY <1>2 DEF AllEnabled
  <1>3. ASSUME NEW i \in Items,
               \/ LoadItem(i) \/ WarmCacheStock(i)
               \/ SellAsync(i) \/ SellSync(i) \/ CloseOrder(i)
        PROVE  AllEnabled'
    <2>1. request' = request
      BY <1>3 DEF LoadItem, WarmCacheStock, SellAsync, SellSync, CloseOrder
    <2>2. \A j \in Items : There(j)' => There(j) /\ row'[j].enabled = row[j].enabled
      <3>1. CASE UNCHANGED row
        BY <3>1 DEF There
      <3>2. CASE SellSync(i) \/ CloseOrder(i)
        <4>1. CASE There(i) /\ ~ UNCHANGED row
          <5>1. row[i] \in Row
            BY <1>1, <4>1, RowKind DEF There
          <5>2. \E n : row' = [row EXCEPT ![i] = [row[i] EXCEPT !.available = n]]
            BY <3>2, <4>1 DEF SellSync, CloseOrder
          <5>3. /\ row'[i].enabled = row[i].enabled
                /\ \A j \in Items \ {i} : row'[j] = row[j]
            BY <1>1, <5>1, <5>2 DEF Row
          <5> QED
            BY <4>1, <5>3 DEF There
        <4>2. CASE ~ There(i)
          BY <3>2, <4>2 DEF SellSync, CloseOrder, There
        <4> QED
          BY <3>1, <4>1, <4>2
      <3> QED
        BY <1>3, <3>1, <3>2 DEF LoadItem, WarmCacheStock, SellAsync, activityVars
    <2> QED
      BY <1>2, <2>1, <2>2
  <1>4. ASSUME NEW a \in Admins, Administer(a) PROVE AllEnabled'
    <2>1. CASE \/ UpsertActivityItem(a) \/ RemoveActivityItem(a)
               \/ OfflineActivity(a) \/ MarkOffline(a)
      <3>1. UNCHANGED row
        BY <2>1 DEF UpsertActivityItem, RemoveActivityItem, OfflineActivity,
           MarkOffline, activityVars
      <3>2. /\ request'[a].step = "upsert" => request'[a].enabled
            /\ \A b \in Admins \ {a} : request'[b] = request[b]
        BY <2>1, OthersMove
      <3> QED
        BY <1>2, <3>1, <3>2 DEF There
    <2>2. CASE StoreItem(a) \/ DropItem(a)
      <3>1. /\ request'[a].step = "idle"
            /\ \A b \in Admins \ {a} : request'[b] = request[b]
        BY <2>2, OthersMove
      <3>2. CASE DropItem(a)
        <4>1. Removed.there # "yes"
          BY DEF Removed
        <4>2. row' = [row EXCEPT ![request[a].item] = Removed]
          BY <3>2 DEF DropItem
        <4>3. \A i \in Items : There(i)' => row'[i] = row[i]
          BY <1>1, <4>1, <4>2 DEF There
        <4> QED
          BY <1>2, <3>1, <4>3 DEF There
      <3>3. CASE StoreItem(a)
        <4>1. request[a].step = "upsert" /\ request[a].enabled
          BY <3>3 DEF StoreItem, At, AllEnabled
        <4>2. \A i \in Items : row'[i] = row[i] \/ row'[i].enabled
          BY <1>1, <3>3, <4>1 DEF StoreItem
        <4>3. \A i \in Items : There(i)' => row'[i].enabled
          BY <4>2 DEF AllEnabled, There
        <4> QED
          BY <3>1, <4>3 DEF AllEnabled
      <3> QED
        BY <2>2, <3>2, <3>3
    <2>3. ASSUME NEW i \in Items, ReleaseItem(a, i) PROVE AllEnabled'
      <3>1. UNCHANGED row
        BY <2>3 DEF ReleaseItem, activityVars
      <3>2. /\ request'[a].step \in {"release", "offline"}
            /\ \A b \in Admins \ {a} : request'[b] = request[b]
        BY <2>3, ReleaseLeaves
      <3> QED
        BY <1>2, <3>1, <3>2 DEF There
    <2>4. CASE \/ PublishActivity(a)
               \/ ResetAvailableStockByReserved(a) \/ RefreshItems(a)
               \/ MarkPublished(a) \/ DatabaseError(a) \/ RollBackEnds(a)
               \/ \E i \in Items : \/ ReserveItem(a, i) \/ SetCacheStock(a, i)
                                   \/ RollBackItem(a, i)
      <3>1. /\ request'[a].step \in Publishing \cup {"idle"}
            /\ \A b \in Admins \ {a} : request'[b] = request[b]
        BY <2>4, PublisherLeaves
      <3>2. request'[a].step # "upsert"
        BY <3>1, PublishingSteps
      <3>3. CASE UNCHANGED row
        BY <1>2, <3>1, <3>2, <3>3 DEF There
      <3>4. CASE row' = [i \in Items |-> ResetRow(row[i])]
        <4>1. \A i \in Items : row'[i] = ResetRow(row[i])
          BY <3>4
        <4>2. \A i \in Items : There(i)' => There(i) /\ row'[i].enabled = row[i].enabled
          <5> SUFFICES ASSUME NEW i \in Items, There(i)'
                       PROVE  There(i) /\ row'[i].enabled = row[i].enabled
            OBVIOUS
          <5>1. There(i)
            BY <4>1 DEF There, ResetRow
          <5>2. row[i] \in Row
            BY <1>1, <5>1, RowKind DEF There
          <5> QED
            BY <4>1, <5>1, <5>2 DEF There, ResetRow, Row
        <4> QED
          BY <1>2, <3>1, <3>2, <4>2
      <3> QED
        BY <2>4, <3>3, <3>4 DEF PublishActivity, ResetAvailableStockByReserved,
           RefreshItems, MarkPublished, DatabaseError, RollBackEnds, ReserveItem, SetCacheStock, RollBackItem,
           activityVars
    <2> QED
      BY <1>4, <2>1, <2>2, <2>3, <2>4 DEF Administer, Crash
  <1>5. CASE DeleteActivity \/ UNCHANGED vars
    BY <1>2, <1>5 DEF DeleteActivity, vars, activityVars, There
  <1> QED
    BY <1>3, <1>4, <1>5 DEF Next

(* More is reserved, less is sold, nothing more is given back or about to  *)
(* be.                                                                     *)
LEMMA ReturnKeeps ==
  ASSUME StockInv, StockInv', ReturnFits,
         \A i \in Items : /\ taken[i] <= taken'[i]
                          /\ sold'[i] <= sold[i]
                          /\ returned'[i] = returned[i],
         \A a \in Admins : request'[a].step = "release" => request'[a] = request[a]
  PROVE  ReturnFits'
  <1>1. \A i \in Items :
          /\ taken[i] \in Nat /\ taken'[i] \in Nat
          /\ sold[i] \in Nat /\ sold'[i] \in Nat
          /\ returned[i]["offline"] \in Nat /\ returned[i]["rollback"] \in Nat
    BY DEF StockInv, TypeOK
  <1>2. \A i \in Items :
          sold'[i] + returned'[i]["offline"] + returned'[i]["rollback"] <= taken'[i]
    BY <1>1 DEF ReturnFits
  <1>3. ASSUME NEW a \in Admins, request'[a].step = "release",
               NEW i \in request'[a].todo
        PROVE  request'[a].list[i].available + sold'[i] + returned'[i]["rollback"]
                 <= taken'[i]
    <2>1. /\ request'[a] = request[a] /\ request[a].step = "release"
          /\ i \in request[a].todo
      BY <1>3
    <2>2. request[a] \in Serving /\ request[a].todo \subseteq Offered(request[a].list)
      BY <2>1, RequestKind DEF StockInv, Sound, Steps
    <2>3. i \in Items /\ request[a].list[i] \in Row
      BY <2>1, <2>2, RowKind DEF Offered, Serving, AnyRow
    <2>4. request[a].list[i].available \in Nat
      BY <2>3 DEF Row
    <2>5. request[a].list[i].available + sold[i] + returned[i]["rollback"] <= taken[i]
      BY <2>1 DEF ReturnFits
    <2> QED
      BY <1>1, <2>1, <2>3, <2>4, <2>5
  <1> QED
    BY <1>2, <1>3 DEF ReturnFits

(* A call of ReserveStock that goes through adds to what is reserved.      *)
LEMMA ReserveGrows ==
  ASSUME StockInv, NEW i \in Items, NEW q \in Quantity,
         ReserveStock(i, q) \/ ReserveRefused(i, q)
  PROVE  (\A j \in Items : taken[j] <= taken'[j]) /\ UNCHANGED returned
  <1>1. taken \in [Items -> Nat] /\ q \in Nat
    BY DEF StockInv, TypeOK, Quantity
  <1>2. UNCHANGED productVars \/ (taken[i] = 0 /\ taken' = [taken EXCEPT ![i] = q] /\ UNCHANGED returned)
    BY DEF ReserveStock, ReserveRefused
  <1> QED
    BY <1>1, <1>2 DEF productVars

(* A rollback happens before anything was sold or taken offline.           *)
LEMMA ReturnGivesBack ==
  ASSUME StockInv, StockInv', PublishOK, SaleOK, ReturnFits,
         NEW a \in Admins, NEW i \in Items,
         "rpc_error" \notin hazards, "crash" \notin hazards, RollBackItem(a, i)
  PROVE  ReturnFits'
  <1> DEFINE r == request[a]
  <1>1. /\ r.step = "rollback" /\ i \in r.todo /\ r.step \in Publishing
        /\ ReleaseStock(i, "rollback", r.list[i].total)
        /\ UNCHANGED sold
    BY DEF RollBackItem, At, Publishing, buyerVars
  <1>2. /\ a \in Publishers /\ r \in Serving
        /\ r.list[i].total \in Quantity
    BY <1>1, PublisherAt
  <1>3. taken[i] = r.list[i].total /\ returned[i]["rollback"] = 0
    BY <1>1, <1>2 DEF PublishOK, Entries, RolledBack
  <1>4. ~ WentOnSale /\ \A j \in Items : sold[j] = 0
    BY <1>2 DEF SaleOK
  <1>5. ~ InStep({"release"}) /\ ~ Offlined
    BY <1>4 DEF WentOnSale
  <1>6. /\ returned' = [returned EXCEPT ![i]["rollback"] = r.list[i].total]
        /\ UNCHANGED taken
    BY <1>1, <1>3 DEF ReleaseStock
  <1>7. /\ returned \in [Items -> [{"rollback", "offline"} -> Nat]]
        /\ taken \in [Items -> Nat] /\ sold \in [Items -> Nat]
    BY DEF StockInv, TypeOK
  <1>8. returned[i]["offline"] = 0
    BY <1>5, <1>7 DEF Offlined
  <1>9. /\ returned'[i]["rollback"] = taken[i] /\ returned'[i]["offline"] = 0
        /\ \A j \in Items \ {i} : returned'[j] = returned[j]
    BY <1>3, <1>6, <1>7, <1>8
  <1>10. \A j \in Items :
           sold'[j] + returned'[j]["offline"] + returned'[j]["rollback"] <= taken'[j]
    <2> SUFFICES ASSUME NEW j \in Items
                 PROVE  sold'[j] + returned'[j]["offline"] + returned'[j]["rollback"]
                          <= taken'[j]
      OBVIOUS
    <2>1. CASE j = i
      BY <1>1, <1>4, <1>6, <1>7, <1>9, <2>1
    <2>2. CASE j # i
      BY <1>1, <1>6, <1>7, <1>9, <2>2 DEF ReturnFits
    <2> QED
      BY <2>1, <2>2
  <1>11. /\ request'[a].step \in Publishing \cup {"idle"}
         /\ \A b \in Admins \ {a} : request'[b] = request[b]
    BY PublisherLeaves
  <1>12. \A b \in Admins : request'[b].step # "release"
    BY <1>5, <1>11, PublishingSteps DEF InStep
  <1> QED
    BY <1>10, <1>12 DEF ReturnFits

(* OfflineActivity reads the rows of an activity that is on sale; what is  *)
(* on offer and what is sold was reserved.                                 *)
LEMMA ReturnOthers ==
  ASSUME StockInv, StockInv', SaleOK, AllEnabled, ReturnFits, NEW a \in Admins,
         \/ UpsertActivityItem(a) \/ StoreItem(a)
         \/ RemoveActivityItem(a) \/ DropItem(a)
         \/ OfflineActivity(a) \/ MarkOffline(a)
  PROVE  ReturnFits'
  <1>1. /\ \A b \in Admins \ {a} : request'[b] = request[b]
        /\ request'[a].step = "release" =>
             /\ status = "published" /\ request'[a].list = row
             /\ request'[a].todo = Listed
        /\ UNCHANGED <<taken, returned, published, sold>>
    BY OthersMove
  <1>2. CASE request'[a].step # "release"
    BY <1>1, <1>2, ReturnKeeps DEF StockInv, TypeOK
  <1>3. CASE request'[a].step = "release"
    <2>1. \A i \in Listed : row[i].available + sold[i] <= taken[i]
                              /\ returned[i]["rollback"] = 0
      BY <1>1, <1>3 DEF SaleOK, SoldFits, AllEnabled, Listed, Enabled, There
    <2>2. \A i \in Listed :
            row[i].available + sold[i] + returned[i]["rollback"] <= taken[i]
      <3> SUFFICES ASSUME NEW i \in Listed
                   PROVE  row[i].available + sold[i] + returned[i]["rollback"] <= taken[i]
        OBVIOUS
      <3>1. i \in Items /\ row[i] \in Row
        BY RowsAre, RowKind DEF Listed, There
      <3>2. row[i].available \in Nat /\ sold[i] \in Nat /\ taken[i] \in Nat
        BY <3>1 DEF Row, StockInv, TypeOK
      <3> QED
        BY <2>1, <3>2
    <2>3. \A b \in Admins : request'[b].step = "release" => \A i \in request'[b].todo :
            request'[b].list[i].available + sold[i] + returned[i]["rollback"] <= taken[i]
      BY <1>1, <1>3, <2>2 DEF ReturnFits
    <2> QED
      BY <1>1, <2>3 DEF ReturnFits
  <1> QED
    BY <1>2, <1>3

LEMMA ReturnReleases ==
  ASSUME StockInv, StockInv', ReturnFits, NEW a \in Admins, NEW i \in Items,
         "rpc_error" \notin hazards, ReleaseItem(a, i)
  PROVE  ReturnFits'
  <1> DEFINE r == request[a]
  <1>1. /\ r.step = "release" /\ i \in r.todo /\ r \in Serving
        /\ request'[a].todo = r.todo \ {i} /\ request'[a].list = r.list
        /\ \A b \in Admins \ {a} : request'[b] = request[b]
        /\ \A j \in Items : returned'[j]["rollback"] = returned[j]["rollback"]
        /\ \A j \in Items \ {i} : returned'[j] = returned[j]
        /\ \/ returned'[i]["offline"] = returned[i]["offline"]
           \/ /\ returned[i]["offline"] = 0
              /\ returned'[i]["offline"] = r.list[i].available
        /\ UNCHANGED <<taken, sold>>
    BY ReleaseLeaves
  <1>2. r.todo \subseteq Offered(r.list)
    BY <1>1, RequestKind DEF StockInv, Sound, Steps
  <1>3. r.list[i] \in Row
    BY <1>1, <1>2, RowKind DEF Offered, Serving, AnyRow
  <1>4. /\ r.list[i].available \in Nat
        /\ sold[i] \in Nat /\ taken[i] \in Nat
        /\ returned[i]["offline"] \in Nat /\ returned[i]["rollback"] \in Nat
    BY <1>3 DEF Row, StockInv, TypeOK
  <1>5. r.list[i].available + sold[i] + returned[i]["rollback"] <= taken[i]
    BY <1>1 DEF ReturnFits
  <1>6. sold[i] + returned[i]["offline"] + returned[i]["rollback"] <= taken[i]
    BY DEF ReturnFits
  <1>7. sold'[i] + returned'[i]["offline"] + returned'[i]["rollback"] <= taken'[i]
    BY <1>1, <1>4, <1>5, <1>6
  <1>8. \A j \in Items :
          sold'[j] + returned'[j]["offline"] + returned'[j]["rollback"] <= taken'[j]
    BY <1>1, <1>7 DEF ReturnFits
  <1>9. ASSUME NEW b \in Admins, request'[b].step = "release", NEW j \in request'[b].todo
        PROVE  request'[b].list[j].available + sold'[j] + returned'[j]["rollback"]
                 <= taken'[j]
    <2>1. /\ request[b].step = "release" /\ j \in request[b].todo
          /\ request'[b].list = request[b].list
      BY <1>1, <1>9
    <2>2. j \in Items
      BY <2>1, RequestKind DEF StockInv, Sound, Steps, Offered
    <2>3. returned'[j]["rollback"] = returned[j]["rollback"]
      BY <1>1, <2>2
    <2> QED
      BY <1>1, <2>1, <2>3 DEF ReturnFits
  <1> QED
    BY <1>8, <1>9 DEF ReturnFits

(* A sale finds the activity on sale and its row not empty.                *)
LEMMA ReturnSells ==
  ASSUME StockInv, StockInv', SaleOK, AllEnabled, ReturnFits, NEW i \in Items,
         hazards = {}, SellSync(i)
  PROVE  ReturnFits'
  <1>1. /\ ~ InStep({"release", "offline"}) /\ status = "published"
        /\ There(i) /\ row[i].enabled /\ row[i].available > 0
        /\ sold' = [sold EXCEPT ![i] = @ + 1]
        /\ UNCHANGED <<taken, returned, request>>
    BY DEF SellSync, SalesAllowed, Sold, productVars
  <1>2. ~ Offlined
    BY <1>1 DEF SaleOK
  <1>3. row[i].available + sold[i] <= taken[i] /\ returned[i]["rollback"] = 0
    BY <1>1 DEF SaleOK, SoldFits, Enabled, There
  <1>4. row[i] \in Row
    BY <1>1, RowsAre, RowKind DEF There
  <1>5. /\ row[i].available \in Nat /\ sold \in [Items -> Nat] /\ taken[i] \in Nat
        /\ returned[i]["offline"] \in Nat
    BY <1>4 DEF Row, StockInv, TypeOK
  <1>6. returned[i]["offline"] = 0
    BY <1>2, <1>5 DEF Offlined
  <1>7. sold'[i] + returned[i]["offline"] + returned[i]["rollback"] <= taken[i]
    BY <1>1, <1>3, <1>5, <1>6
  <1>8. \A j \in Items :
          sold'[j] + returned'[j]["offline"] + returned'[j]["rollback"] <= taken'[j]
    BY <1>1, <1>5, <1>7 DEF ReturnFits
  <1>9. \A b \in Admins : request'[b].step # "release"
    BY <1>1 DEF InStep
  <1> QED
    BY <1>8, <1>9 DEF ReturnFits

LEMMA ReturnNext ==
  ASSUME StockInv, PublishOK, SaleOK, ReleaseOK, hazards = {}, [Next]_vars
  PROVE  ReleaseOK'
  <1>1. StockInv'
    BY NextStock
  <1>2. AllEnabled' /\ AllEnabled /\ ReturnFits
    BY <1>1, EnabledNext DEF ReleaseOK
  <1>3. \A i \in Items : /\ taken[i] \in Nat /\ taken[i] <= taken[i]
                         /\ sold[i] \in Nat /\ sold[i] <= sold[i]
    BY DEF StockInv, TypeOK
  <1>4. ASSUME UNCHANGED <<taken, sold, returned>>,
               \A a \in Admins : request'[a].step = "release" => request'[a] = request[a]
        PROVE  ReturnFits'
    BY <1>1, <1>2, <1>3, <1>4, ReturnKeeps
  <1>5. ASSUME NEW a \in Admins, Administer(a) PROVE ReturnFits'
    <2>1. CASE \/ UpsertActivityItem(a) \/ StoreItem(a)
               \/ RemoveActivityItem(a) \/ DropItem(a)
               \/ OfflineActivity(a) \/ MarkOffline(a)
      BY <1>1, <1>2, <2>1, ReturnOthers
    <2>2. ASSUME NEW i \in Items, RollBackItem(a, i) \/ ReleaseItem(a, i) PROVE ReturnFits'
      BY <1>1, <1>2, <2>2, ReturnGivesBack, ReturnReleases
    <2>3. CASE \/ PublishActivity(a)
               \/ ResetAvailableStockByReserved(a) \/ RefreshItems(a)
               \/ MarkPublished(a) \/ DatabaseError(a) \/ RollBackEnds(a)
               \/ \E i \in Items : ReserveItem(a, i) \/ SetCacheStock(a, i)
      <3>1. /\ request'[a].step \in Publishing \cup {"idle"}
            /\ \A b \in Admins \ {a} : request'[b] = request[b]
            /\ UNCHANGED sold
        BY <2>3, PublisherLeaves
      <3>2. \A b \in Admins : request'[b].step = "release" => request'[b] = request[b]
        BY <3>1, PublishingSteps
      <3>3. CASE UNCHANGED <<taken, returned>>
        BY <1>4, <3>1, <3>2, <3>3
      <3>4. ASSUME NEW i \in Items, ReserveItem(a, i)
            PROVE  (\A j \in Items : taken[j] <= taken'[j]) /\ UNCHANGED returned
        <4>1. request[a].step = "reserve" /\ i \in request[a].todo
          BY <3>4 DEF ReserveItem, At
        <4>2. request[a].list[i].total \in Quantity
          BY <4>1, PublisherAt DEF Publishing
        <4> QED
          BY <3>4, <4>2, ReserveGrows DEF ReserveItem
      <3>5. CASE \E i \in Items : ReserveItem(a, i)
        BY <1>1, <1>2, <1>3, <3>1, <3>2, <3>4, <3>5, ReturnKeeps
      <3> QED
        BY <2>3, <3>3, <3>5 DEF PublishActivity, ResetAvailableStockByReserved,
           RefreshItems, MarkPublished, DatabaseError, RollBackEnds, SetCacheStock,
           productVars
    <2> QED
      BY <1>5, <2>1, <2>2, <2>3 DEF Administer, Crash
  <1>6. ASSUME NEW i \in Items,
               \/ LoadItem(i) \/ WarmCacheStock(i)
               \/ SellAsync(i) \/ SellSync(i) \/ CloseOrder(i)
        PROVE  ReturnFits'
    <2>1. CASE LoadItem(i) \/ WarmCacheStock(i)
      BY <1>4, <2>1 DEF LoadItem, WarmCacheStock, productVars, buyerVars
    <2>2. CASE CloseOrder(i)
      <3>1. /\ sold' = [sold EXCEPT ![i] = @ - 1]
            /\ UNCHANGED <<taken, returned, request>>
        BY <2>2 DEF CloseOrder, productVars
      <3>2. \A j \in Items : sold'[j] <= sold[j]
        BY <3>1 DEF StockInv, TypeOK
      <3> QED
        BY <1>1, <1>2, <1>3, <3>1, <3>2, ReturnKeeps
    <2> QED
      BY <1>1, <1>2, <1>6, <2>1, <2>2, ReturnSells DEF SellAsync
  <1>7. ASSUME DeleteActivity PROVE ReturnFits'
    BY <1>4, <1>7 DEF DeleteActivity, productVars, buyerVars
  <1>8. ASSUME UNCHANGED vars PROVE ReturnFits'
    BY <1>4, <1>8 DEF vars, productVars, buyerVars
  <1>9. ReturnFits'
    BY <1>5, <1>6, <1>7, <1>8 DEF Next
  <1> QED
    BY <1>2, <1>9 DEF ReleaseOK

-----------------------------------------------------------------------------
(* The invariants, each for the hazards under which it holds.  A behaviour *)
(* keeps its hazards.                                                      *)
ActivityInv ==
  /\ StockInv
  /\ hazards \subseteq PublishHazards => PublishOK
  /\ hazards \subseteq SaleHazards => SaleOK
  /\ hazards = {} => ReleaseOK

LEMMA InitActivity == Init => ActivityInv
  <1> SUFFICES ASSUME Init PROVE ActivityInv
    OBVIOUS
  <1>1. StockInv
    BY InitStock
  <1>2. \A a \in Admins : request[a].step = "idle"
    BY DEF Init, Idle
  <1>3. Publishers = {} /\ \A steps : "idle" \notin steps => ~ InStep(steps)
    BY <1>2, PublishingSteps DEF Publishers, InStep
  <1>4. ~ InStep({"release"}) /\ ~ InStep({"upsert", "remove"})
    BY <1>2 DEF InStep
  <1>5. /\ \A i \in Items : /\ taken[i] = 0 /\ sold[i] = 0
                            /\ returned[i]["rollback"] = 0 /\ returned[i]["offline"] = 0
        /\ status = "draft" /\ ~ onceOnSale /\ ~ deleted /\ published = 0
        /\ \A i \in Items : ~ There(i)
    BY DEF Init, There, NoRow
  <1>6. ~ Offlined
    BY <1>5 DEF Offlined
  <1>7. PublishOK
    BY <1>3, <1>4, <1>5, <1>6 DEF PublishOK
  <1>8. SaleOK
    BY <1>2, <1>3, <1>4, <1>5, <1>6 DEF SaleOK, WentOnSale
  <1>9. ReleaseOK
    BY <1>2, <1>5 DEF ReleaseOK, AllEnabled, ReturnFits
  <1> QED
    BY <1>1, <1>7, <1>8, <1>9 DEF ActivityInv

LEMMA SettingKept == [Next]_vars => hazards' = hazards
  <1> SUFFICES ASSUME [Next]_vars PROVE hazards' = hazards
    OBVIOUS
  <1>1. ASSUME NEW a \in Admins, Administer(a) PROVE hazards' = hazards
    <2>1. ASSUME NEW i \in Items,
                 \/ ReserveItem(a, i) \/ SetCacheStock(a, i)
                 \/ RollBackItem(a, i) \/ ReleaseItem(a, i)
          PROVE  hazards' = hazards
      BY <2>1 DEF ReserveItem, SetCacheStock, RollBackItem, ReleaseItem, setting
    <2>2. CASE \/ UpsertActivityItem(a) \/ StoreItem(a)
               \/ RemoveActivityItem(a) \/ DropItem(a)
               \/ OfflineActivity(a) \/ MarkOffline(a)
      BY <2>2 DEF UpsertActivityItem, StoreItem, RemoveActivityItem, DropItem,
         OfflineActivity, MarkOffline, setting
    <2>3. CASE \/ PublishActivity(a)
               \/ ResetAvailableStockByReserved(a) \/ RefreshItems(a)
               \/ MarkPublished(a) \/ DatabaseError(a) \/ RollBackEnds(a) \/ Crash(a)
      BY <2>3 DEF PublishActivity, ResetAvailableStockByReserved, RefreshItems,
         MarkPublished, DatabaseError, RollBackEnds, Crash, setting
    <2> QED
      BY <1>1, <2>1, <2>2, <2>3 DEF Administer
  <1>2. ASSUME NEW i \in Items,
               \/ LoadItem(i) \/ WarmCacheStock(i)
               \/ SellAsync(i) \/ SellSync(i) \/ CloseOrder(i)
        PROVE  hazards' = hazards
    BY <1>2 DEF LoadItem, WarmCacheStock, SellAsync, SellSync, CloseOrder, setting
  <1>3. CASE DeleteActivity
    BY <1>3 DEF DeleteActivity, setting
  <1>4. CASE UNCHANGED vars
    BY <1>4 DEF vars, setting
  <1> QED
    BY <1>1, <1>2, <1>3, <1>4 DEF Next

LEMMA NextActivity == ActivityInv /\ [Next]_vars => ActivityInv'
  <1> SUFFICES ASSUME ActivityInv, [Next]_vars PROVE ActivityInv'
    OBVIOUS
  <1>1. StockInv /\ StockInv' /\ hazards' = hazards
    BY NextStock, SettingKept DEF ActivityInv
  <1>2. hazards = {} => hazards \subseteq SaleHazards
    OBVIOUS
  <1>3. hazards \subseteq SaleHazards => hazards \subseteq PublishHazards
    BY DEF SaleHazards, PublishHazards
  <1>4. hazards \subseteq PublishHazards => PublishOK'
    BY <1>1, PublishNext DEF ActivityInv
  <1>5. hazards \subseteq SaleHazards => SaleOK'
    BY <1>1, <1>3, SaleNext DEF ActivityInv
  <1>6. hazards = {} => ReleaseOK'
    BY <1>1, <1>2, <1>3, ReturnNext DEF ActivityInv
  <1> QED
    BY <1>1, <1>4, <1>5, <1>6 DEF ActivityInv

LEMMA Activity == Spec => []ActivityInv
  BY InitActivity, NextActivity, PTL DEF Spec

LEMMA Balance ==
  ASSUME ActivityInv, NEW i \in Items
  PROVE  /\ stock[i] = initial[i] - taken[i] + returned[i]["rollback"]
                         + returned[i]["offline"]
         /\ stock[i] \in Nat /\ initial[i] \in Nat /\ taken[i] \in Nat /\ sold[i] \in Nat
         /\ returned[i]["rollback"] \in Nat /\ returned[i]["offline"] \in Nat
  <1>1. TypeOK /\ ProductBalance
    BY DEF ActivityInv, StockInv
  <1> QED
    BY <1>1 DEF TypeOK, ProductBalance

-----------------------------------------------------------------------------
(* A publication that failed, for an item product-rpc refused, for an      *)
(* error of the database or because the activity was deleted meanwhile,    *)
(* has given back exactly what it had reserved, whatever edits, sales and  *)
(* disabled items there are; product-rpc answers and no process stops.     *)
THEOREM FailureIsUndone == Spec => []FailedPublishReturnsStock
  <1>1. ActivityInv => FailedPublishReturnsStock
    <2> SUFFICES ASSUME ActivityInv, hazards \subseteq PublishHazards,
                        ~ onceOnSale, ~ InStep(Publishing)
                 PROVE  stock = initial
      BY DEF FailedPublishReturnsStock, PublishHazards
    <2>1. stock \in [Items -> Nat] /\ initial \in [Items -> Nat]
      BY DEF ActivityInv, StockInv, TypeOK
    <2>2. Publishers = {} /\ PublishOK
      BY DEF ActivityInv, InStep, Publishers
    <2>3. ~ Offlined /\ \A i \in Items : returned[i]["rollback"] = taken[i]
      BY <2>2 DEF PublishOK
    <2>4. \A i \in Items : returned[i]["offline"] = 0
      BY <2>3, Balance DEF Offlined
    <2>5. \A i \in Items : stock[i] = initial[i]
      BY <2>3, <2>4, Balance
    <2> QED
      BY <2>1, <2>5
  <1> QED
    BY <1>1, Activity, PTL

(* What is on sale was reserved: while the activity is published and no    *)
(* request takes it offline, the pieces an enabled row still offers and    *)
(* those already sold have left the product's stock.  It needs that the    *)
(* activity is published once, through MySQL, and not edited meanwhile.    *)
THEOREM SaleIsBacked == Spec => []OnSaleIsBacked
  <1>1. ActivityInv => OnSaleIsBacked
    <2> SUFFICES ASSUME ActivityInv, hazards \subseteq SaleHazards, OnSale,
                        NEW i \in Items, i \in Enabled(row)
                 PROVE  row[i].available + sold[i] <= initial[i] - stock[i]
      BY DEF OnSaleIsBacked, SaleHazards, Backed
    <2>1. /\ status = "published" /\ ~ InStep({"release", "offline"}) /\ SaleOK
      BY DEF ActivityInv, OnSale
    <2>2. ~ Offlined
      BY <2>1 DEF SaleOK
    <2>3. row[i].available + sold[i] <= taken[i] /\ returned[i]["rollback"] = 0
      BY <2>1 DEF SaleOK, SoldFits
    <2>4. row[i] \in Row
      BY RowKind DEF ActivityInv, StockInv, TypeOK, AnyRow, Enabled
    <2>5. i \in Items /\ row[i].available \in Nat
      BY <2>4 DEF Row, Enabled
    <2>6. returned[i]["offline"] = 0
      BY <2>2, <2>5, Balance DEF Offlined
    <2> QED
      BY <2>3, <2>5, <2>6, Balance
  <1> QED
    BY <1>1, Activity, PTL

(* From draft to offline no piece is both back in the product's stock and  *)
(* in a buyer's order, where none of the hazards occurs: the rollback of   *)
(* PublishActivity and the release of OfflineActivity give back only what  *)
(* was reserved and not sold.                                              *)
THEOREM NothingFromNowhere == Spec => []NoPieceFromNowhere
  <1>1. ActivityInv => NoPieceFromNowhere
    <2> SUFFICES ASSUME ActivityInv, hazards = {}, NEW i \in Items
                 PROVE  stock[i] + sold[i] <= initial[i]
      BY DEF NoPieceFromNowhere
    <2>1. ReturnFits
      BY DEF ActivityInv, ReleaseOK
    <2>2. sold[i] + returned[i]["offline"] + returned[i]["rollback"] <= taken[i]
      BY <2>1 DEF ReturnFits
    <2> QED
      BY <2>2, Balance
  <1> QED
    BY <1>1, Activity, PTL
=============================================================================
