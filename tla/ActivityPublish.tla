--------------------------- MODULE ActivityPublish ---------------------------
(***************************************************************************)
(* One seckill activity from draft to offline: the administrators who      *)
(* configure its items, publish it, take it offline and delete it, and the *)
(* buyers who meanwhile draw on its stock.                                 *)
(*                                                                         *)
(* A piece is in one of three stores: product-rpc (products.stock), the    *)
(* item's row in MySQL (available_stock), the item's key in Redis.         *)
(* PublishActivity moves pieces from the first to the others,              *)
(* OfflineActivity moves the unsold ones back.  Both call product-rpc item *)
(* by item under idempotency keys that hold nothing but the activity and   *)
(* the item, read the status at the start and write it at the end without  *)
(* a condition, and share no lock: every step below interleaves with the   *)
(* steps of the other administrators and with the buyers.                  *)
(*                                                                         *)
(* An item is of a product of its own (the table's unique key).  Titles,   *)
(* times, prices and limits are left out; a purchase and a close are one   *)
(* step each here, SeckillPurchase takes them apart.                       *)
(***************************************************************************)
EXTENDS Integers, FiniteSets

CONSTANTS
  Items,         \* ids of activity items
  Admins,        \* administration requests served at once
  MaxQuantity,   \* bound: reserved_stock_total of an item, stock of a product
  MaxPublications,   \* bound: calls of PublishActivity under "republish"
  MaxSales,      \* bound: pieces ever sold
  HazardSets     \* what may befall an activity, one set for each behaviour

(* "republish": PublishActivity is called more than once.                  *)
(* "async": a purchase goes through Kafka, and MySQL is not asked.         *)
(* "sale_overlap": a piece is sold between the reads of OfflineActivity    *)
(* and its end.                                                            *)
(* "edit_overlap": items are edited while the activity is being published. *)
(* "disabled_item": an item is configured but not enabled.                 *)
(* "rpc_error": product-rpc answers with an error, having acted or not.    *)
(* "crash": a request stops between two of its calls.                      *)
(* "status_error": MarkActivityStatus reports an error for an UPDATE that  *)
(* took effect or, at the end of OfflineActivity, for one that did not.    *)
AllHazards == {"republish", "async", "sale_overlap", "edit_overlap",
               "disabled_item", "rpc_error", "crash", "status_error"}

ASSUME ActivityAssumption ==
  /\ MaxQuantity \in Nat \ {0}
  /\ MaxSales \in Nat
  /\ MaxPublications \in Nat \ {0}
  /\ HazardSets \subseteq SUBSET AllHazards

VARIABLES
  hazards,     \* the hazards of this behaviour (never changes)
  status,      \* seckill_activities.status
  onceOnSale,  \* history: the status was "published" at some time
  deleted,     \* deleted_at is set
  row,         \* seckill_activity_items
  initial,     \* stock of each product before the activity (never changes)
  stock,       \* products.stock
  taken,       \* pieces recorded under the key ...:reserve, 0 without record
  returned,    \* the same for ...:reserve:rollback and ...:offline:release
  cacheStock,  \* Redis: the item's stock, NoKey when the key does not exist
  loaded,      \* available_stock in the item cache of a seckill-rpc process
  request,     \* where each administration request is
  published,   \* calls of PublishActivity so far
  sold,        \* pieces in orders that are not closed unfulfilled
  sales        \* pieces ever sold, for MaxSales only

productVars == <<stock, taken, returned>>
activityVars == <<status, onceOnSale, deleted, row>>
buyerVars == <<loaded, sold, sales>>
setting == <<hazards, initial>>
vars == <<setting, activityVars, productVars, cacheStock, request, published,
          buyerVars>>

NoKey == -1
NoRow == [there |-> "never"]
Removed == [there |-> "removed"]
Quantity == 1..MaxQuantity

Row == [there: {"yes"}, total: Quantity, available: Nat, enabled: BOOLEAN]

There(i) == row[i].there = "yes"
Listed == {i \in Items : There(i)}

-----------------------------------------------------------------------------
(* Requests.  list holds the rows as the request first read them, todo the *)
(* items still to be served, done those that were reserved, fresh the      *)
(* available_stock of the rows as read after the reset.                    *)
Idle == [step |-> "idle"]

Steps == {"reserve", "reset", "refresh", "cache", "publish", "rollback",
          "release", "offline"}

Serving == [step: Steps, list: [Items -> Row \cup {NoRow, Removed}],
            todo: SUBSET Items, done: SUBSET Items, failed: BOOLEAN,
            fresh: [Items -> Nat]]

Editing == [step: {"upsert"}, item: Items, total: Quantity, enabled: BOOLEAN]
             \cup [step: {"remove"}, item: Items]

At(a, step) == request[a].step = step
InStep(steps) == \E a \in Admins : request[a].step \in steps
Return(a) == request' = [request EXCEPT ![a] = Idle]

Publishing == {"reserve", "reset", "refresh", "cache", "publish", "rollback"}

TypeOK ==
  /\ hazards \in HazardSets
  /\ status \in {"draft", "published", "offline"}
  /\ onceOnSale \in BOOLEAN
  /\ deleted \in BOOLEAN
  /\ row \in [Items -> Row \cup {NoRow, Removed}]
  /\ initial \in [Items -> Nat]
  /\ stock \in [Items -> Nat]
  /\ taken \in [Items -> Nat]
  /\ returned \in [Items -> [{"rollback", "offline"} -> Nat]]
  /\ cacheStock \in [Items -> Nat \cup {NoKey}]
  /\ loaded \in [Items -> Nat \cup {NoKey}]
  /\ request \in [Admins -> Serving \cup Editing \cup {Idle}]
  /\ published \in Nat
  /\ sold \in [Items -> Nat]
  /\ sales \in Nat

Init ==
  /\ hazards \in HazardSets
  /\ status = "draft"
  /\ onceOnSale = FALSE
  /\ deleted = FALSE
  /\ row = [i \in Items |-> NoRow]
  /\ initial \in [Items -> 0..MaxQuantity]
  /\ stock = initial
  /\ taken = [i \in Items |-> 0]
  /\ returned = [i \in Items |-> [k \in {"rollback", "offline"} |-> 0]]
  /\ cacheStock = [i \in Items |-> NoKey]
  /\ loaded = [i \in Items |-> NoKey]
  /\ request = [a \in Admins |-> Idle]
  /\ published = 0
  /\ sold = [i \in Items |-> 0]
  /\ sales = 0

-----------------------------------------------------------------------------
(* product-rpc: a key that has a record is answered from it, for ever.     *)
(* Faulty variant: the UPDATE loses its condition stock >= q.              *)
ReserveUnchecked(i, q) ==
  \/ taken[i] > 0 /\ UNCHANGED productVars
  \/ /\ taken[i] = 0
     /\ stock' = [stock EXCEPT ![i] = @ - q]
     /\ taken' = [taken EXCEPT ![i] = q]
     /\ UNCHANGED returned

ReserveStock(i, q) ==
  \/ taken[i] > 0 /\ UNCHANGED productVars
  \/ /\ taken[i] = 0
     /\ stock[i] >= q
     /\ stock' = [stock EXCEPT ![i] = @ - q]
     /\ taken' = [taken EXCEPT ![i] = q]
     /\ UNCHANGED returned

ReserveRefused(i, q) ==
  /\ taken[i] = 0
  /\ stock[i] < q
  /\ UNCHANGED productVars

(* Faulty variant: the record is written and not looked for.               *)
ReleaseAgain(i, key, q) ==
  /\ stock' = [stock EXCEPT ![i] = @ + q]
  /\ returned' = [returned EXCEPT ![i][key] = q]
  /\ UNCHANGED taken

ReleaseStock(i, key, q) ==
  IF returned[i][key] > 0 THEN UNCHANGED productVars
  ELSE /\ stock' = [stock EXCEPT ![i] = @ + q]
       /\ returned' = [returned EXCEPT ![i][key] = q]
       /\ UNCHANGED taken

DeleteCacheStock(i) == cacheStock' = [cacheStock EXCEPT ![i] = NoKey]

-----------------------------------------------------------------------------
(* Configuration.  The status is read first, the row written later.        *)
Editable == ~ deleted /\ status # "published"

EditsAllowed == "edit_overlap" \in hazards \/ ~ InStep(Publishing)

UpsertActivityItem(a) ==
  /\ At(a, "idle")
  /\ Editable
  /\ EditsAllowed
  /\ \E i \in Items, q \in Quantity,
        e \in {TRUE} \cup IF "disabled_item" \in hazards THEN {FALSE} ELSE {} :
       /\ row[i] # Removed
       /\ request' = [request EXCEPT ![a] =
            [step |-> "upsert", item |-> i, total |-> q, enabled |-> e]]
  /\ UNCHANGED <<activityVars, setting, productVars, cacheStock, published,
                 buyerVars>>

(* insertItemSQL offers the whole reservation; updateItemSQL keeps         *)
(* available_stock.  An update of a removed item finds no row.             *)
StoreItem(a) ==
  LET r == request[a] IN
  /\ At(a, "upsert")
  /\ row' = IF row[r.item] = Removed THEN row
            ELSE [row EXCEPT ![r.item] =
                    [there |-> "yes", total |-> r.total, enabled |-> r.enabled,
                     available |-> IF There(r.item) THEN row[r.item].available
                                   ELSE r.total]]
  /\ Return(a)
  /\ UNCHANGED <<status, onceOnSale, deleted, setting, productVars, cacheStock,
                 published, buyerVars>>

RemoveActivityItem(a) ==
  /\ At(a, "idle")
  /\ Editable
  /\ EditsAllowed
  /\ \E i \in Listed :
       request' = [request EXCEPT ![a] = [step |-> "remove", item |-> i]]
  /\ UNCHANGED <<activityVars, setting, productVars, cacheStock, published,
                 buyerVars>>

DropItem(a) ==
  /\ At(a, "remove")
  /\ row' = [row EXCEPT ![request[a].item] = Removed]
  /\ Return(a)
  /\ UNCHANGED <<status, onceOnSale, deleted, setting, productVars, cacheStock,
                 published, buyerVars>>

(* Deleting takes nothing back, whatever the status.                       *)
DeleteActivity ==
  /\ ~ deleted
  /\ deleted' = TRUE
  /\ status' = "offline"
  /\ UNCHANGED <<onceOnSale, row, setting, productVars, cacheStock, request,
                 published, buyerVars>>

-----------------------------------------------------------------------------
(* PublishActivity.                                                        *)
Enabled(list) == {i \in Items : list[i].there = "yes" /\ list[i].enabled}

PublishActivity(a) ==
  /\ At(a, "idle")
  /\ Editable
  /\ Enabled(row) # {}
  /\ published < IF "republish" \in hazards THEN MaxPublications ELSE 1
  /\ "edit_overlap" \in hazards \/ ~ InStep({"upsert", "remove"})
  /\ published' = published + 1
  /\ request' = [request EXCEPT ![a] =
       [step |-> "reserve", list |-> row, todo |-> Enabled(row), done |-> {},
        failed |-> FALSE, fresh |-> [i \in Items |-> 0]]]
  /\ UNCHANGED <<activityVars, setting, productVars, cacheStock, buyerVars>>

Goto(a, step, items) ==
  request' = [request EXCEPT ![a] = [@ EXCEPT !.step = step, !.todo = items]]

(* Faulty variant: published is set before the status is written.          *)
RollBackNothing(a) == Goto(a, "rollback", {})

RollBackFrom(a) == Goto(a, "rollback", request[a].done)

ReserveNext(a, i) ==
  LET r == request[a] IN
  request' = [request EXCEPT ![a] =
    [r EXCEPT !.todo = r.todo \ {i}, !.done = r.done \cup {i},
              !.step = IF r.todo = {i} THEN "reset" ELSE "reserve"]]

(* Faulty variant: an item that is refused is skipped.                     *)
ReserveItemOrSkip(a, i) ==
  LET q == request[a].list[i].total IN
  /\ At(a, "reserve")
  /\ i \in request[a].todo
  /\ \/ ReserveStock(i, q)
     \/ ReserveRefused(i, q)
  /\ ReserveNext(a, i)
  /\ UNCHANGED <<activityVars, setting, cacheStock, published, buyerVars>>

ReserveItem(a, i) ==
  LET q == request[a].list[i].total IN
  /\ At(a, "reserve")
  /\ i \in request[a].todo
  /\ \/ /\ ReserveStock(i, q)
        /\ ReserveNext(a, i)
     \/ ReserveRefused(i, q) /\ RollBackFrom(a)
     \/ /\ "rpc_error" \in hazards
        /\ UNCHANGED productVars \/ ReserveStock(i, q)
        /\ RollBackFrom(a)
  /\ UNCHANGED <<activityVars, setting, cacheStock, published, buyerVars>>

ResetRow(r) == IF r.there = "yes" THEN [r EXCEPT !.available = r.total] ELSE r

ResetAvailableStockByReserved(a) ==
  /\ At(a, "reset")
  /\ row' = [i \in Items |-> ResetRow(row[i])]
  /\ Goto(a, "refresh", {})
  /\ UNCHANGED <<status, onceOnSale, deleted, setting, productVars, cacheStock,
                 published, buyerVars>>

RefreshItems(a) ==
  /\ At(a, "refresh")
  /\ request' = [request EXCEPT ![a] =
       [@ EXCEPT !.step = IF Enabled(row) = {} THEN "publish" ELSE "cache",
                 !.todo = Enabled(row),
                 !.fresh = [i \in Items |->
                              IF There(i) THEN row[i].available ELSE 0]]]
  /\ UNCHANGED <<activityVars, setting, productVars, cacheStock, published,
                 buyerVars>>

SetCacheStock(a, i) ==
  LET r == request[a] IN
  /\ At(a, "cache")
  /\ i \in r.todo
  /\ cacheStock' = [cacheStock EXCEPT ![i] = r.fresh[i]]
  /\ Goto(a, IF r.todo = {i} THEN "publish" ELSE "cache", r.todo \ {i})
  /\ UNCHANGED <<activityVars, setting, productVars, published, buyerVars>>

SetPublished == status' = "published" /\ onceOnSale' = TRUE

MarkPublished(a) ==
  /\ At(a, "publish")
  /\ IF deleted THEN RollBackFrom(a) /\ UNCHANGED <<status, onceOnSale>>
                ELSE Return(a) /\ SetPublished
  /\ UNCHANGED <<deleted, row, setting, productVars, cacheStock, published,
                 buyerVars>>

(* A statement on seckill-rpc's own tables is reported as failed.  A       *)
(* deadline or a lost connection may hide that it took effect: the rows    *)
(* are reset, or the activity is on sale while its stock is given back.    *)
DatabaseError(a) ==
  /\ request[a].step \in {"reset", "refresh", "publish"}
  /\ RollBackFrom(a)
  /\ \/ UNCHANGED activityVars
     \/ /\ At(a, "reset")
        /\ row' = [i \in Items |-> ResetRow(row[i])]
        /\ UNCHANGED <<status, onceOnSale, deleted>>
     \/ /\ At(a, "publish")
        /\ "status_error" \in hazards /\ ~ deleted
        /\ SetPublished
        /\ UNCHANGED <<deleted, row>>
  /\ UNCHANGED <<setting, productVars, cacheStock, published, buyerVars>>

RollBackItem(a, i) ==
  /\ At(a, "rollback")
  /\ i \in request[a].todo
  /\ \/ ReleaseStock(i, "rollback", request[a].list[i].total)
     \/ "rpc_error" \in hazards /\ UNCHANGED productVars
  /\ DeleteCacheStock(i)
  /\ Goto(a, "rollback", request[a].todo \ {i})
  /\ UNCHANGED <<activityVars, setting, published, buyerVars>>

RollBackEnds(a) ==
  /\ At(a, "rollback")
  /\ request[a].todo = {}
  /\ Return(a)
  /\ UNCHANGED <<activityVars, setting, productVars, cacheStock, published,
                 buyerVars>>

-----------------------------------------------------------------------------
(* OfflineActivity.  An activity that is not published is only marked.     *)
OfflineActivity(a) ==
  LET items == IF status = "published" THEN Listed ELSE {} IN
  /\ At(a, "idle")
  /\ ~ deleted
  /\ request' = [request EXCEPT ![a] =
       [step |-> IF items = {} THEN "offline" ELSE "release", list |-> row,
        todo |-> items, done |-> {}, failed |-> FALSE,
        fresh |-> [i \in Items |-> 0]]]
  /\ UNCHANGED <<activityVars, setting, productVars, cacheStock, published,
                 buyerVars>>

ReleaseNext(a, i, failed) ==
  LET r == request[a] IN
  request' = [request EXCEPT ![a] =
    [r EXCEPT !.todo = r.todo \ {i}, !.failed = r.failed \/ failed,
              !.step = IF r.todo = {i} THEN "offline" ELSE "release"]]

(* Faulty variant: the whole reservation is given back.                    *)
ReleaseReservedTotal(a, i) ==
  /\ At(a, "release")
  /\ i \in request[a].todo
  /\ ReleaseStock(i, "offline", request[a].list[i].total)
  /\ DeleteCacheStock(i)
  /\ ReleaseNext(a, i, FALSE)
  /\ UNCHANGED <<activityVars, setting, published, buyerVars>>

ReleaseItem(a, i) ==
  LET q == request[a].list[i].available IN
  /\ At(a, "release")
  /\ i \in request[a].todo
  /\ \/ /\ IF q > 0 THEN ReleaseStock(i, "offline", q)
                    ELSE UNCHANGED productVars
        /\ DeleteCacheStock(i)
        /\ ReleaseNext(a, i, FALSE)
     \/ /\ "rpc_error" \in hazards
        /\ q > 0
        /\ UNCHANGED productVars \/ ReleaseStock(i, "offline", q)
        /\ UNCHANGED cacheStock
        /\ ReleaseNext(a, i, TRUE)
  /\ UNCHANGED <<activityVars, setting, published, buyerVars>>

MarkOffline(a) ==
  /\ At(a, "offline")
  /\ \/ status' = IF request[a].failed \/ deleted THEN status ELSE "offline"
     \/ "status_error" \in hazards /\ UNCHANGED status
  /\ Return(a)
  /\ UNCHANGED <<onceOnSale, deleted, row, setting, productVars, cacheStock,
                 published, buyerVars>>

Crash(a) ==
  /\ "crash" \in hazards
  /\ ~ At(a, "idle")
  /\ Return(a)
  /\ UNCHANGED <<activityVars, setting, productVars, cacheStock, published,
                 buyerVars>>

-----------------------------------------------------------------------------
(* Buyers.                                                                 *)
LoadItem(i) ==
  /\ There(i)
  /\ loaded' = [loaded EXCEPT ![i] = row[i].available]
  /\ UNCHANGED <<activityVars, setting, productVars, cacheStock, request,
                 published, sold, sales>>

(* warmCacheStock: SETNX with the number of the loaded row.                *)
WarmCacheStock(i) ==
  /\ loaded[i] # NoKey
  /\ cacheStock[i] = NoKey
  /\ cacheStock' = [cacheStock EXCEPT ![i] = loaded[i]]
  /\ UNCHANGED <<activityVars, setting, productVars, request, published,
                 buyerVars>>

SalesAllowed == "sale_overlap" \in hazards \/ ~ InStep({"release", "offline"})

Sold(i) ==
  /\ sales < MaxSales
  /\ sold' = [sold EXCEPT ![i] = @ + 1]
  /\ sales' = sales + 1
  /\ UNCHANGED loaded

(* The piece is taken in Redis and the order goes to Kafka.                *)
SellAsync(i) ==
  /\ "async" \in hazards
  /\ SalesAllowed
  /\ loaded[i] # NoKey
  /\ cacheStock[i] > 0
  /\ cacheStock' = [cacheStock EXCEPT ![i] = @ - 1]
  /\ Sold(i)
  /\ UNCHANGED <<activityVars, setting, productVars, request, published>>

(* The piece is taken in Redis, or Redis has no key, and in MySQL, whose   *)
(* UPDATE asks for a published activity and an enabled item.               *)
SellSync(i) ==
  /\ SalesAllowed
  /\ cacheStock[i] # 0
  /\ status = "published" /\ ~ deleted
  /\ There(i) /\ row[i].enabled /\ row[i].available > 0
  /\ row' = [row EXCEPT ![i].available = @ - 1]
  /\ cacheStock' = [cacheStock EXCEPT ![i] = IF @ = NoKey THEN NoKey ELSE @ - 1]
  /\ Sold(i)
  /\ UNCHANGED <<status, onceOnSale, deleted, setting, productVars, request,
                 published>>

(* An order is closed unfulfilled; of an item that is gone, nothing is     *)
(* put back.                                                               *)
CloseOrder(i) ==
  /\ sold[i] > 0
  /\ sold' = [sold EXCEPT ![i] = @ - 1]
  /\ IF There(i)
     THEN /\ row' = [row EXCEPT ![i].available = @ + 1]
          /\ cacheStock' = [cacheStock EXCEPT ![i] =
                              IF @ = NoKey THEN 1 ELSE @ + 1]
     ELSE UNCHANGED <<row, cacheStock>>
  /\ UNCHANGED <<status, onceOnSale, deleted, setting, productVars, request,
                 published, loaded, sales>>

-----------------------------------------------------------------------------
Administer(a) ==
  \/ UpsertActivityItem(a) \/ StoreItem(a)
  \/ RemoveActivityItem(a) \/ DropItem(a)
  \/ PublishActivity(a)
  \/ ResetAvailableStockByReserved(a) \/ RefreshItems(a)
  \/ MarkPublished(a) \/ DatabaseError(a) \/ RollBackEnds(a)
  \/ OfflineActivity(a) \/ MarkOffline(a)
  \/ Crash(a)
  \/ \E i \in Items : \/ ReserveItem(a, i) \/ SetCacheStock(a, i)
                      \/ RollBackItem(a, i) \/ ReleaseItem(a, i)

Next ==
  \/ DeleteActivity
  \/ \E a \in Admins : Administer(a)
  \/ \E i \in Items : \/ LoadItem(i) \/ WarmCacheStock(i)
                      \/ SellAsync(i) \/ SellSync(i) \/ CloseOrder(i)

Spec == Init /\ [][Next]_vars

-----------------------------------------------------------------------------
(* The product's stock is what it was, less what was recorded as reserved, *)
(* plus what was recorded as given back: a repeated call moves nothing.    *)
ProductBalance ==
  \A i \in Items :
    stock[i] = initial[i] - taken[i] + returned[i]["rollback"]
                 + returned[i]["offline"]

(* No piece is both back in the product's stock and in an order: what      *)
(* OfflineActivity and the rollback of PublishActivity release was not     *)
(* sold.  Each of the hazards alone breaks this, and "status_error" in two *)
(* ways: a publication that is reported as failed gives its stock back     *)
(* while MySQL sells it, and an activity that could not be marked offline  *)
(* sells on what was released.                                             *)
NoPieceFromNowhere ==
  hazards = {} => \A i \in Items : stock[i] + sold[i] <= initial[i]

(* PublishActivity reserves what it puts on sale: while the activity is    *)
(* published and is not being taken offline, the pieces on offer and those *)
(* sold have left the product's stock.  It takes that every UPDATE of the  *)
(* status is reported as what it did (no "status_error"), that product-rpc *)
(* answers and that nobody edits or publishes again meanwhile.             *)
Backed(i) ==
  i \in Enabled(row) => row[i].available + sold[i] <= initial[i] - stock[i]

OnSale == status = "published" /\ ~ InStep({"release", "offline"})

OnSaleIsBacked ==
  hazards \subseteq {"sale_overlap", "disabled_item"} /\ OnSale =>
    \A i \in Items : Backed(i)

(* A publication that failed (for the second item, at a statement, or      *)
(* because the activity was deleted meanwhile) has given back what it had  *)
(* reserved: an activity whose status was never "published" holds no       *)
(* stock, be it a draft, taken offline or deleted.  Of an UPDATE of the    *)
(* status that took effect and was reported as failed it says nothing:     *)
(* that activity was on sale.                                              *)
FailedPublishReturnsStock ==
  /\ hazards \subseteq {"async", "sale_overlap", "edit_overlap",
                         "disabled_item", "status_error"}
  /\ published > 0 /\ ~ onceOnSale /\ ~ InStep(Publishing)
  => stock = initial

(* The same of an activity published more than once, which the code does   *)
(* not keep: the second reservation is answered from the record of the     *)
(* first, and available_stock is reset all the same.                       *)
PublishReserves ==
  hazards \subseteq {"republish"} /\ OnSale => \A i \in Items : Backed(i)
=============================================================================
