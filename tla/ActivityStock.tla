---------------------------- MODULE ActivityStock ----------------------------
(***************************************************************************)
(* The stock of one activity item as seckill-rpc keeps it, twice: in Redis *)
(* (purchase_cache.go), where a purchase is decided, and in MySQL          *)
(* (purchase_repo.go), where every change has a line in                    *)
(* seckill_stock_ledger.  One operator per Lua script and per transaction; *)
(* both are atomic.  The two stores are never written in one step.         *)
(*                                                                         *)
(* A request is what an order number is built from: a user, an item and an *)
(* idempotency key chosen by the client.  Redis keys name the request; the *)
(* ledger's unique key holds the idempotency key alone.                    *)
(*                                                                         *)
(* Every purchase is of one piece.  The user limit is that of mode 0       *)
(* (pieces bought in the activity).  sold_stock, which nothing reads back, *)
(* is left out.                                                            *)
(***************************************************************************)
EXTENDS Integers, FiniteSets

CONSTANTS
  Requests,      \* purchase requests
  UserOf,        \* [Requests -> users]
  KeyOf,         \* [Requests -> idempotency keys]
  UserLimitQty   \* user_limit_qty; 0 is no limit

VARIABLES
  cacheStock,      \* Redis: item stock, NoKey when the key does not exist
  bought,          \* Redis: pieces a user bought in the activity
  requestKeys,     \* Redis: request keys, living 60 s
  releaseTokens,   \* Redis: release tokens, living 7 days
  closeKeys,       \* Redis: close-release keys, living 7 days
  available,       \* MySQL: seckill_activity_items.available_stock
  ledger           \* MySQL: keys of seckill_stock_ledger

cacheVars == <<cacheStock, bought, requestKeys, releaseTokens, closeKeys>>
dbVars == <<available, ledger>>
stockVars == <<cacheVars, dbVars>>

NoKey == -1
Users == {UserOf[r] : r \in Requests}

CompensateSuffixes == {"no_token", "order_overloaded", "order_fail"}

LedgerKeys ==
  {KeyOf[r] : r \in Requests} \X (CompensateSuffixes \cup {"reserve"})
    \cup Requests \X {"close_release"}

StockTypeOK ==
  /\ cacheStock \in Nat \cup {NoKey}
  /\ bought \in [Users -> Nat]
  /\ requestKeys \subseteq Requests
  /\ releaseTokens \subseteq Requests
  /\ closeKeys \subseteq Requests
  /\ available \in Nat
  /\ ledger \subseteq LedgerKeys

StockInit(cached, inDB) ==
  /\ cacheStock = cached
  /\ bought = [u \in Users |-> 0]
  /\ requestKeys = {}
  /\ releaseTokens = {}
  /\ closeKeys = {}
  /\ available = inDB
  /\ ledger = {}

-----------------------------------------------------------------------------
(* Redis.                                                                  *)

LimitExceeded(r) == UserLimitQty > 0 /\ bought[UserOf[r]] + 1 > UserLimitQty

(* reservePurchaseScript: a live request key is a duplicate.               *)
CacheDuplicate(r) == r \in requestKeys /\ UNCHANGED cacheVars

CacheRefused(r) ==
  /\ r \notin requestKeys
  /\ cacheStock = 0 \/ (cacheStock > 0 /\ LimitExceeded(r))
  /\ UNCHANGED cacheVars

(* Faulty variant: the pieces a user bought are checked but not counted.   *)
CacheReservedUncounted(r) ==
  /\ r \notin requestKeys
  /\ cacheStock > 0
  /\ ~ LimitExceeded(r)
  /\ cacheStock' = cacheStock - 1
  /\ requestKeys' = requestKeys \cup {r}
  /\ releaseTokens' = releaseTokens \cup {r}
  /\ UNCHANGED <<bought, closeKeys>>

CacheReserved(r) ==
  /\ r \notin requestKeys
  /\ cacheStock > 0
  /\ ~ LimitExceeded(r)
  /\ cacheStock' = cacheStock - 1
  /\ bought' = IF UserLimitQty > 0 THEN [bought EXCEPT ![UserOf[r]] = @ + 1]
               ELSE bought
  /\ requestKeys' = requestKeys \cup {r}
  /\ releaseTokens' = releaseTokens \cup {r}
  /\ UNCHANGED closeKeys

(* INCRBY creates a missing key; the counter of the user stops at zero.    *)
Credit(r) ==
  /\ cacheStock' = IF cacheStock = NoKey THEN 1 ELSE cacheStock + 1
  /\ bought' = [bought EXCEPT ![UserOf[r]] = IF @ > 0 THEN @ - 1 ELSE 0]

(* Faulty variant: the key is left in place.                               *)
RollbackKeepingKey(r) ==
  IF r \in requestKeys
  THEN Credit(r) /\ UNCHANGED <<requestKeys, releaseTokens, closeKeys>>
  ELSE UNCHANGED cacheVars

(* rollbackReserveScript on the request key: the purchase itself gives up. *)
RollbackReserve(r) ==
  IF r \in requestKeys
  THEN /\ Credit(r)
       /\ requestKeys' = requestKeys \ {r}
       /\ UNCHANGED <<releaseTokens, closeKeys>>
  ELSE UNCHANGED cacheVars

(* The same script on the release token: the compensate consumer.          *)
RollbackByReleaseToken(r) ==
  IF r \in releaseTokens
  THEN /\ Credit(r)
       /\ releaseTokens' = releaseTokens \ {r}
       /\ UNCHANGED <<requestKeys, closeKeys>>
  ELSE UNCHANGED cacheVars

(* releaseByCloseScript. *)
ReleaseByClose(r) ==
  IF r \notin closeKeys
  THEN /\ Credit(r)
       /\ closeKeys' = closeKeys \cup {r}
       /\ UNCHANGED <<requestKeys, releaseTokens>>
  ELSE UNCHANGED cacheVars

RequestKeyExpires(r) ==
  /\ r \in requestKeys
  /\ requestKeys' = requestKeys \ {r}
  /\ UNCHANGED <<cacheStock, bought, releaseTokens, closeKeys>>

-----------------------------------------------------------------------------
(* MySQL.                                                                  *)

ReserveKey(r) == <<KeyOf[r], "reserve">>
CloseKey(r) == <<r, "close_release">>

(* ErrIdempotencyConflict. *)
ReserveConflict(r) == ReserveKey(r) \in ledger /\ UNCHANGED dbVars

ReservePurchase(r, onSale) ==
  /\ ReserveKey(r) \notin ledger
  /\ onSale
  /\ available > 0
  /\ available' = available - 1
  /\ ledger' = ledger \cup {ReserveKey(r)}

ReserveMissed(r, onSale) ==
  /\ ReserveKey(r) \notin ledger
  /\ ~ (onSale /\ available > 0)
  /\ UNCHANGED dbVars

(* A claim of a ledger key; a key claimed before changes nothing.          *)
ReleaseUnder(k) ==
  IF k \in ledger THEN UNCHANGED dbVars
  ELSE /\ available' = available + 1
       /\ ledger' = ledger \cup {k}

CompensateReleasePurchase(r, suffix) == ReleaseUnder(<<KeyOf[r], suffix>>)

ReleasePurchaseByOrder(r) == ReleaseUnder(CloseKey(r))
=============================================================================
