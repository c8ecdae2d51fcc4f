---------------------------- MODULE ProductStock ----------------------------
(***************************************************************************)
(* The stock of one product as product-rpc keeps it: the column            *)
(* products.stock, the idempotency_records of the two scenes               *)
(* product_stock_reserve and product_stock_release, and the shelf state.   *)
(*                                                                         *)
(* Every operation is one MySQL transaction that first claims its          *)
(* idempotency record and then changes the stock, so each is one step.  A  *)
(* failing transaction rolls the claim back with it; a record that can be  *)
(* read is therefore always a finished one.                                *)
(*                                                                         *)
(* order-rpc and seckill-rpc call these operations; OrderLifecycle and     *)
(* ActivityPublish take them from here by INSTANCE.                        *)
(***************************************************************************)
EXTENDS Naturals, FiniteSets

CONSTANTS
  Keys,          \* idempotency keys the callers form
  InitialStock   \* stock entered when the product was created, a natural

VARIABLES
  stock,      \* products.stock
  onShelf,    \* products.status = 1 and deleted_at IS NULL
  reserved,   \* keys with a product_stock_reserve record
  released    \* keys with a product_stock_release record

stockVars == <<stock, onShelf, reserved, released>>

StockTypeOK ==
  /\ stock \in Nat
  /\ onShelf \in BOOLEAN
  /\ reserved \subseteq Keys
  /\ released \subseteq Keys

StockInit ==
  /\ stock = InitialStock
  /\ onShelf = TRUE
  /\ reserved = {}
  /\ released = {}

-----------------------------------------------------------------------------
(* lockIdempotencyRecordTx finds the record: the stored answer is replayed. *)
ReserveReplayed(k) ==
  /\ k \in reserved
  /\ UNCHANGED stockVars

(* Faulty variant: the UPDATE loses its condition stock >= q.              *)
ReserveUnchecked(k, q) ==
  /\ k \notin reserved
  /\ onShelf
  /\ stock' = stock - q
  /\ reserved' = reserved \cup {k}
  /\ UNCHANGED <<onShelf, released>>

ReserveApplied(k, q) ==
  /\ k \notin reserved
  /\ onShelf
  /\ stock >= q
  /\ stock' = stock - q
  /\ reserved' = reserved \cup {k}
  /\ UNCHANGED <<onShelf, released>>

(* ErrProductNotFound or ErrStockNotEnough: the claim is rolled back. *)
ReserveRefused(k, q) ==
  /\ k \notin reserved
  /\ ~ (onShelf /\ stock >= q)
  /\ UNCHANGED stockVars

ReserveStock(k, q) == ReserveReplayed(k) \/ ReserveApplied(k, q)

ReleaseReplayed(k) ==
  /\ k \in released
  /\ UNCHANGED stockVars

(* releaseStockSQL has no condition on status or deleted_at. *)
ReleaseApplied(k, q) ==
  /\ k \notin released
  /\ stock' = stock + q
  /\ released' = released \cup {k}
  /\ UNCHANGED <<onShelf, reserved>>

ReleaseStock(k, q) == ReleaseReplayed(k) \/ ReleaseApplied(k, q)

(* UpdateProduct toggling the status, and SoftDelete. *)
SetShelf(on) ==
  /\ onShelf' = on
  /\ UNCHANGED <<stock, reserved, released>>
=============================================================================
