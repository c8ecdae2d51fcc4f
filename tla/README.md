# FlashSale: a formal model

TLA+ specifications of the parts of FlashSale where several services, jobs and
stores must agree: the life of an order and its stock, the purchase of a
flash-sale item through Redis, Kafka, MySQL and order-rpc, the publication of an
activity, the feed of order states, the sessions of administrators and the log
stream of a job. TLC checks the specifications on small instances; TLAPS proves
the safety properties for every size. Paths below are relative to the repository root without `src/`.

1. [The system](#1-the-system)
2. [Modules and how they follow the code](#2-modules-and-how-they-follow-the-code)
3. [Runs, bounds and what they show](#3-runs-bounds-and-what-they-show)
4. [Fairness](#4-fairness)
5. [Proofs](#5-proofs)
6. [Where code and comments disagree](#6-where-code-and-comments-disagree)
7. [What is abstracted, what is left out](#7-what-is-abstracted-what-is-left-out)
8. [Plan](#8-plan)

`PROJECT.json` lists the components, the runs with their properties, a mutant
for each property (a plausible bug of the code the property catches), the
source lines of every definition, the findings, the hazards and the theorems.

## 1. The system

| Component | State | Operations | Talks to |
| --- | --- | --- | --- |
| order-rpc, RPCs and timeout job | `orders`, `order_events` (MySQL) | create, cancel, pay, review, ship, confirm; every minute: close unpaid and unreviewed orders, retry stock releases, finish refunds, receive | product-rpc (reserve, release), Kafka order states |
| order-rpc, create consumer | Kafka offsets | creates seckill orders from `seckill_purchase_create`, asks for compensation | Kafka, `orders` |
| product-rpc | `products.stock`, `idempotency_records` | reserve and release under an idempotency key, edit, shelf | called by order-rpc and seckill-rpc |
| seckill-rpc, purchase | Redis stock, counters and keys; `seckill_activity_items`, `seckill_stock_ledger` | Purchase, compensate consumer, order-state consumer | Redis, MySQL, Kafka, order-rpc |
| seckill-rpc, administration | `seckill_activities` and items | create, publish, offline, delete, warm-up | product-rpc, Redis |
| seckill-rpc, workers | bounded queues in memory, caches | order links, traffic, item cache | MySQL |
| admin-rpc | administrators, roles, refresh tokens | login, lock-out, refresh, manage accounts | MySQL |
| user-rpc | users, addresses | register, login, profile | MySQL |
| gateways, media-store | none of their own, a directory | HTTP to RPC, rate limit; upload, list, delete | the RPC services |
| ops-control | jobs, subscribers, history (memory and files) | run, stream, cancel a job | containers, scripts |

What is hard in it, and what correctness means:

* **Order against order.** RPC handlers and the timeout job race for one row.
  Each reads the order, decides, and only the conditional `UPDATE` of the
  repository settles who won. Correct: one way through the states, one reason
  of closing, money back exactly for paid abandoned orders, goods out only for
  paid reviewed ones.
* **Three steps of one close.** The row is closed, then the unit released by
  RPC, then `stock_released` set, then an event emitted; each may fail and the
  retry job repairs. Correct: the unit goes back once, under the key of the
  reason the order was closed for, and in the end it does go back.
* **Two stocks of one item.** A purchase is decided in Redis; MySQL keeps its own
  count with a ledger, used when Kafka or Redis fails. The two are never written
  together and a sale over Kafka does not touch MySQL. Correct: never more live
  orders than pieces, no piece put back while an order counts on it, what was
  taken under a key is given back once.
* **At least once.** Create messages, compensations and order states are
  delivered again after crashes and lost commits, without order between topics.
  Correct: replays change nothing, and an accepted purchase is settled.
* **Administration.** Publish and offline move stock item by item between three
  stores and write the status at the end, without a condition. Correct: the
  product's stock moves by what the idempotency records say, what is on sale was
  reserved, a publication that fails gives back what it took.
* **States out of order.** Events of one order come from several emitters through
  bounded queues in memory and a balancer that ignores keys. Correct: no link
  shows a state the order was not in, an event delivered twice counts once, and
  without a failure nothing is missing.
* **Accounts.** admin-rpc reads a row, decides, and writes later; logins, refreshes
  and password changes overlap. Correct: a session has one live refresh token, an
  ended session stays ended, a new password ends the older sessions, and the count
  that locks an account is the number of failures.
* **Jobs.** One goroutine publishes to channels that browsers open and leave while
  it sends; the log, the snapshot and the channel are read apart. Correct: nothing
  is sent on a closed channel, a browser that follows has no gap, a job reported
  as done is on disk with all its output.

## 2. Modules and how they follow the code

| Module | Models | Role |
| --- | --- | --- |
| `ProductStock` | `apps/product/rpc/internal/repository/mysql_product_repository.go` | operators for the stock transactions, instantiated by other modules |
| `OrderLifecycle` | `apps/order/rpc/internal/logic/*_logic.go`, `stock_helper.go`, `repository/mysql_order_repository.go` | handlers and jobs over the orders table and `ProductStock` |
| `OrderPromise` | what order-rpc promises for one purchase | abstract specification `OrderLifecycle` refines |
| `ActivityStock` | `apps/seckill/rpc/internal/logic/purchase_cache.go`, `repository/purchase_repo.go` | one operator per Lua script and per transaction |
| `SeckillPurchase` | `purchase_logic.go`, both consumers of seckill-rpc, `apps/order/.../purchase_create_consumer.go` | purchases, topics and consumers over `ActivityStock` |
| `SalePromise` | what the sale of an item promises | abstract specification `SeckillPurchase` refines without faults |
| `ActivityPublish` | `apps/seckill/rpc/internal/logic/activity_logic.go`, the repository of activities, item cache and warm-up | administrators and buyers over three stores of stock |
| `OrderStateFeed` | `apps/order/rpc/internal/svc` (event queue), `order_state_consumer.go`, `order_link_repo.go`, `traffic_repo.go`, completed window | emitters, workers, topic, consumers |
| `AdminSessions` | `apps/admin/rpc/internal/logic/auth_logic.go`, `admin_management_logic.go`, `repository/mysql_admin_repository.go` | calls on the tables of accounts and refresh tokens |
| `JobStream` | `ops/backend/scheduler/scheduler.go`, `executor/executor.go`, the stream handler, the page's `EventSource` | goroutines of one job and its viewers |
| `MC...` (six) | | model values and symmetry for TLC |
| `OrderLifecycle_proofs`, `OrderPromise_proofs`, `SeckillPurchase_proofs`, `PurchaseStock_proofs`, `ActivityPublish_proofs`, `OrderStateFeed_proofs`, `AdminSessions_proofs`, `JobStream_proofs` | | theorems |

How the modules meet: `OrderLifecycle` and `SeckillPurchase` instantiate
`ProductStock` and `ActivityStock`. `OrderLifecycle` refines `OrderPromise`, and
`SeckillPurchase` without faults refines `SalePromise`.
The others meet at a boundary that each states for itself: `SeckillPurchase` takes
from `OrderLifecycle` that a close may or may not be announced; `OrderStateFeed`
takes from it the order in which a row changes (`Follows`); `ActivityPublish`
takes a purchase and a close as one step each, which `SeckillPurchase` takes
apart while the activity stays published.

**ProductStock.** `stock` is the column, `reserved` and `released` are the
idempotency records of the two scenes, `onShelf` is `status = 1` of a row that is
not deleted. Claiming the record and changing the number are one transaction,
hence one step; a rolled back claim leaves nothing behind, which is why a record
that can be read is a finished one.

**OrderLifecycle.** `order` is the table, `session` says at which step each
handler is (`reserve`, `create`, `compensate`, `update`, `release`, `mark`,
`emit`), `feed` collects what was handed to the event queue. A handler reads and
checks the order (`CancelOrder`, `HandlePayTimeout`, ...), executes its
conditional update (`ExecWithEvent` with the `WHERE` of the SQL), releases, marks
and emits. Any other handler may run between two of these steps, and
`Fail` may stop a handler anywhere: an error, a cancelled context, a killed
process. A call that took effect though its caller saw an error is the step
followed by `Fail`; the one place where the code *does* something on such an
error, the compensation of `CreateOrder`, is `InsertOrderFailed` with
`AmbiguousCommit`.

**OrderPromise.** An order goes from open over review and shipment to completed,
or is abandoned; money is taken, then owed and returned; the unit is held, then
returned. The mapping (`PhaseOf`, `MoneyOf`, `UnitOf`) reads phase and money off
the row and the unit off the idempotency records of product-rpc.

**ActivityStock.** One variable per kind of Redis key (`cacheStock`, `bought`,
`requestKeys`, `releaseTokens`, `closeKeys`) and two for MySQL (`available`,
`ledger`). Redis keys name the whole request; the ledger's unique key for a
reserve or a compensation is the client's idempotency key with a suffix, and for
a close the order's release id. `Credit` follows the scripts: `INCRBY` creates a
missing key and the counter of the user stops at zero.

**SeckillPurchase.** An attempt is a call of `Purchase`: `cache` (reserve
script), `publish` (Kafka), `db` (the transaction that follows a failed publish, a
duplicate or a Redis error), `order` (the RPC, with the order token and slot),
`replay` (the second RPC after a conflict), `compensate`, `rollback`. The flags
`cached` and `conflict` are `cacheReserved` and `reserveConflict` of the code.
The consumers follow their handlers; `Handled` commits the offset or loses the
commit. `OrderPending` covers the errors after which the code leaves everything
as it is since the order may exist. `CloseOrder` stands for every close of
`OrderLifecycle` whose event makes seckill-rpc release; the event may be lost,
as `order_unannounced` shows it can.

**SalePromise.** A piece is on offer (`free`) or held; a buyer takes one within the
limit, an order is sold out of a held piece and keeps it until it is closed, and
only what is held goes back on offer. Pieces may be lost, but not those of live
orders. The mapping reads `free` off Redis and finds the holders (`Pieces`): a
request has a `Base` piece if its order is live, or closed and not yet given back
in Redis, or may still be made (a request key, a message, a handler that has been
to Redis), and an `Extra` one while a later try can still roll back what it took
although an order or a message was there.

**ActivityPublish.** `row` is the item in MySQL, `stock`, `taken` and `returned`
product-rpc with its records for the keys `...:reserve`, `...:rollback` and
`...:offline:release`, `cacheStock` the Redis key, `loaded` the item a process of
seckill-rpc has cached, of any age. `PublishActivity` reads the activity and then
takes one step per call: `ReserveItem` for each item, `ResetAvailableStockByReserved`,
`RefreshItems`, `SetCacheStock`, `MarkPublished`; an error leads to
`RollBackItem` for what was reserved. `DatabaseError` is a statement reported as
failed, whether it took effect or not: the rows may be reset all the same, and under
"status_error" the activity may be published while its stock is given back, or not
marked offline after its stock was. `onceOnSale`, which is not in the program, remembers
that the status was "published". `OfflineActivity` reads the items once and
releases what it read (`ReleaseItem`). Buyers (`SellAsync`, `SellSync`,
`CloseOrder`, `WarmCacheStock`) run between any two of these steps.

**OrderStateFeed.** `emitting` are the events handlers have yet to hand over,
`queue` and `worker` the bounded queue of order-rpc and its workers, a handler
that finds it full publishes itself. The consumer's handler is the steps `pay`,
`pay_agg`, `close`, `close_agg` and `window`: the link, the raw row that claims
an event, the count and the sample of a completed order are statements of their
own, and any of them may fail or be the last one before a stop.

**AdminSessions.** A call is at the statement it executes next; what it read is in
`request`. `RotateRefreshToken` is the transaction that revokes a token and inserts
its successor. `streak` is what the code should have counted and is not in the
program.

**JobStream.** `events` is the channel between executor and scheduler; the handlers
of the scheduler are written as the sequences of calls they make (`StartCalls`,
...), each call a step. `outputs` are the channels `publish` copied under the lock
and has yet to send to. A viewer subscribes, gets a snapshot, checks the status
and forwards its channel, or leaves at any moment.

**Hazards.** The four modules above have a constant `HazardSets`, a set of sets:
each behaviour picks one of them and keeps it (`hazards`). A property names the
hazards it survives in its antecedent, so one run shows both that it holds where
the code keeps it and that nothing else breaks under the others.

## 3. Runs, bounds and what they show

| Run | Instance | Shows |
| --- | --- | --- |
| `order_normal` | 2 orders of `CreateOrder` (one above the review threshold), of either source, 2 RPC handlers, 1 job, 1 unit | all safety properties of the order service, and `KeepsPromise`: it refines `OrderPromise` |
| `order_seckill` | 1 seckill order, 2 handlers, 1 job | `FeedNeverAhead`: seckill-rpc is never told a status or reason the order has not reached |
| `order_live` | 1 large order of source normal, 1 handler, 1 job, fairness | refunds are paid, units return, no order waits for ever, every abandoned order is flagged |
| `purchase` | 2 requests of one user with limit 1, 2 pieces, 2 attempts, 2 tries each, 1 consumer | `CacheCoversOrders`, `LimitRespected` and `KeepsSale` (it refines `SalePromise`) through crashes, failed publishes, redelivery and expiry of the request key |
| `purchase_faults` | 1 request, 2 overlapping attempts, 2 tries, 1 consumer, every fault | the ledger is compensated once, closes release MySQL first, `AcceptedIsSettled` |
| `activity` | 2 items, 2 administrators, quantity 1, 2 publications, 1 sale, 8 hazard sets | the product's stock is accounted for under all of them; no piece from nowhere, what is on sale is reserved, a failed publication gives back, each under the hazards it names |
| `feed` | 1 order, 1 worker, 2 consumers, queue of 1, 2 seconds, 1 failure, fairness | links never ahead, counts at most once, exact when nothing failed, and the feed settles |
| `sessions` | 1 account, 3 tokens, 2 calls at once, lock after 2 failures, 4 hazard sets | one live token, ended sessions stay ended, passwords end sessions, failures counted |
| `jobs` | 2 viewers, 2 lines, channels of 2, 4 hazard sets, fairness | no send on a closed channel, no gap, all output logged, done is on disk, streams end |
| `order_unannounced`, `purchase_compensated`, `activity_republished` | 1 order; 2 requests, 1 piece; 2 items, 1 administrator | violations, section 6 |

Why these bounds are enough for the questions asked:

* Two orders and one unit are the smallest case in which the stock runs out
  between two buyers. The rest of `OrderLifecycle` is about one order: orders
  share only `stock`. Two handlers and one job put three processes on one row,
  one more than any race found needs (a winner and a loser of one `UPDATE`).
* A large order and a small one take both ways through payment (automatic and
  manual review); seckill orders take the manual one.
* Two requests and two attempts give both the race of two purchases and, with
  `overlap`, of two tries of one. Two tries are the first and a repeat: every
  Redis and ledger key of a request is used at most once except the request key,
  which the repeat after its expiry, its duplicate and its roll-back exercise.
  `MaxTries` is the only bound in a guard of the module.
* `Faults` names each fault apart. With `Faults = {}` a client does not overlap
  its own tries, Redis answers, a failed publish stores nothing and order-rpc
  creates every order it consumes; crashes, redelivery, lost offsets and failed
  publishes are there all the same. `NoOversell` of purchases does not hold with
  any one of `overlap`, `redis_error`, `lost_ack`, `create_failed`, which is why
  it is a property of a violating run only.
* Two items are needed for a publication to fail after it reserved one, two
  administrators for two publishers, or a publisher and an editor, to interleave.
  Items share nothing but the activity, and a quantity of 1 is zero or all of it.
  `MaxPublications` counts only under "republish"; without it an activity is
  published once. `MaxSales` bounds the pieces ever sold.
* One order of the feed has up to five events in flight. Orders share the queue,
  the counters and the consumers, not links or raw rows; a queue of 1 is full as
  soon as one event waits. Two consumers are the smallest number that
  handles two events, or one event twice, at once. One failure (`MaxFaults`)
  anywhere is enough to lose any event or to stop between any two statements.
* Three tokens are a session with a successor and a second session; two calls
  pair every operation with every other. `MaxAttempts` is above
  `MaxLoginFailures`, so the lock is reached, and reached again after its expiry.
* Two lines let a viewer join between them, channels of 2 let the last event be
  the one that is dropped; two viewers let one leave while the other is sent to.

The properties, in a sentence each, stand above their definitions. The mutants
show what each one catches: for example `ExecUnconditionally` (an `UPDATE` that
trusts the status read before), `ReleaseBestEffort` (a failed release is logged and
the order marked), `RetryUnderOneSuffix` (the retry job makes up its own key),
`RollbackKeepingKey` (a roll-back that leaves the request key), `PendingGivesUp`
(an answer that says nothing is taken for a refusal),
`ReleaseCacheFirst` (Redis before MySQL on a close), `RollBackNothing` (a
publication that fails and keeps its reservations), `RecordAndCount` (counting
without looking whether the row was claimed), `RotateKeepingOld` (a rotation that
does not revoke), `LineCallsPublishFirst` (a line published before it is logged).

Invariants stated as inequalities deserve a remark. `CacheCoversOrders`
is an inequality since the code may lose pieces (a crash between the reserve
script and the publish leaves a piece taken for nobody); it may not gain any. So
is `NoPieceFromNowhere`: an activity that is deleted keeps its pieces.

`CHECK_DEADLOCK FALSE` stands in the runs of the five modules whose system may
rest: all tries spent, an activity deleted, all events handled, no call to serve,
a job done and its viewers gone. `OrderLifecycle` never rests and is checked for
deadlock.

## 4. Fairness

* `order_live` assumes that a handler that runs goes on or fails
  (`WF(Continue \/ Fail)`), and that what the timeout job attempts for an order
  again and again succeeds in the end (`SF` per order). The job runs every
  minute, selects the order as long as it needs work, and touches one order
  after the other, so failures are transient or the operation is broken for
  good. Nothing is assumed of clients, nor of a handler of a client: the order
  it left half closed is the job's. The 100-row batch of each query is not in the
  model; 100 orders that fail for ever would starve the others.
* `purchase_faults` assumes that the create consumer polls (`kafkax.Consume`
  loops and backs off 2 s after an error), that a message delivered again and
  again is handled and committed in the end, and that the compensate consumer
  runs. Nothing is assumed of attempts: a crash may end each of them anywhere.
* `feed` assumes that a handler that changed an order hands over its event, that
  a worker publishes what it took, and that each consumer goes on: loops that only
  a stop ends. Failures and stops are bounded by `MaxFaults`; after the last one
  the loops go on. That handlers change orders at all is not assumed.
* `jobs` assumes that the goroutine of the job makes its next call and that the
  handler of each viewer reads its channel; neither can block, since sends that
  do not fit are dropped and locks are held for one map access. Nothing is
  assumed of the process, which may run for ever.

`activity` and `sessions` are checked for safety only. The code promises no
progress there: an administrator who got an error has to ask again.

## 5. Proofs

Eight modules, 12,024 obligations. Each theorem is about every value of the
constants; what is assumed is the named `ASSUME` of each module and, where a
theorem says so, one more condition.

| Module | Theorems | State |
| --- | --- | --- |
| `OrderLifecycle_proofs` | `LifecycleCorrect`, `TypeCorrect`, `ReleasesMatchCloses`, `RefundsMatchCloses`, `ShipmentsArePaid`, `FlagsAreTrue` | any orders, clients and jobs, any initial stock |
| `OrderPromise_proofs` | `ClosedOrdersStay`, `FeedFollows`, `LiveOrdersHoldUnits`, `UnitsReturnOnce`, `NeverOversold`, `PromiseRefined` | the same |
| `SeckillPurchase_proofs` | `TypeCorrect`, `LedgerCorrect`, `CompensatedOnce`, `ClosesFirst` | any requests sharing users and keys in any way, any faults |
| `PurchaseStock_proofs` | `SaleCorrect`, `CacheCovers`, `NeverOversold`, `LimitKept`, `SaleRefined`, `SaleIsBounded` | the same, any stock, limit and number of tries, no faults |
| `ActivityPublish_proofs` | `TypeCorrect`, `StockIsAccounted`, `FailureIsUndone`, `SaleIsBacked`, `NothingFromNowhere` | any items and administrators, any hazards within a property's antecedent |
| `OrderStateFeed_proofs` | `TypeCorrect`, `LinksFollow`, `CountedOnce`, `NothingMissed` | any finite orders and consumers, any workers and queue |
| `AdminSessions_proofs` | `TypeCorrect`, `OneTokenPerSession`, `EndedSessionsStayEnded`, `PasswordsEndSessions`, `CountIsStreak`, `LockEndsByClock` | any accounts, tokens and calls |
| `JobStream_proofs` | `TypeCorrect`, `SendsAreSafe`, `StreamHasNoGap`, `OutputIsLogged`, `DoneJobsPersist` | any viewers, lines and queue size |

None of the properties is inductive alone. The strengthened invariants, whose parts
were first checked with TLC:

* **`LifecycleInv`** says what a row looks like in each status (`RowFits`), what a
  handler knows at each step (`SessionFits`: whoever is at `release` or `mark`
  has an abandoned order before it and its key is the one of the order's reason),
  what the release records say of rows (`ReleaseMatchesClose`, `FlagFits`), and
  where orders come from (`SourceFits`). A release matches its close only
  because the handler at `release` was the one that closed the order, or the retry
  job, and because closed rows keep their reason. The proof has one case per
  action; the twelve updates share a lemma on what `ExecWithEvent` changes.
  `FlagsAreTrue` follows from `FlagFits` for every choice of `CreateSources`: what it
  says of an order is conditional on its source (section 6).
* **`OrderPromise_proofs`** sorts the steps into five kinds, according to what they do
  to the row and to the keys, and proves of each row change that it moves forward
  and keeps what was said (`RowMove`). `UnitInv` relates the keys to the handler
  that creates an order: one creator per order, and its reservation is there
  before the row. `StockSum` counts: stock plus the orders holding a unit is the
  initial stock, which gives `NeverOversold` by the cardinality theorems.
  `PromiseRefined` maps each kind of step to a step of `OrderPromise` or a
  stutter. Four theorems assume `AmbiguousCommit = FALSE`: that an error of
  `COMMIT` means nothing was committed. The assumption is needed: with `TRUE`,
  TLC finds an order that lives without a unit.
* **`LedgerInv`**: an attempt *owns* the ledger line of its idempotency key from
  the transaction that claimed it until its compensation (`Owner`); there is one
  owner per key, its line is there and nothing is compensated. This is why
  different suffixes for the reasons of a compensation do no harm. For closes: an
  event exists only for a closed order, and Redis is credited after MySQL.
* **`SaleInv`** (`PurchaseStock_proofs`) counts the pieces that are not in Redis.
  Counting orders would not do: a repeat after the request key expired takes a
  second piece for an order that exists, and gives it back while that order
  lives. `Base` and `Extra` keep the two apart, so that each script takes one
  piece of one request, gives one back, or moves none (`StepFits`). `PieceSum` then
  adds up: Redis's stock and the pieces are within the reservation, and a user's
  counter is not below the pieces of the user, so the script that stops the counter
  at zero never does. `SaleFits` is what makes this so: one try of a request at a
  time, a message for every consumer, an empty compensate topic. The same
  classification of steps gives `SaleRefined`. `SaleIsBounded` is about the steps of
  `SalePromise` alone: whatever takes no others, oversells neither the item nor a
  user's limit.
  The theorems, but for the last, assume `Faults = {}`. That is the weakest
  hypothesis about faults: TLC violates both `CacheCoversOrders` and
  `LimitRespected` under each of the five alone. Crashes,
  repeats, failed publishes, lost close events, redelivery and the expiry of the
  request key are all still there.
* **`ActivityInv`** (`ActivityPublish`) has one part per set of hazards, each of which
  a behaviour keeps. `StockInv` holds under all of them: besides the balance, a
  request reserves, rolls back and releases items of the list it read only, so
  every number it hands to product-rpc is one an item may have. `PublishOK` adds,
  if product-rpc answers, no request stops halfway and nobody publishes twice, that
  there is one publisher at most and what it has reserved, or rolled back, item by
  item; once nobody publishes, an activity that was never on sale (`onceOnSale`)
  holds nothing, whatever became of it. It survives "status_error", whose hidden
  effect puts the activity on sale. `SaleOK` does not: it adds, if sales go through
  MySQL too, nobody edits during a publication and the status is what its
  `UPDATE`s were reported to do, that the publisher's list is the table
  (`Sees`) and that what is offered and sold was taken (`SoldFits`). `ReleaseOK`
  adds, under no hazard, that what an offline is about to give back is still
  there to give (`ReturnFits`), which needs every item to be enabled: publication
  reserves what is enabled, offline returns everything.
* **`FeedInv`** (`OrderStateFeed`): every event anywhere, from a handler about to emit
  it to a consumer in the middle of it, is of a state its order was in. `CountInv`
  counts the consumers that have claimed a raw row and not yet counted it, which
  bounds a count from above. `QuietInv` bounds it from below while nothing fails:
  the last state of each order is on its way or was consumed (`Told`), a consumer
  has recorded what the steps behind it record (`Recorded`), and a claimed row is
  counted or its consumer is at the count (`Exact`). Two consumers that handle a
  payment and a completion of one order may do so in either order; that the later
  one finds the row claimed and still ends with the right count is the content of
  `NothingMissed`.
* **`TokenInv`, `PasswordInv`, `LockInv`, `CountInv`** (`AdminSessions`): a token a
  call holds was issued, and so was the first of its session; no login runs beside
  a change of its account, a login that passed holds the account's password, and
  only while a change has still to revoke is an older token live; an account with a
  login under way has one and is not locked; a failure still to be written carries
  the number of wrong passwords, and else the row does.
* **`JobInv`** (`JobStream`) describes the goroutine of the job at each of its calls
  (`EventInv`, `PlanInv`, `StageInv`), the log against what was read (`LogInv`,
  `OutputInv`), and for each viewer what is in its snapshot, its channel and still
  to be sent (`SubsInv`, `FollowInv`, `LineInv`, `DoneInv`, `DoneLast`).

Model-checked only: liveness, which is out of the prover's reach with its fairness
(`KeepsPromiseInTheEnd`, `NobodyWaitsForEver`, `AcceptedIsSettled`, `FeedSettles`,
`StreamEnds`). Every safety property of a passing run is stated by a theorem. The
reverse is not true of three: `LockHolds` and `LedgerInv` are proved and in no run,
and `NoOversell` of `SeckillPurchase` is proved without faults and violated with
one in `purchase_compensated`.

## 6. Where code and comments disagree

Each of the first three is a run whose expected result is a violation.

* `order_unannounced`: `handleStockReleaseRetry` sets the flag of a seckill
  order without emitting its close, so a handler that failed between close and
  emit leaves seckill-rpc without the event it gives stock back on.
* `purchase_compensated`: the compensate consumer deletes the release token
  and leaves the request key; a repeat within its 60 s is a "duplicate", is sold
  from MySQL, and the piece is sold again from Redis.
* `activity_republished`: the reserve key of a publication names the activity and
  the item only. Publishing again after an offline or a roll-back reserves nothing
  and puts everything on sale.

Behaviour of the code that limits what the properties may say. No run is kept for
these, most of which contradict no comment or test; each can be seen by changing
one constant, or by dropping the hazard from a property's antecedent.

* `CreateOrder` takes `order_source` from its caller (the gateway forwards what the
  client sent) and reserves product stock for both sources; a close returns it for
  normal ones only and flags all of them (`CreateSources`). `FlaggedMeansReturned`
  is therefore about normal orders, in a run with both sources, and `order_live`,
  which asks that every unit returns, has normal ones only.
* `MarkActivityStatus` may take effect and be reported as failed (a deadline of the
  RPC, a lost connection). `PublishActivity` then rolls its reservations back while
  the activity is published, and MySQL sells what the product has again. If the same
  statement fails in `OfflineActivity`, the activity sells on what was released
  ("status_error"). `NoPieceFromNowhere` and `OnSaleIsBacked` exclude it,
  `ProductBalance` and `FailedPublishReturnsStock` do not.
* An error of `COMMIT` after it took effect is compensated like a failed insert;
  the order lives without its unit (`AmbiguousCommit`).
* The fallback to MySQL after a Redis error sells pieces that Redis sold, since
  sales over Kafka never lower `available_stock` (`redis_error`).
* A reserve line that was compensated still answers a later try as a conflict,
  which the code reads as a piece held.
* Offline returns MySQL's `available_stock`, which still holds the pieces sold
  over Kafka ("async"), and what is sold while it runs ("sale_overlap").
* A stock key that is missing is created from a cached row, or by a close.
* Two failed logins of one account that overlap count as one ("logins_overlap"), and
  a login that compared the old password before a reset opens its session after
  it ("change_overlap").
* A job trimmed from the list at the moment it ends sends no `done` and closes no
  channel ("trim"); a job of a command of its own may lose its last lines, since
  `cmd.Wait` closes the pipes its readers still read ("subprocess").

## 7. What is abstracted, what is left out

* Money, text, timestamps and ids are gone; a due order is any order in the right
  state, a snowflake id is an unused order. One piece per order.
* Topics are sets: at least once, in any order. This contains what Kafka does with
  one key per order number and any balancer.
* The user limit is that of mode 0 (pieces in the activity). `OrderStateFeed` keeps
  the window of completed orders that mode 1 counts; the check against it in the
  reserve script is not in the model. `sold_stock`, which no decision reads, is left
  out, and so is expiry of the 7-day keys.
* The activity is published and its stock key is in Redis for the whole run of
  `SeckillPurchase`; `ActivityPublish` has the rest of its life.
* MySQL's own check of the user limit (`ReserveDBUserLimitCheck`) is off in both
  shipped configurations (`apps/seckill/rpc/etc`) and in the model.
* `reservePurchaseWithRetry` repeats only after a deadlock or lock timeout, which
  rolled the transaction back: all its tries are one step. The answer without an
  order (suffix `order_empty`) is one order-rpc never gives.
* `OrderStateFeed` knows an order as placed, paid, completed or closed and
  refunding or not: pending review, pending shipment and shipped are one state, and
  so are refunding and refunded. The events of an approval, a shipment and a completed
  refund, and the columns of a link that show them, are left out; none of them moves a
  count or a sample. `TrackEvent`, by which clients report events of the same types
  under keys of their own, is left out too: the counts are those of the feed.
* A roll-back of `PublishActivity` whose context has run out is "rpc_error": its calls
  fail and are logged.
* In `OrderLifecycle` handlers do not look at who owns an order, and a seckill
  order always has its activity, so its events are always emitted.
* In `AdminSessions` a token that expires is one that is never sent again; access
  tokens are checked by signature and have no state. In `JobStream` stdout and
  stderr are one pipe, a log is not
  cut at `maxLogSize`, no line is longer than the 2 MiB at which `pipeStream`'s scanner
  stops reading, and the error envelope `failJob` sends before `done`, which ends no
  stream, is left out.

### Not modelled

* **user-rpc**: single rows under unique indexes, one statement per operation.
* **Gateways**: stateless; what they let through (a client's `order_source`, keys,
  repeats) is taken into account. The rate limiter is a library's.
* **media-store, the rest of ops-control**: files, containers, migrations and archives;
  one sequential action after another on things outside the program.
* **Of the modelled services**: queries, lists and dashboards; `UpdateActivity`,
  `UpdateProduct` (an overwrite of the number the form shows); roles, domains and
  the audit log of admin-rpc; configuration, tracing, error translation.
* **Load generator, front ends, deployment**: clients and scripts, without a
  protocol of their own. The one page whose reaction matters, the log view that
  reloads after an error, is in `JobStream` (`LoadJobLog`).
* The dead letter topic, which nothing reads.

The mapped definitions therefore cover a small share of the repository's lines:
13,567 lines are generated protobuf code, and most of the others are
HTTP and RPC plumbing, SQL text, field-by-field conversion, browser components and
command-line tools, in which no two steps interact. Mapping them would mean
definitions that stand for nothing.

## 8. Plan

Done: the life of orders and its promise, the purchase and the abstract sale, the
publication of activities, the feed of states, admin sessions, job streams, their
runs, and a proof of each of their safety properties. What is left, in this order:

1. Mode 1 of the user limit: the check of the reserve script against the window of
   `OrderStateFeed`, and the proof of `LimitKept` for it.
2. What holds of a sale under one fault at a time: an oversell is bounded by the
   number of tries that met the fault.
3. `UpdateActivity` while buyers act; roles and the last super administrator of
   admin-rpc; the list of jobs of ops-control with its trim.
