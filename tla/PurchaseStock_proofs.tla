------------------------ MODULE PurchaseStock_proofs ------------------------
(***************************************************************************)
(* What a purchase may count on when none of the faults happens: Redis     *)
(* never has a piece on offer that an order, a message or a purchase under *)
(* way holds, and no user gets more than the limit.  For every set of      *)
(* requests, attempts and consumers, any number of tries, any stock and    *)
(* any limit.                                                              *)
(*                                                                         *)
(* The argument is one of counting.  Each request holds at most two        *)
(* pieces: one that its order has or may still get, and one that a later   *)
(* try took, though an order or a message was there, and will roll back.   *)
(* Every script of Redis then takes one piece, gives one back or moves     *)
(* none.                                                                   *)
(***************************************************************************)
EXTENDS SeckillPurchase_proofs, FiniteSetTheorems

PiecesOf(u) == {p \in Pieces : UserOf[p[1]] = u}

(* What handlers and consumers are up to while no fault happens.           *)
AttemptFits(x) ==
  x # Idle =>
    /\ x.cached => x.step # "cache"
    /\ x.step \in {"publish", "rollback"} => x.cached
    /\ x.step = "replay" => x.conflict
    /\ x.conflict => x.step \in {"order", "replay"}

OneAttempt ==
  \A a, b \in Attempts :
    attempt[a] # Idle /\ attempt[b] # Idle /\ Req(a) = Req(b) => a = b

ConsumerFits(k) ==
  consumer[k] # Idle =>
    /\ consumer[k].step = "create"
    /\ order[consumer[k].req] # "none" \/ consumer[k].req \in createTopic

SaleFits ==
  /\ compensateTopic = {}
  /\ \A k \in Consumers : ConsumerFits(k)
  /\ \A a \in Attempts : AttemptFits(attempt[a])
  /\ OneAttempt

(* The inductive invariant: the pieces in Redis and those that requests    *)
(* hold are no more than the activity was published with, and a user's     *)
(* counter is not below the pieces the user holds.                         *)
PieceSum ==
  /\ cacheStock \in Nat
  /\ IsFiniteSet(Pieces)
  /\ cacheStock + Cardinality(Pieces) <= ReservedStockTotal
  /\ UserLimitQty > 0 => \A u \in Stock!Users :
       /\ bought[u] <= UserLimitQty
       /\ Cardinality(PiecesOf(u)) <= bought[u]

-----------------------------------------------------------------------------
(* Pieces as a set of pairs.                                               *)

LEMMA PieceOf ==
  ASSUME NEW r \in Requests
  PROVE  /\ <<r, "base">> \in Pieces <=> Base(r)
         /\ <<r, "extra">> \in Pieces <=> Extra(r)
  BY DEF Pieces

LEMMA PieceKinds ==
  ASSUME NEW p \in Pieces
  PROVE  /\ p[1] \in Requests
         /\ \/ p = <<p[1], "base">> /\ Base(p[1])
            \/ p = <<p[1], "extra">> /\ Extra(p[1])
  BY DEF Pieces

SameElsewhere(r) ==
  \A q \in Requests \ {r} : (Base(q)' <=> Base(q)) /\ (Extra(q)' <=> Extra(q))

LEMMA PiecesAt ==
  ASSUME NEW r \in Requests, SameElsewhere(r), NEW p \in Pieces', p \notin Pieces
  PROVE  \/ p = <<r, "base">> /\ Base(r)' /\ ~ Base(r)
         \/ p = <<r, "extra">> /\ Extra(r)' /\ ~ Extra(r)
  <1>1. PICK q \in Requests, k \in {"base", "extra"} : p = <<q, k>>
    BY DEF Pieces
  <1>2. CASE k = "base"
    <2>1. Base(q)' /\ ~ Base(q) BY <1>1, <1>2 DEF Pieces
    <2> QED BY <1>1, <1>2, <2>1 DEF SameElsewhere
  <1>3. CASE k = "extra"
    <2>1. Extra(q)' /\ ~ Extra(q) BY <1>1, <1>3 DEF Pieces
    <2> QED BY <1>1, <1>3, <2>1 DEF SameElsewhere
  <1> QED BY <1>2, <1>3

(* The three things a step does to the pieces of one request.              *)
LEMMA PiecesKept ==
  ASSUME NEW r \in Requests, SameElsewhere(r),
         Base(r)' => Base(r), Extra(r)' => Extra(r)
  PROVE  Pieces' \subseteq Pieces
  BY PiecesAt

PieceTaken(r) ==
  \E p \in {<<r, "base">>, <<r, "extra">>} : Pieces' \subseteq Pieces \cup {p}

LEMMA PieceAdded ==
  ASSUME NEW r \in Requests, SameElsewhere(r),
         (Base(r)' => Base(r)) \/ (Extra(r)' => Extra(r))
  PROVE  PieceTaken(r)
  <1>1. CASE Base(r)' => Base(r) BY <1>1, PiecesAt DEF PieceTaken
  <1>2. CASE Extra(r)' => Extra(r) BY <1>2, PiecesAt DEF PieceTaken
  <1> QED BY <1>1, <1>2

PieceReturned(r) ==
  \E p \in {<<r, "base">>, <<r, "extra">>} :
    p \in Pieces /\ Pieces' \subseteq Pieces \ {p}

LEMMA PieceRemoved ==
  ASSUME NEW r \in Requests, SameElsewhere(r),
         Base(r)' => Base(r), Extra(r)' => Extra(r),
         (Base(r) /\ ~ Base(r)') \/ (Extra(r) /\ ~ Extra(r)')
  PROVE  PieceReturned(r)
  <1>1. Pieces' \subseteq Pieces BY PiecesKept
  <1>2. CASE Base(r) /\ ~ Base(r)'
    <2>1. <<r, "base">> \in Pieces /\ <<r, "base">> \notin Pieces'
      BY <1>2, PieceOf DEF Pieces
    <2> QED BY <1>1, <2>1 DEF PieceReturned
  <1>3. CASE Extra(r) /\ ~ Extra(r)'
    <2>1. <<r, "extra">> \in Pieces /\ <<r, "extra">> \notin Pieces'
      BY <1>3, PieceOf DEF Pieces
    <2> QED BY <1>1, <2>1 DEF PieceReturned
  <1> QED BY <1>2, <1>3

-----------------------------------------------------------------------------
(* The steps of the sale, by what they do to Redis and to the pieces.      *)
Takes(r) ==
  /\ cacheStock > 0 /\ cacheStock' = cacheStock - 1
  /\ UserLimitQty > 0 =>
       /\ bought[UserOf[r]] + 1 <= UserLimitQty
       /\ bought' = [bought EXCEPT ![UserOf[r]] = @ + 1]
  /\ PieceTaken(r)

GivesBack(r) == Stock!Credit(r) /\ PieceReturned(r)

Keeps == UNCHANGED <<cacheStock, bought>> /\ Pieces' \subseteq Pieces

(* What one handler does concerns its request alone.                       *)
Serves(a) ==
  /\ attempt' \in [Attempts -> Busy \cup {Idle}]
  /\ \A b \in Attempts \ {a} : attempt'[b] = attempt[b]
  /\ attempt'[a] # Idle => attempt'[a].req = Req(a)

RestKept(r) ==
  \A q \in Requests \ {r} :
    /\ order'[q] = order[q]
    /\ q \in requestKeys' <=> q \in requestKeys
    /\ q \in createTopic' <=> q \in createTopic
    /\ q \in closeKeys' <=> q \in closeKeys

BaseNow(a, r) ==
  \/ order[r] = "live"
  \/ order[r] = "closed" /\ r \notin closeKeys
  \/ /\ order[r] = "none"
     /\ \/ r \in requestKeys \/ r \in createTopic
        \/ attempt[a] # Idle /\ attempt[a].step # "cache"

ExtraNow(a, r) ==
  /\ order[r] # "none" \/ r \in createTopic
  /\ attempt[a] # Idle /\ attempt[a].cached /\ ~ attempt[a].conflict
  /\ r \in requestKeys

LEMMA AttemptSteps ==
  ASSUME TypeOK, OneAttempt, NEW a \in Attempts, NEW r \in Requests,
         On(a, r), Serves(a), RestKept(r)
  PROVE  /\ SameElsewhere(r)
         /\ Base(r) <=> BaseNow(a, r)
         /\ Extra(r) <=> ExtraNow(a, r)
         /\ Base(r)' <=> BaseNow(a, r)'
         /\ Extra(r)' <=> ExtraNow(a, r)'
         /\ OneAttempt'
  <1>1. \A b \in Attempts \ {a} :
          \A q \in Requests : On(b, q)' <=> On(b, q)
    BY DEF Serves, On, Req
  <1>2. \A b \in Attempts \ {a} : ~ On(b, r)
    BY DEF OneAttempt, On
  <1>3. \A q \in Requests \ {r} : ~ On(a, q) /\ ~ On(a, q)'
    BY DEF On, Serves, Req
  <1>4. On(a, r)' <=> attempt'[a] # Idle
    BY DEF On, Serves, Req
  <1>5. SameElsewhere(r)
    <2> SUFFICES ASSUME NEW q \in Requests \ {r}
                 PROVE  (Base(q)' <=> Base(q)) /\ (Extra(q)' <=> Extra(q))
      BY DEF SameElsewhere
    <2>1. \A b \in Attempts : Beyond(b, q)' <=> Beyond(b, q)
      BY <1>1, <1>3 DEF Beyond, Serves
    <2>2. \A b \in Attempts : Returns(b, q)' <=> Returns(b, q)
      BY <1>1, <1>3 DEF Returns, Serves, RestKept
    <2> QED BY <2>1, <2>2 DEF Base, Extra, RestKept
  <1>6. (Base(r) <=> BaseNow(a, r)) /\ (Extra(r) <=> ExtraNow(a, r))
    BY <1>2 DEF Base, Extra, BaseNow, ExtraNow, Beyond, Returns, On
  <1>7. /\ Base(r)' <=> BaseNow(a, r)'
        /\ Extra(r)' <=> ExtraNow(a, r)'
    BY <1>1, <1>2, <1>4 DEF Base, Extra, BaseNow, ExtraNow, Beyond, Returns
  <1>8. OneAttempt'
    <2> SUFFICES ASSUME NEW b \in Attempts, NEW c \in Attempts, b # c,
                        (attempt[b] # Idle)', (attempt[c] # Idle)',
                        (Req(b) = Req(c))'
                 PROVE  FALSE
      BY DEF OneAttempt
    <2>1. CASE b # a /\ c # a
      BY <2>1 DEF OneAttempt, Serves, Req
    <2>2. CASE b = a
      BY <2>2, <1>4 DEF OneAttempt, Serves, Req, On
    <2>3. CASE c = a
      BY <2>3, <1>4 DEF OneAttempt, Serves, Req, On
    <2> QED BY <2>1, <2>2, <2>3
  <1> QED BY <1>5, <1>6, <1>7, <1>8

-----------------------------------------------------------------------------
(* The handlers.                                                           *)

LEMMA MoveServes ==
  ASSUME TypeOK, NEW a \in Attempts, attempt[a] # Idle,
         NEW x \in Busy \cup {Idle}, x # Idle => x.req = Req(a),
         attempt' = [attempt EXCEPT ![a] = x]
  PROVE  Serves(a) /\ attempt'[a] = x
  BY DEF TypeOK, Serves

(* A handler keeps what fits, if it forgets neither an order nor a message. *)
LEMMA HandlerFits ==
  ASSUME TypeOK, SaleFits, NEW a \in Attempts, NEW r \in Requests,
         On(a, r), Serves(a), RestKept(r), AttemptFits(attempt'[a]),
         order[r] # "none" => order'[r] # "none",
         r \in createTopic => r \in createTopic',
         UNCHANGED <<consumer, compensateTopic>>
  PROVE  SaleFits'
  <1>1. OneAttempt'
    BY AttemptSteps DEF SaleFits
  <1>2. \A b \in Attempts : AttemptFits(attempt'[b])
    BY DEF SaleFits, Serves
  <1>3. ASSUME NEW k \in Consumers
        PROVE  ConsumerFits(k)'
    <2>1. consumer[k] # Idle => consumer[k].req \in Requests
      BY DEF TypeOK, Consuming
    <2>2. ConsumerFits(k)
      BY DEF SaleFits
    <2> QED
      BY <2>1, <2>2 DEF ConsumerFits, RestKept
  <1> QED
    BY <1>1, <1>2, <1>3 DEF SaleFits

(* What storing an order leaves alone.                                     *)
LEMMA OrderStoredAt ==
  ASSUME TypeOK, NEW r \in Requests, OrderStored(r) \/ UNCHANGED order
  PROVE  /\ \A q \in Requests \ {r} : order'[q] = order[q]
         /\ order[r] # "none" => order'[r] = order[r]
         /\ order[r] = "none" => order'[r] \in {"none", "live"}
  BY DEF TypeOK, OrderStored

(* A step that leaves Redis alone takes no piece and gives none back.      *)
LEMMA HandlerKeeps ==
  ASSUME TypeOK, SaleFits, NEW a \in Attempts, NEW r \in Requests, On(a, r),
         NEW x \in Busy \cup {Idle}, AttemptFits(x),
         attempt' = [attempt EXCEPT ![a] = x],
         x # Idle =>
           /\ x.req = r /\ x.cached = attempt[a].cached
           /\ attempt[a].step # "cache" \/ r \in requestKeys
           /\ ~ x.conflict =>
                ~ attempt[a].conflict /\ UNCHANGED <<order, createTopic>>,
         attempt[a].step # "cache" \/ UNCHANGED <<order, createTopic>>,
         OrderStored(r) \/ UNCHANGED order,
         createTopic' \in {createTopic, createTopic \cup {r}},
         UNCHANGED <<consumer, compensateTopic, cacheVars>>
  PROVE  Keeps /\ SaleFits'
  <1>1. attempt[a] # Idle /\ Req(a) = r
    BY DEF On
  <1>2. Serves(a) /\ attempt'[a] = x
    BY <1>1, MoveServes
  <1>3. /\ \A q \in Requests \ {r} : order'[q] = order[q]
        /\ order[r] # "none" => order'[r] = order[r]
        /\ order[r] = "none" => order'[r] \in {"none", "live"}
    BY OrderStoredAt
  <1>4. cacheStock' = cacheStock /\ bought' = bought
        /\ requestKeys' = requestKeys /\ closeKeys' = closeKeys
    BY DEF cacheVars
  <1>5. RestKept(r)
    BY <1>3, <1>4 DEF RestKept
  <1>6. /\ SameElsewhere(r)
        /\ Base(r) <=> BaseNow(a, r)
        /\ Extra(r) <=> ExtraNow(a, r)
        /\ Base(r)' <=> BaseNow(a, r)'
        /\ Extra(r)' <=> ExtraNow(a, r)'
    BY <1>2, <1>5, AttemptSteps DEF SaleFits
  <1>7. BaseNow(a, r)' => BaseNow(a, r)
    <2>1. CASE attempt[a].step # "cache"
      BY <2>1, <1>1, <1>3, <1>4 DEF BaseNow
    <2>2. CASE UNCHANGED <<order, createTopic>>
      BY <2>2, <1>1, <1>2, <1>4 DEF BaseNow
    <2> QED
      BY <2>1, <2>2
  <1>8. ExtraNow(a, r)' => ExtraNow(a, r)
    BY <1>1, <1>2, <1>4 DEF ExtraNow
  <1>9. Pieces' \subseteq Pieces
    BY <1>6, <1>7, <1>8, PiecesKept
  <1>10. SaleFits'
    BY <1>2, <1>3, <1>5, HandlerFits
  <1> QED
    BY <1>4, <1>9, <1>10 DEF Keeps

StepFits ==
  /\ SaleFits'
  /\ Keeps \/ \E r \in Requests : Takes(r) \/ GivesBack(r)

(* A handler at some step of its purchase.                                 *)
LEMMA HandlerAt ==
  ASSUME TypeOK, SaleFits, NEW a \in Attempts, attempt[a] # Idle
  PROVE  /\ attempt[a] \in Busy
         /\ Req(a) \in Requests
         /\ On(a, Req(a))
         /\ attempt[a].req = Req(a)
         /\ attempt[a].cached => attempt[a].step # "cache"
         /\ attempt[a].step \in {"publish", "rollback"} => attempt[a].cached
         /\ attempt[a].step = "replay" => attempt[a].conflict
         /\ attempt[a].conflict => attempt[a].step \in {"order", "replay"}
  BY AttemptType DEF On, Req, SaleFits, AttemptFits

LEMMA IdleFits == AttemptFits(Idle)
  BY DEF AttemptFits

(* The steps a handler goes to, written out.                               *)
LEMMA GotoRecord ==
  ASSUME NEW b \in Busy, NEW s \in Steps
  PROVE  LET x == [b EXCEPT !.step = s]
         IN  /\ x \in Busy /\ x # Idle
             /\ x.step = s /\ x.req = b.req /\ x.cached = b.cached
             /\ x.conflict = b.conflict
  BY BusyType DEF Busy

(* Returning takes nothing from Redis.                                     *)
LEMMA ReturnFits ==
  ASSUME TypeOK, SaleFits, NEW a \in Attempts, attempt[a] # Idle, Return(a),
         OrderStored(Req(a)) \/ UNCHANGED order,
         attempt[a].step # "cache" \/ UNCHANGED <<order, createTopic>>,
         createTopic' \in {createTopic, createTopic \cup {Req(a)}},
         UNCHANGED <<consumer, compensateTopic, cacheVars>>
  PROVE  StepFits
  <1>1. Req(a) \in Requests /\ On(a, Req(a))
    BY HandlerAt
  <1>2. attempt' = [attempt EXCEPT ![a] = Idle]
    BY DEF Return
  <1>3. Keeps /\ SaleFits'
    BY <1>1, <1>2, IdleFits, HandlerKeeps
  <1> QED
    BY <1>3 DEF StepFits

(* Going on to a step that fits takes nothing either.                      *)
LEMMA GotoFits ==
  ASSUME TypeOK, SaleFits, NEW a \in Attempts, attempt[a] # Idle,
         NEW s \in Steps, Goto(a, s),
         attempt[a].step # "cache" \/ Req(a) \in requestKeys,
         attempt[a].cached => s # "cache",
         s \in {"publish", "rollback"} => attempt[a].cached,
         s = "replay" => attempt[a].conflict,
         attempt[a].conflict => s \in {"order", "replay"},
         OrderStored(Req(a)) \/ UNCHANGED order,
         attempt[a].step # "cache" \/ UNCHANGED <<order, createTopic>>,
         createTopic' \in {createTopic, createTopic \cup {Req(a)}},
         attempt[a].conflict \/ UNCHANGED <<order, createTopic>>,
         UNCHANGED <<consumer, compensateTopic, cacheVars>>
  PROVE  StepFits
  <1> DEFINE x == [attempt[a] EXCEPT !.step = s]
  <1>1. /\ Req(a) \in Requests /\ On(a, Req(a)) /\ attempt[a] \in Busy
        /\ attempt[a].req = Req(a)
    BY HandlerAt
  <1>2. /\ x \in Busy /\ x # Idle
        /\ x.step = s /\ x.req = Req(a) /\ x.cached = attempt[a].cached
        /\ x.conflict = attempt[a].conflict
    BY <1>1, GotoRecord
  <1>3. attempt' = [attempt EXCEPT ![a] = x]
    BY DEF Goto
  <1> HIDE DEF x
  <1>4. AttemptFits(x)
    BY <1>2 DEF AttemptFits
  <1>5. Keeps /\ SaleFits'
    BY <1>1, <1>2, <1>3, <1>4, HandlerKeeps
  <1> QED
    BY <1>5 DEF StepFits

LEMMA GiveUpFits ==
  ASSUME TypeOK, SaleFits, NEW a \in Attempts, attempt[a] # Idle, GiveUp(a),
         attempt[a].step \in {"db", "compensate"},
         UNCHANGED <<consumer, order, createTopic, compensateTopic, cacheVars>>
  PROVE  StepFits
  <1>1. ~ attempt[a].conflict
    BY HandlerAt
  <1>2. "rollback" \in Steps
    BY DEF Steps
  <1>3. CASE attempt[a].cached /\ Goto(a, "rollback")
    BY <1>1, <1>2, <1>3, GotoFits
  <1>4. CASE Return(a)
    BY <1>4, ReturnFits
  <1> QED
    BY <1>3, <1>4 DEF GiveUp

-----------------------------------------------------------------------------
(* Each step, when no fault happens.                                       *)

(* A try takes a piece of its own: nothing else serves its request.        *)
LEMMA ReservedFits ==
  ASSUME TypeOK, SaleFits, NEW a \in Attempts, At(a, "cache"),
         Stock!CacheReserved(Req(a)),
         attempt' = [attempt EXCEPT ![a] =
           [@ EXCEPT !.step = "publish", !.cached = TRUE]],
         UNCHANGED <<consumer, order, topics>>
  PROVE  StepFits
  <1>1. PICK r \in Requests : r = Req(a)
    BY HandlerAt DEF At
  <1> DEFINE x == [attempt[a] EXCEPT !.step = "publish", !.cached = TRUE]
  <1>2. /\ attempt[a] # Idle /\ attempt[a] \in Busy /\ On(a, r)
        /\ attempt[a].req = r /\ attempt[a].step = "cache"
        /\ ~ attempt[a].cached /\ ~ attempt[a].conflict
    BY <1>1, HandlerAt DEF At, Busy
  <1>3. "publish" \in Steps
    BY DEF Steps
  <1>4. /\ x \in Busy /\ x # Idle
        /\ x.step = "publish" /\ x.req = r /\ x.cached /\ ~ x.conflict
    BY <1>2, <1>3, BusyType DEF Busy
  <1>5. attempt' = [attempt EXCEPT ![a] = x]
    OBVIOUS
  <1> HIDE DEF x
  <1>6. Serves(a) /\ attempt'[a] = x
    <2>1. x \in Busy \cup {Idle} /\ x.req = Req(a)
      BY <1>1, <1>4
    <2> QED
      BY ONLY <1>2, <1>5, <2>1, MoveServes, TypeOK, a \in Attempts
  <1>7. /\ r \notin requestKeys /\ requestKeys' = requestKeys \cup {r}
        /\ closeKeys' = closeKeys /\ createTopic' = createTopic
        /\ compensateTopic' = compensateTopic /\ order' = order
        /\ cacheStock > 0 /\ cacheStock' = cacheStock - 1
    BY <1>1 DEF Stock!CacheReserved, topics
  <1>8. RestKept(r)
    BY <1>7 DEF RestKept
  <1>9. AttemptFits(x)
    BY <1>4 DEF AttemptFits
  <1>10. SaleFits'
    BY <1>2, <1>6, <1>7, <1>8, <1>9, HandlerFits
  <1>11. /\ SameElsewhere(r)
         /\ Base(r) <=> BaseNow(a, r)
         /\ Extra(r) <=> ExtraNow(a, r)
         /\ Base(r)' <=> BaseNow(a, r)'
         /\ Extra(r)' <=> ExtraNow(a, r)'
    BY <1>2, <1>6, <1>8, AttemptSteps DEF SaleFits
  <1>12. (BaseNow(a, r)' => BaseNow(a, r)) \/ ~ ExtraNow(a, r)'
    BY <1>7 DEF BaseNow, ExtraNow
  <1>13. PieceTaken(r)
    BY <1>11, <1>12, PieceAdded
  <1>14. UserLimitQty > 0 =>
           /\ bought[UserOf[r]] + 1 <= UserLimitQty
           /\ bought' = [bought EXCEPT ![UserOf[r]] = @ + 1]
    <2>1. bought[UserOf[r]] \in Nat
      BY UserType DEF TypeOK, Stock!StockTypeOK
    <2> QED
      BY <1>1, <2>1, PurchaseAssumption
      DEF Stock!CacheReserved, Stock!LimitExceeded
  <1>15. Takes(r)
    BY <1>7, <1>13, <1>14 DEF Takes
  <1> QED
    BY <1>10, <1>15 DEF StepFits

LEMMA ReserveInCacheFits ==
  ASSUME TypeOK, SaleFits, Faults = {}, NEW a \in Attempts,
         ReservePurchaseInCache(a)
  PROVE  StepFits
  <1>1. attempt[a] # Idle /\ attempt[a].step = "cache" /\ UNCHANGED <<consumer, order, topics>>
    BY DEF ReservePurchaseInCache, At
  <1>2. UNCHANGED <<createTopic, compensateTopic>>
    BY <1>1 DEF topics
  <1>3. CASE /\ Stock!CacheReserved(Req(a))
             /\ attempt' = [attempt EXCEPT ![a] =
                  [@ EXCEPT !.step = "publish", !.cached = TRUE]]
    BY <1>1, <1>3, ReservedFits DEF At
  <1>4. CASE Stock!CacheRefused(Req(a)) /\ Return(a)
    <2>1. UNCHANGED cacheVars
      BY <1>4 DEF Stock!CacheRefused, Stock!cacheVars, cacheVars
    <2> QED
      BY <1>1, <1>2, <1>4, <2>1, ReturnFits
  <1>5. CASE Stock!CacheDuplicate(Req(a)) /\ Goto(a, "db")
    <2>1. UNCHANGED cacheVars /\ Req(a) \in requestKeys
      BY <1>5 DEF Stock!CacheDuplicate, Stock!cacheVars, cacheVars
    <2>2. "db" \in Steps
      BY DEF Steps
    <2>3. ~ attempt[a].conflict
      BY <1>1, HandlerAt
    <2> QED
      BY <1>1, <1>2, <1>5, <2>1, <2>2, <2>3, GotoFits
  <1> QED
    BY <1>3, <1>4, <1>5 DEF ReservePurchaseInCache

LEMMA KafkaPathFits ==
  ASSUME TypeOK, SaleFits, Faults = {}, NEW a \in Attempts, TryAsyncKafkaPath(a)
  PROVE  StepFits
  <1>1. /\ attempt[a] # Idle /\ attempt[a].step = "publish"
        /\ UNCHANGED <<consumer, order, compensateTopic, cacheVars>>
    BY DEF TryAsyncKafkaPath, At, stockVars
  <1>2. CASE createTopic' = createTopic \cup {Req(a)} /\ Return(a)
    BY <1>1, <1>2, ReturnFits
  <1>3. CASE UNCHANGED createTopic /\ Goto(a, "db")
    <2>1. "db" \in Steps
      BY DEF Steps
    <2>2. ~ attempt[a].conflict
      BY <1>1, HandlerAt
    <2> QED
      BY <1>1, <1>3, <2>1, <2>2, GotoFits
  <1> QED
    BY <1>2, <1>3 DEF TryAsyncKafkaPath

LEMMA ReserveDBFits ==
  ASSUME TypeOK, SaleFits, NEW a \in Attempts, ReserveDBAndHandleConflict(a)
  PROVE  StepFits
  <1>1. /\ attempt[a] # Idle /\ attempt[a].step = "db"
        /\ UNCHANGED <<consumer, order, createTopic, compensateTopic, cacheVars>>
    BY DEF ReserveDBAndHandleConflict, At, topics
  <1>2. "order" \in Steps
    BY DEF Steps
  <1>3. CASE Goto(a, "order")
    BY <1>1, <1>2, <1>3, GotoFits
  <1>4. CASE attempt' = [attempt EXCEPT ![a] =
               [@ EXCEPT !.step = "order", !.conflict = TRUE]]
    <2> DEFINE x == [attempt[a] EXCEPT !.step = "order", !.conflict = TRUE]
    <2>1. /\ Req(a) \in Requests /\ On(a, Req(a)) /\ attempt[a] \in Busy
          /\ attempt[a].req = Req(a)
      BY <1>1, HandlerAt
    <2>2. /\ x \in Busy /\ x # Idle
          /\ x.step = "order" /\ x.req = Req(a) /\ x.cached = attempt[a].cached
          /\ x.conflict
      BY <1>2, <2>1, BusyType DEF Busy
    <2>3. attempt' = [attempt EXCEPT ![a] = x]
      BY <1>4
    <2> HIDE DEF x
    <2>4. AttemptFits(x)
      BY <2>2 DEF AttemptFits
    <2>5. Keeps /\ SaleFits'
      BY <1>1, <2>1, <2>2, <2>3, <2>4, HandlerKeeps
    <2> QED
      BY <2>5 DEF StepFits
  <1>5. CASE GiveUp(a)
    BY <1>1, <1>5, GiveUpFits
  <1> QED
    BY <1>3, <1>4, <1>5 DEF ReserveDBAndHandleConflict

LEMMA OrderAnswerFits ==
  ASSUME TypeOK, SaleFits, NEW a \in Attempts,
         OrderCreated(a) \/ OrderRefused(a) \/ OrderPending(a)
  PROVE  StepFits
  <1>1. /\ attempt[a] # Idle /\ attempt[a].step \in {"order", "replay"}
        /\ UNCHANGED <<consumer, createTopic, compensateTopic, cacheVars>>
        /\ OrderStored(Req(a)) \/ UNCHANGED order
    BY DEF OrderCreated, OrderRefused, OrderPending, OrderMaybeStored, At,
           topics, stockVars
  <1>2. CASE Return(a)
    BY <1>1, <1>2, ReturnFits
  <1>3. CASE OrderPending(a) /\ attempt[a].conflict /\ Goto(a, "replay")
    <2>1. "replay" \in Steps
      BY DEF Steps
    <2> QED
      BY <1>1, <1>3, <2>1, GotoFits
  <1>4. CASE OrderRefused(a) /\ ~ attempt[a].conflict
    <2>1. PICK suffix \in Stock!CompensateSuffixes :
            attempt' = [attempt EXCEPT ![a] =
              [@ EXCEPT !.step = "compensate", !.suffix = suffix]]
      BY <1>4 DEF OrderRefused
    <2> DEFINE x == [attempt[a] EXCEPT !.step = "compensate", !.suffix = suffix]
    <2>2. /\ Req(a) \in Requests /\ On(a, Req(a)) /\ attempt[a] \in Busy
          /\ attempt[a].req = Req(a)
      BY <1>1, HandlerAt
    <2>3. "compensate" \in Steps
      BY DEF Steps
    <2>4. /\ x \in Busy /\ x # Idle
          /\ x.step = "compensate" /\ x.req = Req(a)
          /\ x.cached = attempt[a].cached /\ x.conflict = attempt[a].conflict
      BY <2>2, <2>3, BusyType DEF Busy
    <2>5. attempt' = [attempt EXCEPT ![a] = x]
      BY <2>1
    <2> HIDE DEF x
    <2>6. AttemptFits(x)
      BY <1>4, <2>4 DEF AttemptFits
    <2>7. UNCHANGED order
      BY <1>4 DEF OrderRefused
    <2>8. Keeps /\ SaleFits'
      BY <1>1, <1>4, <2>2, <2>4, <2>5, <2>6, <2>7, HandlerKeeps
    <2> QED
      BY <2>8 DEF StepFits
  <1> QED
    BY <1>2, <1>3, <1>4 DEF OrderCreated, OrderRefused, OrderPending

LEMMA CompensateFits ==
  ASSUME TypeOK, SaleFits, NEW a \in Attempts, CompensateRelease(a)
  PROVE  StepFits
  <1>1. /\ attempt[a] # Idle /\ attempt[a].step = "compensate" /\ GiveUp(a)
        /\ UNCHANGED <<consumer, order, createTopic, compensateTopic, cacheVars>>
    BY DEF CompensateRelease, At, topics
  <1> QED
    BY <1>1, GiveUpFits

LEMMA CrashFits ==
  ASSUME TypeOK, SaleFits, NEW a \in Attempts, Crash(a)
  PROVE  StepFits
  <1>1. /\ attempt[a] # Idle /\ Return(a)
        /\ UNCHANGED <<consumer, order, createTopic, compensateTopic, cacheVars>>
    BY DEF Crash, topics, stockVars
  <1> QED
    BY <1>1, ReturnFits

(* A roll-back gives back the piece this try took, or the request's only   *)
(* one.                                                                    *)
LEMMA RollbackFits ==
  ASSUME TypeOK, SaleFits, NEW a \in Attempts, RollbackReserveInCache(a)
  PROVE  StepFits
  <1>1. /\ attempt[a] # Idle /\ attempt[a].step = "rollback" /\ Return(a)
        /\ UNCHANGED <<consumer, order, createTopic, compensateTopic>>
    BY DEF RollbackReserveInCache, At, topics
  <1>2. CASE UNCHANGED cacheVars
    BY <1>1, <1>2, ReturnFits
  <1>3. CASE Stock!RollbackReserve(Req(a)) /\ Req(a) \notin requestKeys
    <2>1. UNCHANGED cacheVars
      BY <1>3 DEF Stock!RollbackReserve, Stock!cacheVars, cacheVars
    <2> QED
      BY <1>1, <2>1, ReturnFits
  <1>4. CASE Stock!RollbackReserve(Req(a)) /\ Req(a) \in requestKeys
    <2>1. PICK r \in Requests : r = Req(a)
      BY <1>1, HandlerAt
    <2>2. On(a, r) /\ attempt[a].cached /\ ~ attempt[a].conflict
      BY <1>1, <2>1, HandlerAt
    <2>3. attempt' = [attempt EXCEPT ![a] = Idle]
      BY <1>1 DEF Return
    <2>4. Serves(a) /\ attempt'[a] = Idle
      BY <1>1, <2>3, MoveServes
    <2>5. /\ Stock!Credit(r) /\ closeKeys' = closeKeys
          /\ r \in requestKeys /\ requestKeys' = requestKeys \ {r}
      BY <1>4, <2>1 DEF Stock!RollbackReserve
    <2>6. RestKept(r)
      BY <1>1, <2>5 DEF RestKept
    <2>7. SaleFits'
      BY <1>1, <2>2, <2>4, <2>6, IdleFits, HandlerFits
    <2>8. /\ SameElsewhere(r)
          /\ Base(r) <=> BaseNow(a, r)
          /\ Extra(r) <=> ExtraNow(a, r)
          /\ Base(r)' <=> BaseNow(a, r)'
          /\ Extra(r)' <=> ExtraNow(a, r)'
      BY <2>2, <2>4, <2>6, AttemptSteps DEF SaleFits
    <2>9. /\ BaseNow(a, r)' => BaseNow(a, r)
          /\ ~ ExtraNow(a, r)'
      BY <1>1, <2>4, <2>5 DEF BaseNow, ExtraNow
    <2>10. ExtraNow(a, r) \/ (BaseNow(a, r) /\ ~ BaseNow(a, r)')
      <3>1. CASE order[r] # "none" \/ r \in createTopic
        BY <1>1, <2>2, <2>5, <3>1 DEF ExtraNow
      <3>2. CASE order[r] = "none" /\ r \notin createTopic
        BY <1>1, <2>4, <2>5, <3>2 DEF BaseNow
      <3> QED
        BY <3>1, <3>2
    <2>11. PieceReturned(r)
      BY <2>8, <2>9, <2>10, PieceRemoved
    <2> QED
      BY <2>5, <2>7, <2>11 DEF StepFits, GivesBack
  <1> QED
    BY <1>1, <1>2, <1>3, <1>4 DEF RollbackReserveInCache

LEMMA ContinueFits ==
  ASSUME TypeOK, SaleFits, Faults = {}, NEW a \in Attempts,
         Continue(a) \/ Crash(a)
  PROVE  StepFits
  BY ReserveInCacheFits, KafkaPathFits, ReserveDBFits, OrderAnswerFits,
     CompensateFits, RollbackFits, CrashFits
  DEF Continue

(* A try starts only when the last one of the request was answered.        *)
LEMMA PurchaseFits ==
  ASSUME TypeOK, SaleFits, Faults = {}, NEW a \in Attempts, NEW r \in Requests,
         Purchase(a, r)
  PROVE  StepFits
  <1> DEFINE x == [step |-> "cache", req |-> r, cached |-> FALSE,
                   conflict |-> FALSE, suffix |-> "order_fail"]
  <1>1. /\ attempt[a] = Idle
        /\ \A b \in Attempts : attempt[b] # Idle => Req(b) # r
        /\ attempt' = [attempt EXCEPT ![a] = x]
        /\ UNCHANGED <<consumer, order, createTopic, compensateTopic>>
        /\ UNCHANGED <<cacheStock, bought, requestKeys, closeKeys>>
    BY DEF Purchase, topics, stockVars, cacheVars
  <1>2. x \in Busy
    BY DEF Busy, Steps, Stock!CompensateSuffixes
  <1>3. x # Idle /\ x.step = "cache" /\ ~ x.cached /\ ~ x.conflict /\ x.req = r
    BY <1>2, BusyType
  <1> HIDE DEF x
  <1>4. /\ attempt'[a] = x
        /\ \A b \in Attempts \ {a} : attempt'[b] = attempt[b]
    BY <1>1, <1>2 DEF TypeOK
  <1>5. \A b \in Attempts, q \in Requests :
          /\ Beyond(b, q)' <=> Beyond(b, q)
          /\ Returns(b, q)' <=> Returns(b, q)
    BY <1>1, <1>3, <1>4 DEF Beyond, Returns, On, Req
  <1>6. \A q \in Requests : (Base(q)' <=> Base(q)) /\ (Extra(q)' <=> Extra(q))
    BY <1>1, <1>5 DEF Base, Extra
  <1>7. Pieces' \subseteq Pieces
    BY <1>6, PiecesKept DEF SameElsewhere
  <1>8. SaleFits'
    <2>1. OneAttempt'
      BY <1>1, <1>3, <1>4 DEF OneAttempt, SaleFits, Req
    <2>2. \A b \in Attempts : AttemptFits(attempt'[b])
      BY <1>3, <1>4 DEF SaleFits, AttemptFits
    <2>3. \A k \in Consumers : ConsumerFits(k)'
      BY <1>1 DEF SaleFits, ConsumerFits
    <2> QED
      BY <1>1, <2>1, <2>2, <2>3 DEF SaleFits
  <1> QED
    BY <1>1, <1>7, <1>8 DEF StepFits, Keeps

-----------------------------------------------------------------------------
(* The consumers and the closes.  No handler moves.                        *)

LEMMA OutsideAttempts ==
  ASSUME UNCHANGED attempt, NEW r \in Requests, RestKept(r)
  PROVE  /\ SameElsewhere(r)
         /\ \A a \in Attempts : Beyond(a, r)' <=> Beyond(a, r)
         /\ \A a \in Attempts :
              (r \in requestKeys' => r \in requestKeys)
                => (Returns(a, r)' => Returns(a, r))
         /\ (requestKeys' = requestKeys)
              => \A a \in Attempts : Returns(a, r)' <=> Returns(a, r)
  <1>1. \A a \in Attempts, q \in Requests : Beyond(a, q)' <=> Beyond(a, q)
    BY DEF Beyond, On, Req
  <1>2. \A a \in Attempts, q \in Requests \ {r} : Returns(a, q)' <=> Returns(a, q)
    BY DEF Returns, On, Req, RestKept
  <1>3. \A a \in Attempts :
          (r \in requestKeys' => r \in requestKeys)
            => (Returns(a, r)' => Returns(a, r))
    BY DEF Returns, On, Req
  <1>4. (requestKeys' = requestKeys)
          => \A a \in Attempts : Returns(a, r)' <=> Returns(a, r)
    BY DEF Returns, On, Req
  <1>5. SameElsewhere(r)
    BY <1>1, <1>2 DEF SameElsewhere, Base, Extra, RestKept
  <1> QED
    BY <1>1, <1>3, <1>4, <1>5

LEMMA AttemptsStayFit ==
  ASSUME SaleFits, UNCHANGED attempt
  PROVE  OneAttempt' /\ \A a \in Attempts : AttemptFits(attempt'[a])
  BY DEF SaleFits, OneAttempt, Req

LEMMA PollFits ==
  ASSUME TypeOK, SaleFits, NEW k \in Consumers, NEW r \in Requests, Poll(k, r)
  PROVE  StepFits
  <1>1. /\ UNCHANGED <<attempt, order, createTopic, compensateTopic>>
        /\ UNCHANGED <<cacheStock, bought, requestKeys, closeKeys>>
        /\ r \in createTopic
    BY DEF Poll, topics, stockVars, cacheVars
  <1>2. consumer' = [consumer EXCEPT ![k] = [step |-> "create", req |-> r]]
    BY DEF Poll
  <1>3. \A l \in Consumers : ConsumerFits(l)'
    BY <1>1, <1>2 DEF ConsumerFits, SaleFits, TypeOK
  <1>4. SaleFits'
    BY <1>1, <1>3, AttemptsStayFit DEF SaleFits
  <1>5. Pieces' = Pieces
    BY <1>1 DEF Pieces, Base, Extra, Beyond, Returns, On, Req
  <1> QED
    BY <1>1, <1>4, <1>5 DEF StepFits, Keeps

LEMMA ConsumerStopsFits ==
  ASSUME TypeOK, SaleFits, NEW k \in Consumers, ConsumerStops(k)
  PROVE  StepFits
  <1>1. /\ UNCHANGED <<attempt, order, createTopic, compensateTopic>>
        /\ UNCHANGED <<cacheStock, bought, requestKeys, closeKeys>>
    BY DEF ConsumerStops, topics, stockVars, cacheVars
  <1>2. consumer' = [consumer EXCEPT ![k] = Idle]
    BY DEF ConsumerStops
  <1>3. \A l \in Consumers : ConsumerFits(l)'
    BY <1>1, <1>2 DEF ConsumerFits, SaleFits, TypeOK
  <1>4. SaleFits'
    BY <1>1, <1>3, AttemptsStayFit DEF SaleFits
  <1>5. Pieces' = Pieces
    BY <1>1 DEF Pieces, Base, Extra, Beyond, Returns, On, Req
  <1> QED
    BY <1>1, <1>4, <1>5 DEF StepFits, Keeps

(* The order of a message takes over the piece the message held.           *)
LEMMA CreateFits ==
  ASSUME TypeOK, SaleFits, NEW k \in Consumers, ConsumePurchaseCreate(k)
  PROVE  StepFits
  <1>1. /\ UNCHANGED <<attempt, compensateTopic, closeTopic>>
        /\ UNCHANGED <<cacheStock, bought, requestKeys, closeKeys>>
        /\ consumer[k] # Idle /\ OrderStored(consumer[k].req)
        /\ createTopic' \in {createTopic, createTopic \ {consumer[k].req}}
        /\ consumer' = [consumer EXCEPT ![k] = Idle]
    BY DEF ConsumePurchaseCreate, Consumes, Handled, stockVars, cacheVars
  <1>2. PICK r \in Requests : r = consumer[k].req
    BY <1>1 DEF TypeOK, Consuming
  <1>3. order[r] # "none" \/ r \in createTopic
    BY <1>1, <1>2 DEF SaleFits, ConsumerFits
  <1>4. /\ \A q \in Requests \ {r} : order'[q] = order[q]
        /\ order[r] # "none" => order'[r] = order[r]
        /\ order[r] = "none" => order'[r] = "live"
    BY <1>1, <1>2 DEF OrderStored, TypeOK
  <1>5. RestKept(r)
    BY <1>1, <1>2, <1>4 DEF RestKept
  <1>6. Base(r)' => Base(r)
    BY <1>1, <1>2, <1>3, <1>4, <1>5, OutsideAttempts DEF Base
  <1>7. Extra(r)' => Extra(r)
    BY <1>1, <1>3, <1>5, OutsideAttempts DEF Extra
  <1>8. Pieces' \subseteq Pieces
    BY <1>1, <1>5, <1>6, <1>7, OutsideAttempts, PiecesKept
  <1>9. \A l \in Consumers : ConsumerFits(l)'
    <2> SUFFICES ASSUME NEW l \in Consumers
                 PROVE  ConsumerFits(l)'
      OBVIOUS
    <2>1. ConsumerFits(l)
      BY DEF SaleFits
    <2>2. consumer[l] # Idle => consumer[l].req \in Requests
      BY DEF TypeOK, Consuming
    <2>3. consumer'[l] = Idle \/ consumer'[l] = consumer[l]
      BY <1>1 DEF TypeOK
    <2>4. order[r] \in {"none", "live", "closed"}
      BY DEF TypeOK
    <2>5. order'[r] # "none"
      BY <1>4, <2>4
    <2>6. \A q \in Requests : q # r => (q \in createTopic' <=> q \in createTopic)
      BY <1>5 DEF RestKept
    <2> QED
      BY <1>4, <2>1, <2>2, <2>3, <2>5, <2>6 DEF ConsumerFits
  <1>10. SaleFits'
    BY <1>1, <1>9, AttemptsStayFit DEF SaleFits
  <1> QED
    BY <1>1, <1>8, <1>10 DEF StepFits, Keeps

LEMMA ConsumeFits ==
  ASSUME TypeOK, SaleFits, Faults = {}, NEW k \in Consumers,
         Consume(k) \/ ConsumerStops(k)
  PROVE  StepFits
  <1>1. ~ RetriesExhausted(k)
    BY DEF RetriesExhausted
  <1>2. ~ PublishStockCompensate(k)
    BY DEF PublishStockCompensate, Consumes, SaleFits, ConsumerFits
  <1> QED
    BY <1>1, <1>2, CreateFits, ConsumerStopsFits DEF Consume

(* Steps of the stores and of order-rpc, that move no process.             *)
LEMMA OutsideFits ==
  ASSUME TypeOK, SaleFits,
         UNCHANGED <<attempt, consumer, createTopic, compensateTopic>>,
         \A q \in Requests : order[q] # "none" => order'[q] # "none"
  PROVE  SaleFits'
  <1>1. \A k \in Consumers : ConsumerFits(k)'
    BY DEF SaleFits, ConsumerFits, TypeOK, Consuming
  <1> QED
    BY <1>1, AttemptsStayFit DEF SaleFits

LEMMA CloseFits ==
  ASSUME TypeOK, SaleFits, NEW r \in Requests, CloseOrder(r)
  PROVE  StepFits
  <1>1. /\ UNCHANGED <<attempt, consumer, createTopic, compensateTopic>>
        /\ UNCHANGED <<cacheStock, bought, requestKeys, closeKeys>>
        /\ order[r] = "live" /\ order' = [order EXCEPT ![r] = "closed"]
    BY DEF CloseOrder, stockVars, cacheVars
  <1>2. /\ \A q \in Requests \ {r} : order'[q] = order[q]
        /\ order'[r] = "closed"
    BY <1>1 DEF TypeOK
  <1>3. RestKept(r)
    BY <1>1, <1>2 DEF RestKept
  <1>4. (Base(r)' => Base(r)) /\ (Extra(r)' => Extra(r))
    BY <1>1, <1>3, OutsideAttempts DEF Base, Extra
  <1>5. Pieces' \subseteq Pieces
    BY <1>1, <1>3, <1>4, OutsideAttempts, PiecesKept
  <1>6. SaleFits'
    BY <1>1, <1>2, OutsideFits
  <1> QED
    BY <1>1, <1>5, <1>6 DEF StepFits, Keeps

LEMMA KeyExpiresFits ==
  ASSUME TypeOK, SaleFits, NEW r \in Requests, RequestKeyExpires(r)
  PROVE  StepFits
  <1>1. /\ UNCHANGED <<attempt, consumer, order, createTopic, compensateTopic>>
        /\ UNCHANGED <<cacheStock, bought, closeKeys>>
        /\ requestKeys' = requestKeys \ {r}
    BY DEF RequestKeyExpires, Stock!RequestKeyExpires, topics
  <1>2. RestKept(r)
    BY <1>1 DEF RestKept
  <1>3. (Base(r)' => Base(r)) /\ (Extra(r)' => Extra(r))
    BY <1>1, <1>2, OutsideAttempts DEF Base, Extra
  <1>4. Pieces' \subseteq Pieces
    BY <1>1, <1>2, <1>3, OutsideAttempts, PiecesKept
  <1>5. SaleFits'
    BY <1>1, OutsideFits
  <1> QED
    BY <1>1, <1>4, <1>5 DEF StepFits, Keeps

LEMMA ReleaseInDBFits ==
  ASSUME TypeOK, SaleFits, NEW r \in Requests, ReleaseClosedInDB(r)
  PROVE  StepFits
  <1>1. /\ UNCHANGED <<attempt, consumer, order, createTopic, compensateTopic>>
        /\ UNCHANGED <<cacheStock, bought, requestKeys, closeKeys>>
    BY DEF ReleaseClosedInDB, topics, cacheVars
  <1>2. Pieces' = Pieces
    BY <1>1 DEF Pieces, Base, Extra, Beyond, Returns, On, Req
  <1>3. SaleFits'
    BY <1>1, OutsideFits
  <1> QED
    BY <1>1, <1>2, <1>3 DEF StepFits, Keeps

(* A close gives back the piece of its order, once.                        *)
LEMMA ReleaseInCacheFits ==
  ASSUME TypeOK, LedgerInv, SaleFits, NEW r \in Requests,
         ReleaseClosedInCache(r)
  PROVE  StepFits
  <1>1. /\ UNCHANGED <<attempt, consumer, order, createTopic, compensateTopic>>
        /\ r \in closeTopic
        /\ Stock!ReleaseByClose(r) \/ UNCHANGED cacheVars
    BY DEF ReleaseClosedInCache
  <1>2. SaleFits'
    BY <1>1, OutsideFits
  <1>3. order[r] = "closed"
    BY <1>1 DEF LedgerInv
  <1>4. CASE UNCHANGED cacheVars \/ r \in closeKeys
    <2>1. UNCHANGED <<cacheStock, bought, requestKeys, closeKeys>>
      BY <1>1, <1>4 DEF Stock!ReleaseByClose, Stock!cacheVars, cacheVars
    <2>2. Pieces' = Pieces
      BY <1>1, <2>1 DEF Pieces, Base, Extra, Beyond, Returns, On, Req
    <2> QED
      BY <1>2, <2>1, <2>2 DEF StepFits, Keeps
  <1>5. CASE Stock!ReleaseByClose(r) /\ r \notin closeKeys
    <2>1. /\ Stock!Credit(r) /\ requestKeys' = requestKeys
          /\ closeKeys' = closeKeys \cup {r}
      BY <1>5 DEF Stock!ReleaseByClose
    <2>2. RestKept(r)
      BY <1>1, <2>1 DEF RestKept
    <2>3. Base(r) /\ ~ Base(r)'
      BY <1>1, <1>3, <1>5, <2>1 DEF Base
    <2>4. Extra(r)' => Extra(r)
      BY <1>1, <2>1, <2>2, OutsideAttempts DEF Extra
    <2>5. PieceReturned(r)
      BY <1>1, <2>2, <2>3, <2>4, OutsideAttempts, PieceRemoved
    <2> QED
      BY <1>2, <2>1, <2>5 DEF StepFits, GivesBack
  <1> QED
    BY <1>1, <1>4, <1>5

LEMMA StutterFits ==
  ASSUME TypeOK, SaleFits, UNCHANGED vars
  PROVE  StepFits
  <1>1. /\ UNCHANGED <<attempt, consumer, order, createTopic, compensateTopic>>
        /\ UNCHANGED <<cacheStock, bought, requestKeys, closeKeys>>
    BY DEF vars, topics, stockVars, cacheVars
  <1>2. Pieces' = Pieces
    BY <1>1 DEF Pieces, Base, Extra, Beyond, Returns, On, Req
  <1>3. SaleFits'
    BY <1>1, OutsideFits
  <1> QED
    BY <1>1, <1>2, <1>3 DEF StepFits, Keeps

(* Nothing else happens: the compensate topic stays empty.                 *)
LEMMA NextFits ==
  ASSUME TypeOK, LedgerInv, SaleFits, Faults = {}, [Next]_vars
  PROVE  StepFits
  <1>1. \A r \in Requests : ~ ConsumeStockCompensate(r)
    BY DEF ConsumeStockCompensate, SaleFits
  <1> QED
    BY <1>1, ContinueFits, PurchaseFits, ConsumeFits, PollFits, CloseFits,
       ReleaseInDBFits, ReleaseInCacheFits, KeyExpiresFits, StutterFits
    DEF Next

-----------------------------------------------------------------------------
(* Counting.                                                               *)

LEMMA PiecesOfUser ==
  ASSUME IsFiniteSet(Pieces), NEW u
  PROVE  IsFiniteSet(PiecesOf(u)) /\ Cardinality(PiecesOf(u)) \in Nat
  <1>1. PiecesOf(u) \in SUBSET Pieces
    BY DEF PiecesOf
  <1> QED
    BY <1>1, FS_Subset, FS_CardinalityType

LEMMA SumKept ==
  ASSUME TypeOK, PieceSum, Keeps
  PROVE  PieceSum'
  <1>1. Pieces' \in SUBSET Pieces /\ cacheStock' = cacheStock /\ bought' = bought
    BY DEF Keeps
  <1>2. /\ IsFiniteSet(Pieces') /\ Cardinality(Pieces') <= Cardinality(Pieces)
        /\ Cardinality(Pieces') \in Nat /\ Cardinality(Pieces) \in Nat
    BY <1>1, FS_Subset, FS_CardinalityType DEF PieceSum
  <1>3. cacheStock' + Cardinality(Pieces') <= ReservedStockTotal
    BY <1>1, <1>2, PurchaseAssumption DEF PieceSum
  <1>4. ASSUME UserLimitQty > 0, NEW u \in Stock!Users
        PROVE  bought'[u] <= UserLimitQty /\ Cardinality(PiecesOf(u)') <= bought'[u]
    <2>1. PiecesOf(u)' \in SUBSET PiecesOf(u)
      BY <1>1 DEF PiecesOf
    <2>2. IsFiniteSet(PiecesOf(u)) /\ Cardinality(PiecesOf(u)) \in Nat
      BY PiecesOfUser DEF PieceSum
    <2>3. /\ Cardinality(PiecesOf(u)') <= Cardinality(PiecesOf(u))
          /\ Cardinality(PiecesOf(u)') \in Nat
      BY <2>1, <2>2, FS_Subset, FS_CardinalityType
    <2>4. bought[u] \in Nat
      BY DEF TypeOK, Stock!StockTypeOK
    <2> QED
      BY <1>1, <1>4, <2>2, <2>3, <2>4 DEF PieceSum
  <1>5. Stock!Users' = Stock!Users
    BY DEF Stock!Users
  <1> QED
    BY <1>1, <1>2, <1>3, <1>4, <1>5 DEF PieceSum

LEMMA OneMore ==
  ASSUME NEW S, NEW x, IsFiniteSet(S), NEW T \in SUBSET (S \cup {x})
  PROVE  /\ IsFiniteSet(T)
         /\ Cardinality(S) \in Nat /\ Cardinality(T) \in Nat
         /\ Cardinality(T) <= Cardinality(S) + 1
  <1>1. IsFiniteSet(S \cup {x})
    BY FS_AddElement
  <1>2. /\ Cardinality(S) \in Nat /\ Cardinality(S \cup {x}) \in Nat
    BY <1>1, FS_CardinalityType
  <1>3. Cardinality(S \cup {x}) <= Cardinality(S) + 1
    <2>1. CASE x \in S
      <3>1. S \cup {x} = S
        BY <2>1
      <3>2. Cardinality(S \cup {x}) = Cardinality(S)
        BY <3>1, Zenon
      <3> QED
        BY <1>2, <3>2
    <2>2. CASE x \notin S
      <3>1. Cardinality(S \cup {x}) = Cardinality(S) + 1
        BY <2>2, FS_AddElement
      <3> QED
        BY <1>2, <3>1
    <2> QED
      BY <2>1, <2>2
  <1>4. IsFiniteSet(T) /\ Cardinality(T) <= Cardinality(S \cup {x})
    BY <1>1, FS_Subset
  <1>5. Cardinality(T) \in Nat
    BY <1>4, FS_CardinalityType
  <1> QED
    BY <1>2, <1>3, <1>4, <1>5

LEMMA OneLess ==
  ASSUME NEW S, NEW x \in S, IsFiniteSet(S), NEW T \in SUBSET (S \ {x})
  PROVE  /\ IsFiniteSet(T)
         /\ Cardinality(S) \in Nat /\ Cardinality(T) \in Nat
         /\ Cardinality(T) + 1 <= Cardinality(S)
  <1>1. IsFiniteSet(S \ {x}) /\ Cardinality(S \ {x}) = Cardinality(S) - 1
    BY FS_RemoveElement
  <1>2. IsFiniteSet(T) /\ Cardinality(T) <= Cardinality(S \ {x})
    BY <1>1, FS_Subset
  <1>3. Cardinality(S) \in Nat /\ Cardinality(T) \in Nat
    BY <1>2, FS_CardinalityType
  <1> QED
    BY <1>1, <1>2, <1>3

LEMMA SumTaken ==
  ASSUME TypeOK, PieceSum, NEW r \in Requests, Takes(r)
  PROVE  PieceSum'
  <1>1. /\ cacheStock > 0 /\ cacheStock' = cacheStock - 1
        /\ UserLimitQty > 0 =>
             /\ bought[UserOf[r]] + 1 <= UserLimitQty
             /\ bought' = [bought EXCEPT ![UserOf[r]] = @ + 1]
    BY DEF Takes
  <1>2. PICK p : p[1] = r /\ Pieces' \subseteq Pieces \cup {p}
    BY DEF Takes, PieceTaken
  <1>3. IsFiniteSet(Pieces)
    BY DEF PieceSum
  <1>4. /\ IsFiniteSet(Pieces')
        /\ Cardinality(Pieces) \in Nat /\ Cardinality(Pieces') \in Nat
        /\ Cardinality(Pieces') <= Cardinality(Pieces) + 1
    BY <1>2, <1>3, OneMore
  <1>5. cacheStock' \in Nat
    BY <1>1 DEF PieceSum
  <1>6. cacheStock' + Cardinality(Pieces') <= ReservedStockTotal
    BY <1>1, <1>4, PurchaseAssumption DEF PieceSum
  <1>7. ASSUME UserLimitQty > 0, NEW u \in Stock!Users
        PROVE  bought'[u] <= UserLimitQty /\ Cardinality(PiecesOf(u)') <= bought'[u]
    <2>1. /\ IsFiniteSet(PiecesOf(u)) /\ Cardinality(PiecesOf(u)) \in Nat
          /\ bought[u] <= UserLimitQty /\ Cardinality(PiecesOf(u)) <= bought[u]
      BY <1>7, PiecesOfUser DEF PieceSum
    <2>2. bought \in [Stock!Users -> Nat]
      BY DEF TypeOK, Stock!StockTypeOK
    <2>3. CASE u = UserOf[r]
      <3>1. bought'[u] = bought[u] + 1 /\ bought[u] + 1 <= UserLimitQty
        BY <1>1, <1>7, <2>2, <2>3
      <3>2. PiecesOf(u)' \in SUBSET (PiecesOf(u) \cup {p})
        BY <1>2 DEF PiecesOf
      <3>3. /\ Cardinality(PiecesOf(u)') <= Cardinality(PiecesOf(u)) + 1
            /\ Cardinality(PiecesOf(u)') \in Nat
        BY <2>1, <3>2, OneMore
      <3> QED
        BY <2>1, <2>2, <3>1, <3>3
    <2>4. CASE u # UserOf[r]
      <3>1. bought'[u] = bought[u]
        BY <1>1, <1>7, <2>2, <2>4
      <3>2. PiecesOf(u)' \in SUBSET PiecesOf(u)
        BY <1>2, <2>4 DEF PiecesOf
      <3>3. /\ Cardinality(PiecesOf(u)') <= Cardinality(PiecesOf(u))
            /\ Cardinality(PiecesOf(u)') \in Nat
        BY <2>1, <3>2, FS_Subset, FS_CardinalityType
      <3> QED
        BY <2>1, <2>2, <3>1, <3>3
    <2> QED
      BY <2>3, <2>4
  <1>8. Stock!Users' = Stock!Users
    BY DEF Stock!Users
  <1> QED
    BY <1>4, <1>5, <1>6, <1>7, <1>8 DEF PieceSum

(* The piece that is given back was counted, so the counter of its user    *)
(* is not at zero, where the script would stop it.                         *)
LEMMA SumReturned ==
  ASSUME TypeOK, PieceSum, NEW r \in Requests, GivesBack(r)
  PROVE  PieceSum'
  <1>1. PICK p : p[1] = r /\ p \in Pieces /\ Pieces' \subseteq Pieces \ {p}
    BY DEF GivesBack, PieceReturned
  <1>2. bought \in [Stock!Users -> Nat] /\ cacheStock \in Nat
    BY DEF TypeOK, Stock!StockTypeOK, PieceSum
  <1>3. /\ cacheStock' = cacheStock + 1
        /\ bought' = [bought EXCEPT ![UserOf[r]] = IF @ > 0 THEN @ - 1 ELSE 0]
    BY <1>2 DEF GivesBack, Stock!Credit, Stock!NoKey
  <1>4. IsFiniteSet(Pieces)
    BY DEF PieceSum
  <1>5. /\ IsFiniteSet(Pieces')
        /\ Cardinality(Pieces) \in Nat /\ Cardinality(Pieces') \in Nat
        /\ Cardinality(Pieces') + 1 <= Cardinality(Pieces)
    BY <1>1, <1>4, OneLess
  <1>6. cacheStock' + Cardinality(Pieces') <= ReservedStockTotal
    BY <1>2, <1>3, <1>5, PurchaseAssumption DEF PieceSum
  <1>7. ASSUME UserLimitQty > 0, NEW u \in Stock!Users
        PROVE  bought'[u] <= UserLimitQty /\ Cardinality(PiecesOf(u)') <= bought'[u]
    <2>1. /\ IsFiniteSet(PiecesOf(u)) /\ Cardinality(PiecesOf(u)) \in Nat
          /\ bought[u] <= UserLimitQty /\ Cardinality(PiecesOf(u)) <= bought[u]
      BY <1>7, PiecesOfUser DEF PieceSum
    <2>2. CASE u = UserOf[r]
      <3>1. p \in PiecesOf(u) /\ PiecesOf(u)' \in SUBSET (PiecesOf(u) \ {p})
        BY <1>1, <2>2 DEF PiecesOf
      <3>2. /\ Cardinality(PiecesOf(u)') + 1 <= Cardinality(PiecesOf(u))
            /\ Cardinality(PiecesOf(u)') \in Nat
        BY <2>1, <3>1, OneLess
      <3>3. bought[u] > 0
        BY <1>2, <2>1, <3>2
      <3>4. bought'[u] = bought[u] - 1
        BY <1>2, <1>3, <2>2, <3>3
      <3> QED
        BY <1>2, <2>1, <3>2, <3>4, PurchaseAssumption
    <2>3. CASE u # UserOf[r]
      <3>1. bought'[u] = bought[u]
        BY <1>2, <1>3, <2>3
      <3>2. PiecesOf(u)' \in SUBSET PiecesOf(u)
        BY <1>1 DEF PiecesOf
      <3>3. /\ Cardinality(PiecesOf(u)') <= Cardinality(PiecesOf(u))
            /\ Cardinality(PiecesOf(u)') \in Nat
        BY <2>1, <3>2, FS_Subset, FS_CardinalityType
      <3> QED
        BY <1>2, <2>1, <3>1, <3>3
    <2> QED
      BY <2>2, <2>3
  <1>8. Stock!Users' = Stock!Users
    BY DEF Stock!Users
  <1> QED
    BY <1>2, <1>3, <1>5, <1>6, <1>7, <1>8 DEF PieceSum

SaleInv == SaleFits /\ PieceSum

LEMMA SaleInit == Init => SaleInv
  <1> SUFFICES ASSUME Init PROVE SaleInv
    OBVIOUS
  <1>1. SaleFits
    BY DEF Init, SaleFits, ConsumerFits, AttemptFits, OneAttempt
  <1>2. Pieces = {}
    BY DEF Init, Stock!StockInit, Pieces, Base, Extra, Beyond, Returns, On
  <1>3. \A u : PiecesOf(u) = {}
    BY <1>2 DEF PiecesOf
  <1>4. cacheStock = ReservedStockTotal /\ bought = [u \in Stock!Users |-> 0]
    BY DEF Init, Stock!StockInit
  <1>5. PieceSum
    BY <1>2, <1>3, <1>4, FS_EmptySet, PurchaseAssumption DEF PieceSum
  <1> QED
    BY <1>1, <1>5 DEF SaleInv

LEMMA SaleNext ==
  ASSUME Faults = {}
  PROVE  TypeOK /\ LedgerInv /\ SaleInv /\ [Next]_vars => SaleInv'
  <1> SUFFICES ASSUME TypeOK, LedgerInv, SaleInv, [Next]_vars
               PROVE  SaleInv'
    OBVIOUS
  <1>1. StepFits
    BY NextFits DEF SaleInv
  <1> QED
    BY <1>1, SumKept, SumTaken, SumReturned DEF StepFits, SaleInv

(* The pieces and the counters agree in every state of a sale without      *)
(* faults.                                                                 *)
THEOREM SaleCorrect ==
  ASSUME Faults = {}
  PROVE  Spec => []SaleInv
  BY TypeCorrect, LedgerCorrect, SaleInit, SaleNext, PTL DEF Spec

-----------------------------------------------------------------------------
(* What a request holds is a piece.                                        *)

LEMMA HeldIsBase ==
  ASSUME SaleFits, NEW r \in Requests, Holds(r)
  PROVE  Base(r)
  <1>1. ASSUME NEW a \in Attempts, attempt[a] # Idle, Req(a) = r, attempt[a].cached
        PROVE  Beyond(a, r)
    BY <1>1 DEF SaleFits, AttemptFits, Beyond, On
  <1> QED
    BY <1>1 DEF Holds, InFlight, Base

LEMMA PiecesBound ==
  ASSUME NEW S \in SUBSET Requests, NEW T, IsFiniteSet(T),
         \A r \in S : <<r, "base">> \in T
  PROVE  /\ Cardinality(S) \in Nat
         /\ Cardinality(S) <= Cardinality(T) /\ Cardinality(T) \in Nat
  <1> DEFINE f == [r \in S |-> <<r, "base">>]
  <1>1. f \in Injection(S, T)
    BY DEF Injection, IsInjective
  <1> HIDE DEF f
  <1> QED
    BY <1>1, FS_Injection, FS_CardinalityType

(* While nothing fails, Redis never has a piece on offer that an order, a  *)
(* message or a purchase under way still counts on.                        *)
THEOREM CacheCovers ==
  ASSUME Faults = {}
  PROVE  Spec => []CacheCoversOrders
  <1>1. SaleInv => CacheCoversOrders
    <2> SUFFICES ASSUME SaleInv PROVE CacheCoversOrders
      OBVIOUS
    <2> DEFINE S == {r \in Requests : Holds(r)}
    <2>1. \A r \in S : <<r, "base">> \in Pieces
      BY HeldIsBase, PieceOf DEF SaleInv
    <2>2. /\ Cardinality(S) \in Nat
          /\ Cardinality(S) <= Cardinality(Pieces) /\ Cardinality(Pieces) \in Nat
      <3> HIDE DEF S
      <3>1. S \in SUBSET Requests
        BY DEF S
      <3> QED
        BY <2>1, <3>1, PiecesBound DEF SaleInv, PieceSum
    <2> HIDE DEF S
    <2>3. cacheStock + Cardinality(S) <= ReservedStockTotal
      BY <2>2, PurchaseAssumption DEF SaleInv, PieceSum
    <2> QED
      BY <2>3 DEF S, CacheCoversOrders
  <1> QED
    BY SaleCorrect, <1>1, PTL

(* So there are never more orders to fulfil than pieces.                   *)
THEOREM NeverOversold ==
  ASSUME Faults = {}
  PROVE  Spec => []NoOversell
  <1>1. SaleInv => NoOversell
    <2> SUFFICES ASSUME SaleInv PROVE NoOversell
      OBVIOUS
    <2>1. Live \in SUBSET Requests /\ \A r \in Live : <<r, "base">> \in Pieces
      BY PieceOf DEF Live, Base
    <2>2. /\ Cardinality(Live) \in Nat
          /\ Cardinality(Live) <= Cardinality(Pieces) /\ Cardinality(Pieces) \in Nat
      BY <2>1, PiecesBound DEF SaleInv, PieceSum
    <2> QED
      BY <2>2, PurchaseAssumption DEF NoOversell, SaleInv, PieceSum
  <1> QED
    BY SaleCorrect, <1>1, PTL

(* And no user ends up with more live orders than the limit, through any   *)
(* number of tries, roll-backs and releases.                               *)
THEOREM LimitKept ==
  ASSUME Faults = {}
  PROVE  Spec => []LimitRespected
  <1>1. TypeOK /\ SaleInv => LimitRespected
    <2> SUFFICES ASSUME TypeOK, SaleInv, UserLimitQty > 0, NEW u \in Stock!Users
                 PROVE  Cardinality({r \in Live : UserOf[r] = u}) <= UserLimitQty
      BY DEF LimitRespected
    <2> DEFINE S == {r \in Live : UserOf[r] = u}
    <2>1. S \in SUBSET Requests /\ \A r \in S : <<r, "base">> \in PiecesOf(u)
      BY PieceOf DEF Live, Base, PiecesOf
    <2> HIDE DEF S
    <2>2. /\ IsFiniteSet(PiecesOf(u)) /\ Cardinality(PiecesOf(u)) <= bought[u]
          /\ bought[u] <= UserLimitQty /\ bought[u] \in Nat
      BY PiecesOfUser DEF SaleInv, PieceSum, TypeOK, Stock!StockTypeOK
    <2>3. /\ Cardinality(S) \in Nat /\ Cardinality(PiecesOf(u)) \in Nat
          /\ Cardinality(S) <= Cardinality(PiecesOf(u))
      BY <2>1, <2>2, PiecesBound
    <2>4. Cardinality(S) <= UserLimitQty
      BY <2>2, <2>3, PurchaseAssumption
    <2> QED
      BY <2>4 DEF S
  <1> QED
    BY TypeCorrect, SaleCorrect, <1>1, PTL

-----------------------------------------------------------------------------
(* The refinement.                                                         *)

(* An order is made of a piece of its request, and is closed once.         *)
OrderMoves ==
  \/ UNCHANGED order
  \/ /\ UNCHANGED cacheStock
     /\ \E r \in Requests :
          \/ /\ order[r] = "none" /\ Base(r)
             /\ order' = [order EXCEPT ![r] = "live"]
          \/ /\ order[r] = "live"
             /\ order' = [order EXCEPT ![r] = "closed"]

LEMMA StoredMoves ==
  ASSUME TypeOK, NEW r \in Requests, OrderStored(r) \/ UNCHANGED order,
         order[r] = "none" => Base(r), UNCHANGED cacheStock
  PROVE  OrderMoves
  <1>1. CASE order[r] = "none" /\ OrderStored(r)
    <2>1. order' = [order EXCEPT ![r] = "live"]
      BY <1>1 DEF OrderStored, TypeOK
    <2> QED
      BY <1>1, <2>1 DEF OrderMoves
  <1>2. CASE order[r] # "none" /\ OrderStored(r)
    <2>1. order' = order
      BY <1>2 DEF OrderStored, TypeOK
    <2> QED
      BY <2>1 DEF OrderMoves
  <1>3. CASE UNCHANGED order
    BY <1>3 DEF OrderMoves
  <1> QED
    BY <1>1, <1>2, <1>3

LEMMA OrderNext ==
  ASSUME TypeOK, SaleFits, Faults = {}, [Next]_vars
  PROVE  OrderMoves
  <1>1. ASSUME NEW a \in Attempts, OrderCreated(a) \/ OrderPending(a)
        PROVE  OrderMoves
    <2>1. /\ attempt[a] # Idle /\ attempt[a].step \in {"order", "replay"}
          /\ OrderStored(Req(a)) \/ UNCHANGED order
          /\ UNCHANGED cacheStock
      BY <1>1 DEF OrderCreated, OrderPending, OrderMaybeStored, At, stockVars,
                  cacheVars
    <2>2. Req(a) \in Requests /\ Beyond(a, Req(a))
      BY <2>1, HandlerAt DEF Beyond
    <2>3. order[Req(a)] = "none" => Base(Req(a))
      BY <2>2 DEF Base
    <2> QED
      BY <2>1, <2>2, <2>3, StoredMoves
  <1>2. ASSUME NEW k \in Consumers, ConsumePurchaseCreate(k)
        PROVE  OrderMoves
    <2>1. PICK r \in Requests : r = consumer[k].req /\ consumer[k] # Idle
      BY <1>2 DEF ConsumePurchaseCreate, Consumes, TypeOK, Consuming
    <2>2. OrderStored(r) /\ UNCHANGED cacheStock
      BY <1>2, <2>1 DEF ConsumePurchaseCreate, stockVars, cacheVars
    <2>3. order[r] = "none" => Base(r)
      BY <2>1 DEF SaleFits, ConsumerFits, Base
    <2> QED
      BY <2>2, <2>3, StoredMoves
  <1>3. ASSUME NEW r \in Requests, CloseOrder(r)
        PROVE  OrderMoves
    BY <1>3 DEF CloseOrder, OrderMoves, stockVars, cacheVars
  <1>4. ASSUME NEW a \in Attempts, Continue(a) \/ Crash(a),
               ~ OrderCreated(a), ~ OrderPending(a)
        PROVE  UNCHANGED order
    BY <1>4 DEF Continue, Crash, ReservePurchaseInCache, TryAsyncKafkaPath,
                ReserveDBAndHandleConflict, OrderRefused, CompensateRelease,
                RollbackReserveInCache
  <1>5. ASSUME NEW k \in Consumers, Consume(k) \/ ConsumerStops(k),
               ~ ConsumePurchaseCreate(k)
        PROVE  UNCHANGED order
    <2>1. ~ RetriesExhausted(k)
      BY DEF RetriesExhausted
    <2> QED
      BY <1>5, <2>1 DEF Consume, ConsumerStops, PublishStockCompensate
  <1>6. ASSUME NEW r \in Requests,
               \/ \E a \in Attempts : Purchase(a, r)
               \/ \E k \in Consumers : Poll(k, r)
               \/ ConsumeStockCompensate(r)
               \/ ReleaseClosedInDB(r) \/ ReleaseClosedInCache(r)
               \/ RequestKeyExpires(r)
        PROVE  UNCHANGED order
    BY <1>6 DEF Purchase, Poll, ConsumeStockCompensate, ReleaseClosedInDB,
                ReleaseClosedInCache, RequestKeyExpires
  <1>7. CASE UNCHANGED vars
    BY <1>7 DEF vars, OrderMoves
  <1> QED
    BY <1>1, <1>2, <1>3, <1>4, <1>5, <1>6, <1>7 DEF Next, OrderMoves

LEMMA LiveKeepsBase ==
  \A r \in Requests : order'[r] = "live" => <<r, "base">> \in Pieces'
  BY DEF Pieces, Base

(* SalePromise has its own instance of FiniteSets.                         *)
LEMMA SaleCardinality == \A S : Sale!Cardinality(S) = Cardinality(S)
  BY DEF Sale!Cardinality, Cardinality

LEMMA SaleKept ==
  ASSUME TypeOK, SaleInv, StepFits, OrderMoves
  PROVE  Sale!Next
  <1>1. cacheStock \in Nat
    BY DEF SaleInv, PieceSum
  <1>2. CASE Keeps
    <2>1. Sale!Keep(Pieces) /\ UNCHANGED cacheStock
      BY <1>2, LiveKeepsBase DEF Keeps, Sale!Keep
    <2>2. CASE UNCHANGED order
      BY <2>1, <2>2 DEF Sale!Lose, Sale!Next
    <2>3. ASSUME NEW r \in Requests, order[r] = "none", Base(r),
                 order' = [order EXCEPT ![r] = "live"]
          PROVE  Sale!Sell(r)
      BY <2>1, <2>3, PieceOf DEF Sale!Sell
    <2>4. ASSUME NEW r \in Requests, order[r] = "live",
                 order' = [order EXCEPT ![r] = "closed"]
          PROVE  Sale!Close(r)
      BY <2>1, <2>4 DEF Sale!Close
    <2> QED
      BY <2>2, <2>3, <2>4 DEF OrderMoves, Sale!Next
  <1>3. ASSUME NEW r \in Requests, Takes(r)
        PROVE  Sale!Next
    <2>1. cacheStock > 0 /\ cacheStock' = cacheStock - 1
      BY <1>3 DEF Takes
    <2>2. UNCHANGED order
      BY <1>1, <2>1 DEF OrderMoves
    <2>3. PICK kind \in Sale!Kinds : Pieces' \subseteq Pieces \cup {<<r, kind>>}
      BY <1>3 DEF Takes, PieceTaken, Sale!Kinds
    <2>4. ASSUME UserLimitQty > 0
          PROVE  Cardinality(PiecesOf(UserOf[r])) < UserLimitQty
      <3> DEFINE u == UserOf[r]
      <3>1. u \in Stock!Users
        BY UserType
      <3>2. bought[u] \in Nat /\ bought[u] + 1 <= UserLimitQty
        BY <1>3, <2>4, <3>1 DEF Takes, TypeOK, Stock!StockTypeOK
      <3>3. /\ Cardinality(PiecesOf(u)) <= bought[u]
            /\ Cardinality(PiecesOf(u)) \in Nat
        BY <2>4, <3>1, PiecesOfUser DEF SaleInv, PieceSum
      <3> HIDE DEF u
      <3>4. Cardinality(PiecesOf(u)) < UserLimitQty
        BY <3>2, <3>3, PurchaseAssumption
      <3> QED
        BY <3>4 DEF u
    <2>5. Sale!HeldBy(UserOf[r]) = PiecesOf(UserOf[r])
      BY DEF Sale!HeldBy, PiecesOf
    <2>6. UserLimitQty > 0 => Cardinality(Sale!HeldBy(UserOf[r])) < UserLimitQty
      BY <2>4, <2>5
    <2>7. Sale!Keep(Pieces \cup {<<r, kind>>})
      BY <2>3, LiveKeepsBase DEF Sale!Keep
    <2>8. Sale!Take(r, kind)
      BY <2>1, <2>2, <2>6, <2>7, SaleCardinality DEF Sale!Take
    <2> QED
      BY <2>8 DEF Sale!Next
  <1>4. ASSUME NEW r \in Requests, GivesBack(r)
        PROVE  Sale!Next
    <2>1. cacheStock' = cacheStock + 1
      BY <1>1, <1>4 DEF GivesBack, Stock!Credit, Stock!NoKey
    <2>2. UNCHANGED order
      BY <1>1, <2>1 DEF OrderMoves
    <2>3. PICK kind \in Sale!Kinds :
            <<r, kind>> \in Pieces /\ Pieces' \subseteq Pieces \ {<<r, kind>>}
      BY <1>4 DEF GivesBack, PieceReturned, Sale!Kinds
    <2>4. Sale!Keep(Pieces \ {<<r, kind>>})
      BY <2>3, LiveKeepsBase DEF Sale!Keep
    <2>5. Sale!GiveBack(r, kind)
      BY <2>1, <2>2, <2>3, <2>4 DEF Sale!GiveBack
    <2> QED
      BY <2>5 DEF Sale!Next
  <1> QED
    BY <1>2, <1>3, <1>4 DEF StepFits

(* Without faults, seckill-rpc and its consumers implement the sale: every *)
(* script, message, repeat, crash and release takes, gives back, sells or  *)
(* loses a piece of one request, or does none of these.                    *)
THEOREM SaleRefined ==
  ASSUME Faults = {}
  PROVE  Spec => KeepsSale
  <1>1. Init => Sale!Init
    BY DEF Init, Sale!Init, Stock!StockInit, Pieces, Base, Extra, Beyond,
           Returns, On
  <1>2. TypeOK /\ LedgerInv /\ SaleInv /\ [Next]_vars => [Sale!Next]_(Sale!vars)
    BY NextFits, OrderNext, SaleKept DEF SaleInv
  <1> QED
    BY <1>1, <1>2, TypeCorrect, LedgerCorrect, SaleCorrect, PTL
    DEF Spec, KeepsSale, Sale!Spec

-----------------------------------------------------------------------------
(* What the abstract sale is worth: its steps alone, and no knowledge of   *)
(* stores and processes, bound what is sold.                               *)

Bounded ==
  /\ cacheStock \in Nat
  /\ IsFiniteSet(Pieces)
  /\ cacheStock + Cardinality(Pieces) <= ReservedStockTotal
  /\ UserLimitQty > 0 =>
       \A u \in Stock!Users : Cardinality(PiecesOf(u)) <= UserLimitQty

LEMMA BoundedInit == Sale!Init => Bounded
  <1> SUFFICES ASSUME Sale!Init PROVE Bounded
    OBVIOUS
  <1>1. Pieces = {} /\ cacheStock = ReservedStockTotal
    BY DEF Sale!Init
  <1>2. \A u : PiecesOf(u) = {}
    BY <1>1 DEF PiecesOf
  <1> QED
    BY <1>1, <1>2, FS_EmptySet, PurchaseAssumption DEF Bounded

LEMMA FewerOfUser ==
  ASSUME IsFiniteSet(Pieces), Pieces' \subseteq Pieces, NEW u
  PROVE  /\ Cardinality(PiecesOf(u)') <= Cardinality(PiecesOf(u))
         /\ Cardinality(PiecesOf(u)') \in Nat /\ Cardinality(PiecesOf(u)) \in Nat
  <1>1. PiecesOf(u)' \in SUBSET PiecesOf(u)
    BY DEF PiecesOf
  <1> QED
    BY <1>1, PiecesOfUser, FS_Subset, FS_CardinalityType

LEMMA BoundedKept ==
  ASSUME Bounded, cacheStock' = cacheStock, Pieces' \subseteq Pieces
  PROVE  Bounded'
  <1>1. /\ IsFiniteSet(Pieces') /\ Cardinality(Pieces') <= Cardinality(Pieces)
        /\ Cardinality(Pieces') \in Nat /\ Cardinality(Pieces) \in Nat
    BY FS_Subset, FS_CardinalityType DEF Bounded
  <1>2. cacheStock' + Cardinality(Pieces') <= ReservedStockTotal
    BY <1>1, PurchaseAssumption DEF Bounded
  <1>3. ASSUME UserLimitQty > 0, NEW u \in Stock!Users
        PROVE  Cardinality(PiecesOf(u)') <= UserLimitQty
    BY <1>3, FewerOfUser, PurchaseAssumption DEF Bounded
  <1>4. Stock!Users' = Stock!Users
    BY DEF Stock!Users
  <1> QED
    BY <1>1, <1>2, <1>3, <1>4 DEF Bounded

LEMMA BoundedTake ==
  ASSUME Bounded, NEW r \in Requests, NEW kind, Sale!Take(r, kind)
  PROVE  Bounded'
  <1>1. /\ cacheStock > 0 /\ cacheStock' = cacheStock - 1
        /\ Pieces' \subseteq Pieces \cup {<<r, kind>>}
    BY DEF Sale!Take, Sale!Keep
  <1>2. UserLimitQty > 0 => Cardinality(PiecesOf(UserOf[r])) < UserLimitQty
    <2>1. Sale!HeldBy(UserOf[r]) = PiecesOf(UserOf[r])
      BY DEF Sale!HeldBy, PiecesOf
    <2> QED
      BY <2>1, SaleCardinality DEF Sale!Take
  <1>3. IsFiniteSet(Pieces) /\ cacheStock \in Nat
    BY DEF Bounded
  <1>4. /\ IsFiniteSet(Pieces')
        /\ Cardinality(Pieces) \in Nat /\ Cardinality(Pieces') \in Nat
        /\ Cardinality(Pieces') <= Cardinality(Pieces) + 1
    BY <1>1, <1>3, OneMore
  <1>5. cacheStock' \in Nat /\ cacheStock' + Cardinality(Pieces') <= ReservedStockTotal
    BY <1>1, <1>3, <1>4, PurchaseAssumption DEF Bounded
  <1>6. ASSUME UserLimitQty > 0, NEW u \in Stock!Users
        PROVE  Cardinality(PiecesOf(u)') <= UserLimitQty
    <2>1. /\ IsFiniteSet(PiecesOf(u)) /\ Cardinality(PiecesOf(u)) \in Nat
          /\ Cardinality(PiecesOf(u)) <= UserLimitQty
      BY <1>3, <1>6, PiecesOfUser DEF Bounded
    <2>2. CASE u = UserOf[r]
      <3>1. PiecesOf(u)' \in SUBSET (PiecesOf(u) \cup {<<r, kind>>})
        BY <1>1 DEF PiecesOf
      <3>2. /\ Cardinality(PiecesOf(u)') <= Cardinality(PiecesOf(u)) + 1
            /\ Cardinality(PiecesOf(u)') \in Nat
        BY <2>1, <3>1, OneMore
      <3>3. Cardinality(PiecesOf(u)) < UserLimitQty
        BY <1>2, <1>6, <2>2
      <3> QED
        BY <2>1, <3>2, <3>3, PurchaseAssumption
    <2>3. CASE u # UserOf[r]
      <3>1. PiecesOf(u)' \in SUBSET PiecesOf(u)
        BY <1>1, <2>3 DEF PiecesOf
      <3>2. /\ Cardinality(PiecesOf(u)') <= Cardinality(PiecesOf(u))
            /\ Cardinality(PiecesOf(u)') \in Nat
        BY <2>1, <3>1, FS_Subset, FS_CardinalityType
      <3> QED
        BY <2>1, <3>2, PurchaseAssumption
    <2> QED
      BY <2>2, <2>3
  <1>7. Stock!Users' = Stock!Users
    BY DEF Stock!Users
  <1> QED
    BY <1>4, <1>5, <1>6, <1>7 DEF Bounded

LEMMA BoundedGiveBack ==
  ASSUME Bounded, NEW r \in Requests, NEW kind, Sale!GiveBack(r, kind)
  PROVE  Bounded'
  <1>1. /\ <<r, kind>> \in Pieces /\ cacheStock' = cacheStock + 1
        /\ Pieces' \in SUBSET (Pieces \ {<<r, kind>>})
    BY DEF Sale!GiveBack, Sale!Keep
  <1>2. IsFiniteSet(Pieces) /\ cacheStock \in Nat
    BY DEF Bounded
  <1>3. /\ IsFiniteSet(Pieces')
        /\ Cardinality(Pieces) \in Nat /\ Cardinality(Pieces') \in Nat
        /\ Cardinality(Pieces') + 1 <= Cardinality(Pieces)
    BY <1>1, <1>2, OneLess
  <1>4. cacheStock' \in Nat /\ cacheStock' + Cardinality(Pieces') <= ReservedStockTotal
    BY <1>1, <1>2, <1>3, PurchaseAssumption DEF Bounded
  <1>5. ASSUME UserLimitQty > 0, NEW u \in Stock!Users
        PROVE  Cardinality(PiecesOf(u)') <= UserLimitQty
    <2>1. Pieces' \subseteq Pieces
      BY <1>1
    <2> QED
      BY <1>2, <1>5, <2>1, FewerOfUser, PurchaseAssumption DEF Bounded
  <1>6. Stock!Users' = Stock!Users
    BY DEF Stock!Users
  <1> QED
    BY <1>3, <1>4, <1>5, <1>6 DEF Bounded

LEMMA BoundedNext ==
  ASSUME Bounded, [Sale!Next]_(Sale!vars)
  PROVE  Bounded'
  <1>1. CASE Sale!Lose \/ \E r \in Requests : Sale!Sell(r) \/ Sale!Close(r)
    <2>1. cacheStock' = cacheStock /\ Pieces' \subseteq Pieces
      BY <1>1 DEF Sale!Lose, Sale!Sell, Sale!Close, Sale!Keep
    <2> QED
      BY <2>1, BoundedKept
  <1>2. CASE UNCHANGED Sale!vars
    <2>1. cacheStock' = cacheStock /\ Pieces' \subseteq Pieces
      BY <1>2 DEF Sale!vars
    <2> QED
      BY <2>1, BoundedKept
  <1> QED
    BY <1>1, <1>2, BoundedTake, BoundedGiveBack DEF Sale!Next

LEMMA BoundedFits ==
  ASSUME Bounded
  PROVE  NoOversell /\ LimitRespected
  <1>1. Live \in SUBSET Requests /\ \A r \in Live : <<r, "base">> \in Pieces
    BY PieceOf DEF Live, Base
  <1>2. NoOversell
    <2>1. /\ Cardinality(Live) \in Nat
          /\ Cardinality(Live) <= Cardinality(Pieces) /\ Cardinality(Pieces) \in Nat
      BY <1>1, PiecesBound DEF Bounded
    <2> QED
      BY <2>1, PurchaseAssumption DEF NoOversell, Bounded
  <1>3. ASSUME UserLimitQty > 0, NEW u \in Stock!Users
        PROVE  Cardinality({r \in Live : UserOf[r] = u}) <= UserLimitQty
    <2> DEFINE S == {r \in Live : UserOf[r] = u}
    <2>1. S \in SUBSET Requests /\ \A r \in S : <<r, "base">> \in PiecesOf(u)
      BY <1>1 DEF PiecesOf
    <2> HIDE DEF S
    <2>2. IsFiniteSet(PiecesOf(u)) /\ Cardinality(PiecesOf(u)) <= UserLimitQty
      BY <1>3, PiecesOfUser DEF Bounded
    <2>3. /\ Cardinality(S) \in Nat /\ Cardinality(PiecesOf(u)) \in Nat
          /\ Cardinality(S) <= Cardinality(PiecesOf(u))
      BY <2>1, <2>2, PiecesBound
    <2>4. Cardinality(S) <= UserLimitQty
      BY <2>2, <2>3, PurchaseAssumption
    <2> QED
      BY <2>4 DEF S
  <1> QED
    BY <1>2, <1>3 DEF LimitRespected

(* Whatever keeps to the steps of SalePromise, with whichever faults, does *)
(* not sell more than there is, nor more to a user than the limit.         *)
THEOREM SaleIsBounded ==
  KeepsSale => [](NoOversell /\ LimitRespected)
  BY BoundedInit, BoundedNext, BoundedFits, PTL DEF KeepsSale, Sale!Spec
=============================================================================
