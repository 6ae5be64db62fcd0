--------------------------- MODULE ProductService ---------------------------
(***************************************************************************)
(* productSvcImpl (internal/service/product_service.go): the goroutines    *)
(* that serve Product requests, the products table they share through the  *)
(* repository and the Redis cache they share through cacheClient.          *)
(*                                                                         *)
(* One action is one call a handler makes on the database or the cache,    *)
(* with the code up to the next such call: between two of them any other   *)
(* request may run.  Every call may fail, and does once the deadline of    *)
(* the request's context has passed.  A write may also take place and      *)
(* still be reported as failed.                                            *)
(***************************************************************************)
EXTENDS ProductTypes

CONSTANTS
  TTL,     \* lifetime of a cache entry, in ticks (10 minutes)
  Timeout  \* deadline of a request, in ticks (30 s over HTTP, 5 s over gRPC)

ASSUME TimeAssumption == TTL \in Nat \ {0} /\ Timeout \in Nat \ {0}

VARIABLES
  table, nextId,             \* the products table and its key sequence
  cache, ttl,                \* Redis: document and remaining ticks, per SKU
  pc, req, item, resp,       \* per request: next call, request, row, answer
  timer,                     \* per request: ticks left before its deadline
  itemLag, cacheLag          \* history: ticks since item[w], or the document
                             \* cached under k, was last a row of the table

database == <<table, nextId>>
redis    == <<cache, ttl, cacheLag>>
server   == <<pc, req, item, resp, timer, itemLag>>
vars     == <<database, redis, server>>

PC == {"idle", "find", "fill", "count", "insert", "update", "delete",
       "lookup", "done"}

Init ==
  /\ table = {} /\ nextId = 1
  /\ cache = [k \in Skus |-> None]
  /\ ttl = [k \in Skus |-> 0]
  /\ cacheLag = [k \in Skus |-> 0]
  /\ pc = [w \in Workers |-> "idle"]
  /\ req = [w \in Workers |-> None]
  /\ item = [w \in Workers |-> None]
  /\ resp = [w \in Workers |-> None]
  /\ timer = [w \in Workers |-> 0]
  /\ itemLag = [w \in Workers |-> 0]

-----------------------------------------------------------------------------
(* Control of one request. *)

FirstCall(op) ==
  CASE op = "create" -> "count"
    [] op = "cached" -> "lookup"
    [] op \in {"get", "update", "delete"} -> "find"

(* The context of w has not expired, so an external call can succeed. *)
Live(w) == timer[w] > 0

(* The handler returns: its context and its locals are gone. *)
Respond(w, a) ==
  /\ pc' = [pc EXCEPT ![w] = "done"]
  /\ resp' = [resp EXCEPT ![w] = a]
  /\ item' = [item EXCEPT ![w] = None]
  /\ timer' = [timer EXCEPT ![w] = 0]
  /\ itemLag' = [itemLag EXCEPT ![w] = 0]
  /\ UNCHANGED req

Continue(w, next) ==
  /\ pc' = [pc EXCEPT ![w] = next]
  /\ UNCHANGED <<req, item, resp, timer, itemLag>>

(* FindByUid returned r: the handler goes on with it. *)
Holding(w, r, next) ==
  /\ pc' = [pc EXCEPT ![w] = next]
  /\ item' = [item EXCEPT ![w] = r]
  /\ UNCHANGED <<req, resp, timer, itemLag>>

Forget(w) ==
  /\ pc' = [pc EXCEPT ![w] = "idle"]
  /\ req' = [req EXCEPT ![w] = None]
  /\ item' = [item EXCEPT ![w] = None]
  /\ resp' = [resp EXCEPT ![w] = None]
  /\ timer' = [timer EXCEPT ![w] = 0]
  /\ itemLag' = [itemLag EXCEPT ![w] = 0]
  /\ UNCHANGED <<database, redis>>

Receive(w, r) ==
  /\ pc[w] = "idle"
  /\ pc' = [pc EXCEPT ![w] = FirstCall(r.op)]
  /\ req' = [req EXCEPT ![w] = r]
  /\ timer' = [timer EXCEPT ![w] = Timeout]
  /\ UNCHANGED <<item, resp, itemLag, database, redis>>

(* The answer is written to the connection. *)
Reply(w) == pc[w] = "done" /\ Forget(w)

(* The process stops: a crash, a redeployment or a recovered panic. *)
Abandon(w) == pc[w] # "idle" /\ Forget(w)

-----------------------------------------------------------------------------
(* GetProduct, UpdateProduct and DeleteProduct begin with FindByUid. *)

FillWithoutSku(w, r) ==
  \/ req[w].op = "update" /\ Holding(w, r, "update")
  \/ req[w].op = "delete" /\ Holding(w, r, "delete")
  \/ req[w].op = "get" /\ Holding(w, r, "fill")

AfterFind(w, r) ==
  \/ req[w].op = "update" /\ Holding(w, r, "update")
  \/ req[w].op = "delete" /\ Holding(w, r, "delete")
  \/ req[w].op = "get" /\ r.sku # NoSku /\ Holding(w, r, "fill")
  \/ req[w].op = "get" /\ r.sku = NoSku /\ Respond(w, Ans("ok", r))

Find(w) ==
  /\ pc[w] = "find"
  /\ UNCHANGED <<database, redis>>
  /\ \/ Live(w) /\ \E r \in table : r.id = req[w].id /\ AfterFind(w, r)
     \/ Live(w) /\ ~HasId(table, req[w].id) /\ Respond(w, Plain("not_found"))
     \/ Respond(w, Plain("error"))

(* jsonx.Marshal, its error dropped: no document, which is stored all the  *)
(* same.                                                                   *)
Marshal(r) == IF r.val \in NonJson THEN Blank ELSE r

Store(k, d, lag) ==
  /\ cache' = [cache EXCEPT ![k] = d]
  /\ ttl' = [ttl EXCEPT ![k] = TTL]
  /\ cacheLag' = [cacheLag EXCEPT ![k] = lag]

(* SetWithExpireCtx in GetProduct: whether or not it fails, the product    *)
(* that was read is the answer.                                            *)
DetachedFill(w) ==
  /\ pc[w] = "fill"
  /\ Respond(w, Ans("ok", item[w]))
  /\ UNCHANGED database
  /\ Store(item[w].sku, Marshal(item[w]), itemLag[w])

Fill(w) ==
  /\ pc[w] = "fill"
  /\ Respond(w, Ans("ok", item[w]))
  /\ UNCHANGED database
  /\ \/ Live(w) /\ Store(item[w].sku, Marshal(item[w]), itemLag[w])
     \/ UNCHANGED redis

-----------------------------------------------------------------------------
(* CreateProduct: CountBySku, then Create. *)

(* An error of the count is not looked at: creation goes on. *)
Count(w) ==
  /\ pc[w] = "count"
  /\ UNCHANGED <<database, redis>>
  /\ \/ Live(w) /\ HasSku(table, req[w].sku) /\ Respond(w, Plain("duplicate"))
     \/ Live(w) /\ ~HasSku(table, req[w].sku) /\ Continue(w, "insert")
     \/ Continue(w, "insert")

(* The unique index on sku (entity.Product). *)
NoIndex(sku) == TRUE
IndexAdmits(sku) == ~HasSku(table, sku)

NewRow(r) == [id |-> nextId, sku |-> r.sku, val |-> r.val]

InsertRow(w) ==
  /\ Live(w)
  /\ nextId \in Ids
  /\ IndexAdmits(req[w].sku)
  /\ table' = table \cup {NewRow(req[w])}
  /\ nextId' = nextId + 1

InsertUnchecked(w) ==
  /\ pc[w] = "insert"
  /\ UNCHANGED redis
  /\ \/ InsertRow(w) /\ Respond(w, Plain("ok"))
     \/ UNCHANGED database /\ Respond(w, Plain("ok"))

Insert(w) ==
  /\ pc[w] = "insert"
  /\ UNCHANGED redis
  /\ \/ InsertRow(w) /\ Respond(w, Plain("ok"))
     \/ InsertRow(w) /\ Respond(w, Plain("error"))
     \/ UNCHANGED database /\ Respond(w, Plain("error"))

-----------------------------------------------------------------------------
(* UpdateProduct writes by the id of the row it found.  Where UpdateById   *)
(* fails the handler returns the nil error of FindByUid, so every outcome  *)
(* of this call is answered like a success: the row written, no such row   *)
(* any more, or nothing done.                                              *)
SaveById(id, r) ==
  table' = WithoutId(table, id) \cup {[id |-> id, sku |-> r.sku, val |-> r.val]}
UpdateAllById(id, r) ==
  table' = {IF x.id = id THEN [id |-> id, sku |-> r.sku, val |-> r.val] ELSE x :
              x \in table}
UpdateById(id, r) == table' = WithVal(table, id, r.val)

UpdateUntilWritten(w) ==
  /\ pc[w] = "update"
  /\ UNCHANGED <<redis, nextId>>
  /\ Live(w) /\ UpdateById(item[w].id, req[w]) /\ Respond(w, Plain("ok"))

Update(w) ==
  /\ pc[w] = "update"
  /\ Respond(w, Plain("ok"))
  /\ UNCHANGED <<redis, nextId>>
  /\ \/ Live(w) /\ UpdateById(item[w].id, req[w])
     \/ UNCHANGED table

(* DeleteProduct.  A row that is already gone is a success or an error, as *)
(* the repository has it.                                                  *)
Delete(w) ==
  /\ pc[w] = "delete"
  /\ UNCHANGED <<redis, nextId>>
  /\ \/ /\ Live(w)
        /\ table' = WithoutId(table, item[w].id)
        /\ Respond(w, Plain("ok")) \/ Respond(w, Plain("error"))
     \/ UNCHANGED table /\ Respond(w, Plain("error"))

-----------------------------------------------------------------------------
(* GetProductFromCache. *)
Lookup(w) ==
  /\ pc[w] = "lookup"
  /\ UNCHANGED <<database, redis>>
  /\ LET k == req[w].sku IN
     IF k = NoSku THEN Respond(w, Plain("bad_request"))
     ELSE \/ Live(w) /\ cache[k] # None /\ Respond(w, Ans("hit", cache[k]))
          \/ Live(w) /\ cache[k] = None /\ Respond(w, Plain("miss"))
          \/ Respond(w, Plain("error"))

-----------------------------------------------------------------------------
(* Redis and the clock. *)

(* Redis drops an entry: memory pressure, a restart. *)
Evict(k) ==
  /\ cache[k] # None
  /\ cache' = [cache EXCEPT ![k] = None]
  /\ ttl' = [ttl EXCEPT ![k] = 0]
  /\ cacheLag' = [cacheLag EXCEPT ![k] = 0]
  /\ UNCHANGED <<database, server>>

(* Ticks since d was last a row of the table, one tick later, counted up   *)
(* to LagCap, which is more than any property asks for.                    *)
LagCap == TTL + Timeout

Aged(d, lag) ==
  IF d \in table THEN 0 ELSE IF lag < LagCap THEN lag + 1 ELSE lag

Countdown(n) == IF n > 0 THEN n - 1 ELSE 0

(* An entry lives for the time it was stored with. *)
KeptForever(k) == ttl[k]
Remaining(k) == Countdown(ttl[k])

(* A tick: deadlines come closer, entries whose time is up disappear.  The *)
(* history counters stop where the clock they are measured by does.        *)
Tick ==
  /\ timer' = [w \in Workers |-> Countdown(timer[w])]
  /\ itemLag' = [w \in Workers |->
                   IF Live(w) /\ item[w] # None THEN Aged(item[w], itemLag[w])
                   ELSE itemLag[w]]
  /\ ttl' = [k \in Skus |-> Remaining(k)]
  /\ cache' = [k \in Skus |-> IF Remaining(k) > 0 THEN cache[k] ELSE None]
  /\ cacheLag' = [k \in Skus |-> IF Remaining(k) > 0
                                 THEN Aged(cache[k], cacheLag[k]) ELSE 0]
  /\ UNCHANGED <<database, pc, req, item, resp>>

-----------------------------------------------------------------------------
Step(w) ==
  \/ Find(w) \/ Fill(w) \/ Count(w) \/ Insert(w) \/ Update(w) \/ Delete(w)
  \/ Lookup(w) \/ Reply(w)

Next ==
  \/ \E w \in Workers :
       \/ \E r \in Request : Receive(w, r)
       \/ Step(w)
       \/ Abandon(w)
  \/ \E k \in Skus : Evict(k)
  \/ Tick

Spec == Init /\ [][Next]_vars

(* A goroutine that can run is run, and a call on the database or the      *)
(* cache returns, if only because its deadline passes; time passes.        *)
Fairness == WF_vars(Tick) /\ \A w \in Workers : WF_vars(Step(w))

FairSpec == Spec /\ Fairness
=============================================================================
