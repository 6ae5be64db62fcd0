-------------------------- MODULE ProductProperties --------------------------
(***************************************************************************)
(* What the product service guarantees about its table, its cache and its  *)
(* answers, and what its documents say of it that does not hold.           *)
(***************************************************************************)
EXTENDS ProductService

(* Every variable has its type; a request is at a call of its operation,   *)
(* holds a row exactly while it goes on with one, and has an answer        *)
(* exactly when it is done.                                                *)
LocationsOf(op) ==
  CASE op = "get"    -> {"find", "fill", "done"}
    [] op = "create" -> {"count", "insert", "done"}
    [] op = "update" -> {"find", "update", "done"}
    [] op = "delete" -> {"find", "delete", "done"}
    [] op = "cached" -> {"lookup", "done"}

RequestOK(w) ==
  /\ (req[w] = None) <=> (pc[w] = "idle")
  /\ req[w] # None => pc[w] \in LocationsOf(req[w].op)
  /\ (item[w] # None) <=> (pc[w] \in {"fill", "update", "delete"})
  /\ item[w] # None => item[w].id = req[w].id
  /\ (resp[w] # None) <=> (pc[w] = "done")
  /\ pc[w] = "fill" => item[w].sku # NoSku

DatabaseOK ==
  /\ table \subseteq Row
  /\ nextId \in 1..(MaxId + 1)

RedisOK ==
  /\ cache \in [Skus -> Doc \cup {None}]
  /\ ttl \in [Skus -> 0..TTL]
  /\ cacheLag \in [Skus -> Nat]

ServerOK ==
  /\ pc \in [Workers -> PC]
  /\ req \in [Workers -> Request \cup {None}]
  /\ item \in [Workers -> Row \cup {None}]
  /\ resp \in [Workers -> Answer \cup {None}]
  /\ timer \in [Workers -> 0..Timeout]
  /\ itemLag \in [Workers -> Nat]
  /\ \A w \in Workers : RequestOK(w)

TypeOK == DatabaseOK /\ RedisOK /\ ServerOK

-----------------------------------------------------------------------------
(* No two products share an SKU or an id, although CreateProduct counts    *)
(* and inserts in two calls, creates without a count when the count fails, *)
(* and any number of creations of one SKU run side by side.                *)
TableKeysUnique ==
  /\ \A r1, r2 \in table : r1.sku = r2.sku \/ r1.id = r2.id => r1 = r2
  /\ \A r \in table : r.id < nextId

(* d is, or was, the row of a product whose SKU has not changed since.     *)
Traceable(d) ==
  /\ d.id < nextId
  /\ \A r \in table : r.id = d.id => r.sku = d.sku

(* A product found in the cache under an SKU is a product with this SKU,   *)
(* and if the row it was copied from is still there, so does that row:     *)
(* however late GetProduct stores what it has read, it stores it where     *)
(* GetProductFromCache will take it for the right product.                 *)
CachedUnderItsSku ==
  \A k \in Skus :
    cache[k] \in Row => cache[k].sku = k /\ Traceable(cache[k])

(* A product is served from the cache at most TTL + Timeout - 2 whole      *)
(* ticks after it was last in the table: nothing invalidates a cached copy *)
(* when its product is updated or deleted, and a slow GetProduct may even  *)
(* store one that is already out of date, but its deadline and the         *)
(* expiration bound the delay together.                                    *)
BoundedStaleness ==
  \A k \in Skus : cache[k] # None => cacheLag[k] <= TTL + Timeout - 2

(* A deleted product never comes back under its id, not even through an    *)
(* UpdateProduct that read the row before it was deleted.                  *)
NoResurrection ==
  [][\A id \in Ids :
       id < nextId /\ ~HasId(table, id) => ~HasId(table', id)]_vars

-----------------------------------------------------------------------------
(* The service implements the catalog: a GetProduct is decided when it has *)
(* read its row, every other request with the call that answers it.        *)
Decided(w) == IF pc[w] = "fill" THEN Ans("ok", item[w]) ELSE resp[w]

Catalog == INSTANCE ProductCatalog
             WITH call <- req, answer <- [w \in Workers |-> Decided(w)]

(* Every answer is one the catalog gives at some instant between the       *)
(* request and its return, together with the change of the table the       *)
(* catalog makes there.                                                    *)
ImplementsCatalog == Catalog!Spec

-----------------------------------------------------------------------------
(* Every request comes to its end, even while other requests keep creating *)
(* and deleting the row it looks for.                                      *)
EveryRequestEnds ==
  \A w \in Workers : pc[w] # "idle" ~> pc[w] = "idle"

NoStaleCopy == \A k \in Skus : cache[k] \in Row => cache[k] \in table

(* Once products are no longer written, the cache comes to hold nothing    *)
(* but products of the table, for good, even though GetProduct goes on     *)
(* filling it.                                                             *)
CacheConverges == <>[][table' = table]_vars => <>[]NoStaleCopy

-----------------------------------------------------------------------------
(* Statements of the repository's documents that do not hold.              *)

(* "Proper HTTP status codes": an UpdateProduct that is answered with      *)
(* success has written the values it was given.                            *)
SuccessMeansUpdated ==
  [][\A w \in Workers :
       pc[w] = "update" /\ pc'[w] = "done" /\ resp'[w].code = "ok" =>
         \E r \in table' : r.id = req[w].id /\ r.val = req[w].val]_vars

(* "JSON string of product": a cache hit carries a product.                *)
HitCarriesProduct ==
  \A w \in Workers :
    resp[w] # None /\ resp[w].code = "hit" => resp[w].body \in Row

(* "Cache-aside pattern": whoever changes a product takes its copy out of  *)
(* the cache, so that no stale copy is left when no request is running.    *)
NoStaleCopyAtRest == (\A w \in Workers : pc[w] = "idle") => NoStaleCopy
=============================================================================
