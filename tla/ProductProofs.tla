---------------------------- MODULE ProductProofs ----------------------------
(***************************************************************************)
(* Proofs about the product service, for any number of requests, rows,     *)
(* SKUs and contents, any expiration and any deadline.                     *)
(***************************************************************************)
EXTENDS ProductProperties, TLAPS

USE TypesAssumption, SentinelAssumption, RequestAssumption, AnswerAssumption,
    TimeAssumption

-----------------------------------------------------------------------------
(* Type correctness. *)

(* The operations there are. *)
LEMMA Operations ==
  ASSUME NEW r \in Request
  PROVE  /\ r.op \in {"get", "create", "update", "delete", "cached"}
         /\ r.op \in {"get", "update", "delete"} => r.id \in Ids
         /\ r.op = "create" => r \in CreateRequest
         /\ r.op = "update" => r \in UpdateRequest
         /\ r.op = "cached" => r.sku \in AnySku
  BY DEF Request, GetRequest, CreateRequest, UpdateRequest, DeleteRequest,
         CachedRequest

(* A handler returns an answer: its request is done and holds no row. *)
LEMMA RespondType ==
  ASSUME ServerOK, NEW w \in Workers, NEW a \in Answer,
         req[w] # None, Respond(w, a)
  PROVE  ServerOK'
<1>1. /\ pc' \in [Workers -> PC]
      /\ req' \in [Workers -> Request \cup {None}]
      /\ item' \in [Workers -> Row \cup {None}]
      /\ resp' \in [Workers -> Answer \cup {None}]
      /\ timer' \in [Workers -> 0..Timeout]
      /\ itemLag' \in [Workers -> Nat]
  BY DEF ServerOK, Respond, PC
<1>2. ASSUME NEW v \in Workers PROVE RequestOK(v)'
  <2>1. CASE v = w
    BY <2>1, Operations DEF ServerOK, RequestOK, Respond, LocationsOf
  <2>2. CASE v # w
    BY <2>2 DEF ServerOK, RequestOK, Respond, LocationsOf
  <2> QED BY <2>1, <2>2
<1> QED BY <1>1, <1>2 DEF ServerOK

(* A request comes to an end and leaves nothing behind. *)
LEMMA ForgetType ==
  ASSUME ServerOK, NEW w \in Workers, Forget(w)
  PROVE  ServerOK'
<1>1. /\ pc' \in [Workers -> PC]
      /\ req' \in [Workers -> Request \cup {None}]
      /\ item' \in [Workers -> Row \cup {None}]
      /\ resp' \in [Workers -> Answer \cup {None}]
      /\ timer' \in [Workers -> 0..Timeout]
      /\ itemLag' \in [Workers -> Nat]
  BY DEF ServerOK, Forget, PC
<1>2. ASSUME NEW v \in Workers PROVE RequestOK(v)'
  <2>1. CASE v = w
    BY <2>1 DEF ServerOK, RequestOK, Forget
  <2>2. CASE v # w
    BY <2>2 DEF ServerOK, RequestOK, Forget, LocationsOf
  <2> QED BY <2>1, <2>2
<1> QED BY <1>1, <1>2 DEF ServerOK

(* A handler goes on with the row it has found. *)
LEMMA HoldingType ==
  ASSUME ServerOK, NEW w \in Workers, NEW r \in Row,
         NEW next \in {"fill", "update", "delete"},
         pc[w] = "find", r.id = req[w].id,
         next \in LocationsOf(req[w].op),
         next = "fill" => r.sku # NoSku,
         Holding(w, r, next)
  PROVE  ServerOK'
<1>1. /\ pc' \in [Workers -> PC]
      /\ req' \in [Workers -> Request \cup {None}]
      /\ item' \in [Workers -> Row \cup {None}]
      /\ resp' \in [Workers -> Answer \cup {None}]
      /\ timer' \in [Workers -> 0..Timeout]
      /\ itemLag' \in [Workers -> Nat]
  BY DEF ServerOK, Holding, PC
<1>2. ASSUME NEW v \in Workers PROVE RequestOK(v)'
  <2>1. CASE v = w
    <3>1. pc'[v] = next /\ item'[v] = r /\ req'[v] = req[v] /\ resp'[v] = resp[v]
      BY <2>1 DEF ServerOK, Holding
    <3>2. req[v] # None /\ resp[v] = None /\ r # None
      BY <2>1 DEF ServerOK, RequestOK, Doc
    <3>3. pc'[v] \in LocationsOf(req[v].op)
      BY <2>1, <3>1
    <3> QED BY <2>1, <3>1, <3>2, <3>3 DEF RequestOK, LocationsOf
  <2>2. CASE v # w
    BY <2>2 DEF ServerOK, RequestOK, Holding, LocationsOf
  <2> QED BY <2>1, <2>2
<1> QED BY <1>1, <1>2 DEF ServerOK

(* Each step of a request. *)
LEMMA FindType ==
  ASSUME TypeOK, NEW w \in Workers, Find(w)
  PROVE  TypeOK'
<1>1. DatabaseOK' /\ RedisOK'
  BY DEF TypeOK, DatabaseOK, RedisOK, Find, database, redis
<1>2. ServerOK /\ pc[w] = "find" /\ req[w] # None
  BY DEF TypeOK, ServerOK, RequestOK, Find
<1>3. CASE \E r \in table : r.id = req[w].id /\ AfterFind(w, r)
  <2>1. PICK r \in table : r.id = req[w].id /\ AfterFind(w, r)
    BY <1>3
  <2>2. r \in Row
    BY DEF TypeOK, DatabaseOK
  <2>3. Ans("ok", r) \in Answer
    BY <2>2 DEF Ans, Answer, Code, Doc
  <2>4. CASE req[w].op = "update" /\ Holding(w, r, "update")
    BY <1>1, <1>2, <2>1, <2>2, <2>4, HoldingType DEF TypeOK, LocationsOf
  <2>5. CASE req[w].op = "delete" /\ Holding(w, r, "delete")
    BY <1>1, <1>2, <2>1, <2>2, <2>5, HoldingType DEF TypeOK, LocationsOf
  <2>6. CASE req[w].op = "get" /\ r.sku # NoSku /\ Holding(w, r, "fill")
    BY <1>1, <1>2, <2>1, <2>2, <2>6, HoldingType DEF TypeOK, LocationsOf
  <2>7. CASE Respond(w, Ans("ok", r))
    BY <1>1, <1>2, <2>3, <2>7, RespondType DEF TypeOK
  <2> QED BY <2>1, <2>4, <2>5, <2>6, <2>7 DEF AfterFind
<1>4. CASE Respond(w, Plain("not_found")) \/ Respond(w, Plain("error"))
  <2>1. Plain("not_found") \in Answer /\ Plain("error") \in Answer
    BY DEF Plain, Ans, Answer, Code
  <2> QED BY <1>1, <1>2, <1>4, <2>1, RespondType DEF TypeOK
<1> QED BY <1>3, <1>4 DEF Find

LEMMA FillType ==
  ASSUME TypeOK, NEW w \in Workers, Fill(w)
  PROVE  TypeOK'
<1>1. /\ pc[w] = "fill" /\ req[w] # None
      /\ item[w] \in Row /\ item[w].sku \in Skus
  BY DEF TypeOK, ServerOK, RequestOK, Fill, Row, AnySku
<1>2. ServerOK'
  <2>1. Ans("ok", item[w]) \in Answer
    BY <1>1 DEF Ans, Answer, Code, Doc
  <2> QED BY <1>1, <2>1, RespondType DEF TypeOK, Fill
<1>3. DatabaseOK'
  BY DEF TypeOK, DatabaseOK, Fill, database
<1>4. RedisOK'
  <2>1. CASE Store(item[w].sku, Marshal(item[w]), itemLag[w])
    <3>1. Marshal(item[w]) \in Doc /\ itemLag[w] \in Nat
      BY <1>1 DEF TypeOK, ServerOK, Marshal, Doc
    <3> QED BY <1>1, <2>1, <3>1 DEF TypeOK, RedisOK, Store
  <2>2. CASE UNCHANGED redis
    BY <2>2 DEF TypeOK, RedisOK, redis
  <2> QED BY <2>1, <2>2 DEF Fill
<1> QED BY <1>2, <1>3, <1>4 DEF TypeOK

LEMMA CountType ==
  ASSUME TypeOK, NEW w \in Workers, Count(w)
  PROVE  TypeOK'
<1>1. DatabaseOK' /\ RedisOK'
  BY DEF TypeOK, DatabaseOK, RedisOK, Count, database, redis
<1>2. ServerOK /\ pc[w] = "count" /\ req[w] \in CreateRequest
  <2>1. /\ ServerOK /\ pc[w] = "count" /\ req[w] \in Request
        /\ pc[w] \in LocationsOf(req[w].op)
    BY DEF TypeOK, ServerOK, RequestOK, Count
  <2> QED BY <2>1, Operations DEF LocationsOf
<1>3. CASE Respond(w, Plain("duplicate"))
  <2>1. Plain("duplicate") \in Answer /\ req[w] # None
    BY <1>2 DEF Plain, Ans, Answer, Code, Request
  <2> QED BY <1>1, <1>2, <1>3, <2>1, RespondType DEF TypeOK
<1>4. CASE Continue(w, "insert")
  <2>1. \A v \in Workers : RequestOK(v)'
    BY <1>2, <1>4
       DEF ServerOK, RequestOK, Continue, LocationsOf, CreateRequest
  <2> QED BY <1>1, <1>2, <1>4, <2>1 DEF TypeOK, ServerOK, Continue, PC
<1> QED BY <1>3, <1>4 DEF Count

(* The calls a write answers with, and what they are answers to. *)
LEMMA InsertType ==
  ASSUME TypeOK, NEW w \in Workers, Insert(w)
  PROVE  TypeOK'
<1>1. RedisOK'
  BY DEF TypeOK, RedisOK, Insert, redis
<1>2. ServerOK /\ pc[w] = "insert" /\ req[w] \in CreateRequest /\ req[w] # None
  <2>1. /\ ServerOK /\ pc[w] = "insert" /\ req[w] \in Request
        /\ pc[w] \in LocationsOf(req[w].op)
    BY DEF TypeOK, ServerOK, RequestOK, Insert
  <2> QED BY <2>1, Operations DEF LocationsOf
<1>3. ServerOK'
  <2>1. Plain("ok") \in Answer /\ Plain("error") \in Answer
    BY DEF Plain, Ans, Answer, Code
  <2> QED BY <1>2, <2>1, RespondType DEF Insert
<1>4. DatabaseOK'
  <2>1. CASE InsertRow(w)
    BY <1>2, <2>1 DEF TypeOK, DatabaseOK, InsertRow, NewRow, CreateRequest, Row,
                      Ids
  <2>2. CASE UNCHANGED database
    BY <2>2 DEF TypeOK, DatabaseOK, database
  <2> QED BY <2>1, <2>2 DEF Insert
<1> QED BY <1>1, <1>3, <1>4 DEF TypeOK

LEMMA UpdateType ==
  ASSUME TypeOK, NEW w \in Workers, Update(w)
  PROVE  TypeOK'
<1>1. RedisOK'
  BY DEF TypeOK, RedisOK, Update, redis
<1>2. ServerOK /\ pc[w] = "update" /\ req[w] \in UpdateRequest /\ req[w] # None
  <2>1. /\ ServerOK /\ pc[w] = "update" /\ req[w] \in Request
        /\ pc[w] \in LocationsOf(req[w].op)
    BY DEF TypeOK, ServerOK, RequestOK, Update
  <2> QED BY <2>1, Operations DEF LocationsOf
<1>3. ServerOK'
  <2>1. Plain("ok") \in Answer
    BY DEF Plain, Ans, Answer, Code
  <2> QED BY <1>2, <2>1, RespondType DEF Update
<1>4. DatabaseOK'
  <2>1. CASE UpdateById(item[w].id, req[w])
    <3>1. \A r \in Row : Rewritten(r, req[w].val) \in Row
      BY <1>2 DEF Rewritten, Row, UpdateRequest
    <3> QED BY <2>1, <3>1
            DEF TypeOK, DatabaseOK, Update, UpdateById, WithVal
  <2>2. CASE UNCHANGED table
    BY <2>2 DEF TypeOK, DatabaseOK, Update
  <2> QED BY <2>1, <2>2 DEF Update
<1> QED BY <1>1, <1>3, <1>4 DEF TypeOK

LEMMA DeleteType ==
  ASSUME TypeOK, NEW w \in Workers, Delete(w)
  PROVE  TypeOK'
<1>1. RedisOK'
  BY DEF TypeOK, RedisOK, Delete, redis
<1>2. ServerOK'
  <2>1. ServerOK /\ req[w] # None
    BY DEF TypeOK, ServerOK, RequestOK, Delete
  <2>2. Plain("ok") \in Answer /\ Plain("error") \in Answer
    BY DEF Plain, Ans, Answer, Code
  <2> QED BY <2>1, <2>2, RespondType DEF Delete
<1>3. DatabaseOK'
  BY DEF TypeOK, DatabaseOK, Delete, WithoutId
<1> QED BY <1>1, <1>2, <1>3 DEF TypeOK

LEMMA LookupType ==
  ASSUME TypeOK, NEW w \in Workers, Lookup(w)
  PROVE  TypeOK'
<1>1. DatabaseOK' /\ RedisOK'
  BY DEF TypeOK, DatabaseOK, RedisOK, Lookup, database, redis
<1>2. ServerOK /\ req[w] \in CachedRequest /\ req[w] # None
  <2>1. /\ ServerOK /\ pc[w] = "lookup" /\ req[w] \in Request
        /\ pc[w] \in LocationsOf(req[w].op)
    BY DEF TypeOK, ServerOK, RequestOK, Lookup
  <2>2. req[w].op = "cached"
    BY <2>1, Operations DEF LocationsOf
  <2> QED BY <2>1, <2>2
          DEF Request, CachedRequest, GetRequest, CreateRequest, UpdateRequest,
              DeleteRequest
<1>3. /\ Plain("bad_request") \in Answer
      /\ Plain("miss") \in Answer
      /\ Plain("error") \in Answer
  BY DEF Plain, Ans, Answer, Code
<1>4. \A k \in Skus : cache[k] # None => Ans("hit", cache[k]) \in Answer
  BY DEF TypeOK, RedisOK, Ans, Answer, Code
<1>5. \E a \in Answer : Respond(w, a)
  <2>1. CASE req[w].sku = NoSku
    BY <1>3, <2>1 DEF Lookup
  <2>2. CASE req[w].sku # NoSku
    <3>1. req[w].sku \in Skus
      BY <1>2, <2>2 DEF CachedRequest, AnySku
    <3> QED BY <1>3, <1>4, <2>2, <3>1 DEF Lookup
  <2> QED BY <2>1, <2>2
<1> QED BY <1>1, <1>2, <1>5, RespondType DEF TypeOK

LEMMA ReceiveType ==
  ASSUME TypeOK, NEW w \in Workers, NEW r \in Request, Receive(w, r)
  PROVE  TypeOK'
<1>1. DatabaseOK' /\ RedisOK'
  BY DEF TypeOK, DatabaseOK, RedisOK, Receive, database, redis
<1>2. ServerOK /\ pc[w] = "idle"
  BY DEF TypeOK, Receive
<1>3. FirstCall(r.op) \in {"find", "count", "lookup"} \cap LocationsOf(r.op)
  BY Operations DEF FirstCall, LocationsOf
<1>4. ASSUME NEW v \in Workers PROVE RequestOK(v)'
  <2>1. CASE v = w
    BY <1>2, <1>3, <2>1 DEF ServerOK, RequestOK, Receive
  <2>2. CASE v # w
    BY <1>2, <2>2 DEF ServerOK, RequestOK, Receive
  <2> QED BY <2>1, <2>2
<1> QED BY <1>1, <1>2, <1>3, <1>4 DEF TypeOK, ServerOK, Receive, PC

LEMMA EvictType ==
  ASSUME TypeOK, NEW k \in Skus, Evict(k)
  PROVE  TypeOK'
  BY DEF TypeOK, DatabaseOK, RedisOK, ServerOK, RequestOK, Evict, database,
         server

LEMMA TickType ==
  ASSUME TypeOK, Tick
  PROVE  TypeOK'
<1>1. DatabaseOK'
  BY DEF TypeOK, DatabaseOK, Tick, database
<1>2. RedisOK'
  BY DEF TypeOK, RedisOK, Tick, Remaining, Countdown, Aged
<1>3. ServerOK'
  BY DEF TypeOK, ServerOK, RequestOK, Tick, Countdown, Aged
<1> QED BY <1>1, <1>2, <1>3 DEF TypeOK

LEMMA EndType ==
  ASSUME TypeOK, NEW w \in Workers, Forget(w)
  PROVE  TypeOK'
<1>1. DatabaseOK' /\ RedisOK'
  BY DEF TypeOK, DatabaseOK, RedisOK, Forget, database, redis
<1> QED BY <1>1, ForgetType DEF TypeOK

LEMMA StutterType ==
  ASSUME TypeOK, UNCHANGED vars
  PROVE  TypeOK'
  BY DEF TypeOK, DatabaseOK, RedisOK, ServerOK, RequestOK, vars, database,
         redis, server

(* Every variable keeps its type, and a request holds a row, and has an    *)
(* answer, exactly where its handler says so.                              *)
THEOREM TypeCorrect == Spec => []TypeOK
<1>1. Init => TypeOK
  BY DEF Init, TypeOK, DatabaseOK, RedisOK, ServerOK, RequestOK, PC, Ids
<1>2. TypeOK /\ [Next]_vars => TypeOK'
  <2> SUFFICES ASSUME TypeOK, [Next]_vars PROVE TypeOK'
    OBVIOUS
  <2>1. ASSUME NEW w \in Workers, NEW r \in Request, Receive(w, r)
        PROVE  TypeOK'
    BY <2>1, ReceiveType
  <2>2. ASSUME NEW w \in Workers, Step(w) PROVE TypeOK'
    BY <2>2, FindType, FillType, CountType, InsertType, UpdateType, DeleteType,
       LookupType, EndType DEF Step, Reply
  <2>3. ASSUME NEW w \in Workers, Abandon(w) PROVE TypeOK'
    BY <2>3, EndType DEF Abandon
  <2>4. ASSUME NEW k \in Skus, Evict(k) PROVE TypeOK'
    BY <2>4, EvictType
  <2>5. CASE Tick
    BY <2>5, TickType
  <2>6. CASE UNCHANGED vars
    BY <2>6, StutterType
  <2> QED BY <2>1, <2>2, <2>3, <2>4, <2>5, <2>6 DEF Next
<1> QED BY <1>1, <1>2, PTL DEF Spec

-----------------------------------------------------------------------------
(* The table.  TableKeysUnique is inductive: an insertion takes a new id   *)
(* and passes the unique index, an update changes neither key.             *)

(* How a step may change the table. *)
TableSteps ==
  \/ UNCHANGED database
  \/ \E w \in Workers : InsertRow(w)
  \/ \E id \in Ids, val \in Vals :
       table' = WithVal(table, id, val) /\ UNCHANGED nextId
  \/ \E id \in Ids : table' = WithoutId(table, id) /\ UNCHANGED nextId

LEMMA NextTableSteps ==
  ASSUME TypeOK, [Next]_vars
  PROVE  TableSteps
<1>1. ASSUME NEW w \in Workers, Step(w) PROVE TableSteps
  <2>1. CASE Find(w) \/ Fill(w) \/ Count(w) \/ Lookup(w) \/ Reply(w)
    BY <2>1 DEF Find, Fill, Count, Lookup, Reply, Forget, TableSteps, database
  <2>2. CASE Insert(w)
    BY <2>2 DEF Insert, TableSteps
  <2>3. CASE Update(w)
    <3>1. item[w].id \in Ids /\ req[w].val \in Vals
      <4>1. /\ item[w] \in Row /\ req[w] \in Request
            /\ pc[w] = "update" /\ pc[w] \in LocationsOf(req[w].op)
        BY <2>3 DEF TypeOK, ServerOK, RequestOK, Update
      <4>2. req[w] \in UpdateRequest
        BY <4>1, Operations DEF LocationsOf
      <4> QED BY <4>1, <4>2 DEF Row, UpdateRequest
    <3> QED BY <2>3, <3>1 DEF Update, UpdateById, TableSteps, database
  <2>4. CASE Delete(w)
    <3>1. item[w].id \in Ids
      BY <2>4 DEF TypeOK, ServerOK, RequestOK, Delete, Row
    <3> QED BY <2>4, <3>1 DEF Delete, TableSteps, database
  <2> QED BY <1>1, <2>1, <2>2, <2>3, <2>4 DEF Step
<1>2. ASSUME NEW w \in Workers, NEW r \in Request, Receive(w, r)
      PROVE  TableSteps
  BY <1>2 DEF Receive, TableSteps, database
<1>3. ASSUME NEW w \in Workers, Abandon(w) PROVE TableSteps
  BY <1>3 DEF Abandon, Forget, TableSteps, database
<1>4. ASSUME NEW k \in Skus, Evict(k) PROVE TableSteps
  BY <1>4 DEF Evict, TableSteps, database
<1>5. CASE Tick
  BY <1>5 DEF Tick, TableSteps, database
<1>6. CASE UNCHANGED vars
  BY <1>6 DEF vars, TableSteps, database
<1> QED BY <1>1, <1>2, <1>3, <1>4, <1>5, <1>6 DEF Next

(* No two products ever share an SKU or an id. *)
THEOREM KeysUnique == Spec => []TableKeysUnique
<1>1. Init => TableKeysUnique
  BY DEF Init, TableKeysUnique
<1>2. TypeOK /\ TableKeysUnique /\ [Next]_vars => TableKeysUnique'
  <2> SUFFICES ASSUME TypeOK, TableKeysUnique, [Next]_vars
               PROVE  TableKeysUnique'
    OBVIOUS
  <2>1. CASE UNCHANGED database
    BY <2>1 DEF TableKeysUnique, database
  <2>2. ASSUME NEW w \in Workers, InsertRow(w) PROVE TableKeysUnique'
    <3> DEFINE n == NewRow(req[w])
    <3>1. /\ table' = table \cup {n} /\ nextId' = nextId + 1
          /\ n.id = nextId /\ n.sku = req[w].sku
          /\ \A r \in table : r.sku # n.sku
      BY <2>2 DEF InsertRow, NewRow, IndexAdmits, HasSku
    <3>2. nextId \in Nat /\ \A r \in table : r.id \in Nat /\ r.id < nextId
      BY DEF TypeOK, DatabaseOK, TableKeysUnique, Row, Ids
    <3> HIDE DEF n
    <3>3. \A r \in table : r.id # n.id
      BY <3>1, <3>2
    <3>4. \A r \in table' : r.id < nextId'
      BY <3>1, <3>2
    <3>5. \A r1, r2 \in table' : r1.sku = r2.sku \/ r1.id = r2.id => r1 = r2
      BY <3>1, <3>3 DEF TableKeysUnique
    <3> QED BY <3>4, <3>5 DEF TableKeysUnique
  <2>3. ASSUME NEW id \in Ids, NEW val \in Vals,
               table' = WithVal(table, id, val), UNCHANGED nextId
        PROVE  TableKeysUnique'
    BY <2>3 DEF TypeOK, DatabaseOK, TableKeysUnique, WithVal, Rewritten, Row
  <2>4. ASSUME NEW id \in Ids, table' = WithoutId(table, id), UNCHANGED nextId
        PROVE  TableKeysUnique'
    BY <2>4 DEF TableKeysUnique, WithoutId
  <2> QED BY <2>1, <2>2, <2>3, <2>4, NextTableSteps DEF TableSteps
<1> QED BY <1>1, <1>2, TypeCorrect, PTL DEF Spec

(* A deleted product never comes back. *)
THEOREM DeletedForGood == Spec => NoResurrection
<1> DEFINE Gone == \A id \in Ids :
             id < nextId /\ ~HasId(table, id) => ~HasId(table', id)
<1>1. TypeOK /\ [Next]_vars => [Gone]_vars
  <2> SUFFICES ASSUME TypeOK, [Next]_vars PROVE Gone
    OBVIOUS
  <2>1. CASE UNCHANGED database
    BY <2>1 DEF HasId, database
  <2>2. ASSUME NEW w \in Workers, InsertRow(w) PROVE Gone
    BY <2>2 DEF TypeOK, DatabaseOK, InsertRow, NewRow, HasId, Ids
  <2>3. ASSUME NEW id \in Ids, NEW val \in Vals,
               table' = WithVal(table, id, val)
        PROVE  Gone
    BY <2>3 DEF TypeOK, DatabaseOK, HasId, WithVal, Rewritten, Row
  <2>4. ASSUME NEW id \in Ids, table' = WithoutId(table, id)
        PROVE  Gone
    BY <2>4 DEF HasId, WithoutId
  <2> QED BY <2>1, <2>2, <2>3, <2>4, NextTableSteps DEF TableSteps
<1> QED BY <1>1, TypeCorrect, PTL DEF Spec, NoResurrection

-----------------------------------------------------------------------------
(* The age of cached products.  What a request has waited since its row    *)
(* was current, and what its context still has to live, are together at    *)
(* most the deadline; a document is stored with the first of the two at    *)
(* most Timeout - 1, and then ages while its expiration runs down.         *)
FillBudget ==
  \A w \in Workers :
    /\ itemLag[w] + timer[w] <= Timeout
    /\ pc[w] = "idle" => itemLag[w] = 0

CacheBudget ==
  \A k \in Skus :
    cache[k] # None =>
      /\ ttl[k] > 0
      /\ cacheLag[k] + ttl[k] <= TTL + Timeout - 1

StalenessInv == FillBudget /\ CacheBudget

(* A step that is not a tick and not a store leaves the budgets alone. *)
LEMMA HandlerBudget ==
  ASSUME TypeOK, StalenessInv, NEW w \in Workers, UNCHANGED redis,
         \/ \E a : Respond(w, a)
         \/ \E next : Continue(w, next) /\ next # "idle"
         \/ \E r, next : Holding(w, r, next) /\ next # "idle"
  PROVE  StalenessInv'
<1>1. FillBudget'
  BY DEF TypeOK, ServerOK, PC, StalenessInv, FillBudget, Respond, Continue,
         Holding
<1>2. CacheBudget'
  BY DEF StalenessInv, CacheBudget, redis
<1> QED BY <1>1, <1>2 DEF StalenessInv

LEMMA ForgetBudget ==
  ASSUME TypeOK, StalenessInv, NEW w \in Workers, Forget(w)
  PROVE  StalenessInv'
  BY DEF TypeOK, ServerOK, PC, StalenessInv, FillBudget, CacheBudget, Forget,
         redis

LEMMA FillBudgetStep ==
  ASSUME TypeOK, StalenessInv, NEW w \in Workers, Fill(w)
  PROVE  StalenessInv'
<1>1. CASE UNCHANGED redis
  BY <1>1, HandlerBudget DEF Fill
<1>2. CASE Live(w) /\ Store(item[w].sku, Marshal(item[w]), itemLag[w])
  <2>1. item[w].sku \in Skus /\ itemLag[w] \in Nat /\ timer[w] \in Nat
    BY DEF TypeOK, ServerOK, RequestOK, Fill, Row, AnySku
  <2>2. itemLag[w] <= Timeout - 1
    BY <1>2, <2>1 DEF StalenessInv, FillBudget, Live
  <2>3. CacheBudget'
    BY <1>2, <2>1, <2>2 DEF TypeOK, RedisOK, StalenessInv, CacheBudget, Store
  <2>4. FillBudget'
    BY DEF Fill, TypeOK, ServerOK, PC, StalenessInv, FillBudget, Respond
  <2> QED BY <2>3, <2>4 DEF StalenessInv
<1> QED BY <1>1, <1>2 DEF Fill

LEMMA TickBudget ==
  ASSUME TypeOK, StalenessInv, Tick
  PROVE  StalenessInv'
<1>1. FillBudget'
  BY DEF TypeOK, ServerOK, RequestOK, StalenessInv, FillBudget, Tick, Live,
         Countdown, Aged
<1>2. CacheBudget'
  <2> SUFFICES ASSUME NEW k \in Skus, cache'[k] # None
               PROVE  /\ ttl'[k] > 0
                      /\ cacheLag'[k] + ttl'[k] <= TTL + Timeout - 1
    BY DEF CacheBudget
  <2>1. Remaining(k) > 0 /\ cache[k] # None /\ ttl'[k] = Remaining(k)
    BY DEF Tick
  <2>2. cacheLag'[k] \in {0, cacheLag[k], cacheLag[k] + 1}
    BY <2>1 DEF Tick, Aged
  <2>3. ttl[k] \in 0..TTL /\ cacheLag[k] \in Nat /\ Remaining(k) = ttl[k] - 1
    BY <2>1 DEF TypeOK, RedisOK, Remaining, Countdown
  <2> QED BY <2>1, <2>2, <2>3 DEF StalenessInv, CacheBudget
<1> QED BY <1>1, <1>2 DEF StalenessInv

LEMMA BudgetsKept == Spec => []StalenessInv
<1>1. Init => StalenessInv
  BY DEF Init, StalenessInv, FillBudget, CacheBudget
<1>2. TypeOK /\ StalenessInv /\ [Next]_vars => StalenessInv'
  <2> SUFFICES ASSUME TypeOK, StalenessInv, [Next]_vars PROVE StalenessInv'
    OBVIOUS
  <2>1. ASSUME NEW w \in Workers, NEW r \in Request, Receive(w, r)
        PROVE  StalenessInv'
    BY <2>1 DEF TypeOK, ServerOK, PC, StalenessInv, FillBudget, CacheBudget,
                Receive, redis
  <2>2. ASSUME NEW w \in Workers, Step(w) PROVE StalenessInv'
    <3>1. CASE Find(w)
      BY <3>1, HandlerBudget DEF Find, AfterFind
    <3>2. CASE Fill(w)
      BY <3>2, FillBudgetStep
    <3>3. CASE Count(w)
      BY <3>3, HandlerBudget DEF Count
    <3>4. CASE Insert(w) \/ Update(w) \/ Delete(w)
      BY <3>4, HandlerBudget DEF Insert, Update, Delete
    <3>5. CASE Lookup(w)
      BY <3>5, HandlerBudget DEF Lookup
    <3>6. CASE Reply(w)
      BY <3>6, ForgetBudget DEF Reply
    <3> QED BY <2>2, <3>1, <3>2, <3>3, <3>4, <3>5, <3>6 DEF Step
  <2>3. ASSUME NEW w \in Workers, Abandon(w) PROVE StalenessInv'
    BY <2>3, ForgetBudget DEF Abandon
  <2>4. ASSUME NEW k \in Skus, Evict(k) PROVE StalenessInv'
    BY <2>4 DEF TypeOK, RedisOK, StalenessInv, FillBudget, CacheBudget, Evict,
                server
  <2>5. CASE Tick
    BY <2>5, TickBudget
  <2>6. CASE UNCHANGED vars
    BY <2>6 DEF StalenessInv, FillBudget, CacheBudget, vars, redis, server
  <2> QED BY <2>1, <2>2, <2>3, <2>4, <2>5, <2>6 DEF Next
<1> QED BY <1>1, <1>2, TypeCorrect, PTL DEF Spec

(* No product is served from the cache later than its expiration and one   *)
(* deadline allow, whatever is written meanwhile.                          *)
THEOREM StalenessBounded == Spec => []BoundedStaleness
<1>1. TypeOK /\ StalenessInv => BoundedStaleness
  BY DEF TypeOK, RedisOK, StalenessInv, CacheBudget, BoundedStaleness
<1> QED BY <1>1, BudgetsKept, TypeCorrect, PTL

-----------------------------------------------------------------------------
(* Convergence.  Every copy that is out of date, whether cached or held by *)
(* a request that can still store it, has been so for n ticks.             *)
StaleFor(n) ==
  /\ \A k \in Skus : cache[k] \in Row \ table => cacheLag[k] >= n
  /\ \A w \in Workers :
       item[w] \in Row \ table /\ Live(w) => itemLag[w] >= n

(* A step that writes no product: it makes no copy younger, and a tick     *)
(* makes every stale one older.                                            *)
AgesBy(n) ==
  table' = table =>
    /\ StaleFor(n) => StaleFor(n)'
    /\ Tick /\ StaleFor(n) => StaleFor(n + 1)'

(* The ages that matter: one more tick and the copy would be too old.      *)
Ages == 0..(TTL + Timeout - 1)

(* A handler that reads takes a row of the table, one that ends lets go of *)
(* what it held.                                                           *)
LEMMA HandlerAges ==
  ASSUME TypeOK, NEW n \in Ages, NEW w \in Workers, UNCHANGED redis,
         table' = table, StaleFor(n),
         \/ \E a : Respond(w, a)
         \/ \E next : Continue(w, next)
         \/ \E r \in table : \E next : Holding(w, r, next)
         \/ Forget(w)
  PROVE  StaleFor(n)'
<1>1. \A k \in Skus : cache'[k] \in Row \ table' => cacheLag'[k] >= n
  BY DEF StaleFor, redis
<1>2. ASSUME NEW v \in Workers, item'[v] \in Row \ table', Live(v)'
      PROVE  itemLag'[v] >= n
  BY <1>2 DEF TypeOK, ServerOK, StaleFor, Respond, Continue, Holding, Forget,
              Live
<1> QED BY <1>1, <1>2 DEF StaleFor

(* GetProduct stores what it holds, at the age it has, and only while its  *)
(* context is alive.                                                       *)
LEMMA FillAges ==
  ASSUME TypeOK, NEW n \in Ages, NEW w \in Workers, Fill(w), StaleFor(n),
         table' = table
  PROVE  StaleFor(n)'
<1>1. CASE UNCHANGED redis
  BY <1>1, HandlerAges DEF Fill
<1>2. CASE Live(w) /\ Store(item[w].sku, Marshal(item[w]), itemLag[w])
  <2>1. ASSUME NEW k \in Skus, cache'[k] \in Row \ table'
        PROVE  cacheLag'[k] >= n
    <3>1. CASE k = item[w].sku
      <4>1. cache'[k] = Marshal(item[w]) /\ cacheLag'[k] = itemLag[w]
        BY <1>2, <3>1 DEF TypeOK, RedisOK, Store
      <4>2. Marshal(item[w]) = item[w]
        BY <2>1, <4>1 DEF Marshal
      <4> QED BY <1>2, <2>1, <4>1, <4>2 DEF StaleFor
    <3>2. CASE k # item[w].sku
      BY <1>2, <2>1, <3>2 DEF TypeOK, RedisOK, Store, StaleFor
    <3> QED BY <3>1, <3>2
  <2>2. ASSUME NEW v \in Workers, item'[v] \in Row \ table', Live(v)'
        PROVE  itemLag'[v] >= n
    BY <2>2 DEF TypeOK, ServerOK, StaleFor, Fill, Respond, Live
  <2> QED BY <2>1, <2>2 DEF StaleFor
<1> QED BY <1>1, <1>2 DEF Fill

LEMMA TickAges ==
  ASSUME TypeOK, NEW n \in Ages, Tick, StaleFor(n)
  PROVE  StaleFor(n + 1)'
<1>1. ASSUME NEW k \in Skus, cache'[k] \in Row \ table'
      PROVE  cacheLag'[k] >= n + 1
  <2>1. Remaining(k) > 0 /\ cache'[k] = cache[k]
    BY <1>1 DEF Tick, Doc
  <2>2. cacheLag'[k] = Aged(cache[k], cacheLag[k])
    BY <2>1 DEF Tick
  <2>3. cache[k] \in Row \ table /\ cacheLag[k] >= n /\ cacheLag[k] \in Nat
    BY <1>1, <2>1 DEF Tick, database, StaleFor, TypeOK, RedisOK
  <2> QED BY <2>2, <2>3 DEF Aged, LagCap, Ages
<1>2. ASSUME NEW w \in Workers, item'[w] \in Row \ table', Live(w)'
      PROVE  itemLag'[w] >= n + 1
  <2>1. item[w] \in Row \ table /\ timer'[w] = Countdown(timer[w])
    BY <1>2 DEF Tick, database
  <2>2. Live(w) /\ item[w] # None
    BY <1>2, <2>1 DEF TypeOK, ServerOK, Live, Countdown, Doc
  <2>3. itemLag'[w] = Aged(item[w], itemLag[w])
    BY <2>2 DEF Tick
  <2>4. itemLag[w] >= n /\ itemLag[w] \in Nat
    BY <2>1, <2>2 DEF StaleFor, TypeOK, ServerOK
  <2> QED BY <2>1, <2>3, <2>4 DEF Aged, LagCap, Ages
<1> QED BY <1>1, <1>2 DEF StaleFor

LEMMA QuietStepAges ==
  ASSUME TypeOK, NEW n \in Ages, [Next]_vars, StaleFor(n), table' = table
  PROVE  StaleFor(n)'
<1>1. ASSUME NEW w \in Workers, NEW r \in Request, Receive(w, r)
      PROVE  StaleFor(n)'
  <2>1. \A v \in Workers : item[v] \in Row => pc[v] # "idle"
    BY DEF TypeOK, ServerOK, RequestOK, Doc
  <2> QED BY <1>1, <2>1 DEF TypeOK, ServerOK, Receive, redis, StaleFor, Live
<1>2. ASSUME NEW w \in Workers, Step(w) PROVE StaleFor(n)'
  <2>1. CASE Find(w)
    BY <2>1, HandlerAges DEF Find, AfterFind
  <2>2. CASE Fill(w)
    BY <2>2, FillAges
  <2>3. CASE Count(w) \/ Lookup(w)
    BY <2>3, HandlerAges DEF Count, Lookup
  <2>4. CASE Insert(w) \/ Update(w) \/ Delete(w)
    BY <2>4, HandlerAges DEF Insert, Update, Delete
  <2>5. CASE Reply(w)
    BY <2>5, HandlerAges DEF Reply, Forget
  <2> QED BY <1>2, <2>1, <2>2, <2>3, <2>4, <2>5 DEF Step
<1>3. ASSUME NEW w \in Workers, Abandon(w) PROVE StaleFor(n)'
  BY <1>3, HandlerAges DEF Abandon, Forget
<1>4. ASSUME NEW k \in Skus, Evict(k) PROVE StaleFor(n)'
  BY <1>4 DEF TypeOK, RedisOK, StaleFor, Evict, server, Live, Doc
<1>5. CASE Tick
  <2>1. StaleFor(n + 1)'
    BY <1>5, TickAges
  <2>2. /\ cacheLag' \in [Skus -> Nat] /\ itemLag' \in [Workers -> Nat]
    BY <1>5 DEF TypeOK, RedisOK, ServerOK, Tick, Aged
  <2> QED BY <2>1, <2>2 DEF StaleFor, Ages
<1>6. CASE UNCHANGED vars
  BY <1>6 DEF StaleFor, vars, redis, server, Live
<1> QED BY <1>1, <1>2, <1>3, <1>4, <1>5, <1>6 DEF Next

(* While no product is written, no step of any request makes a stale copy  *)
(* younger, however late GetProduct stores what it has read, every tick    *)
(* makes all of them older, and one of the age TTL + Timeout - 1 cannot    *)
(* be in the cache: after so many ticks only products of the table are.    *)
(* It is what CacheConverges needs besides a clock that goes on.           *)
THEOREM CacheCatchesUp ==
  Spec => /\ []StaleFor(0)
          /\ [][\A n \in Ages : AgesBy(n)]_vars
          /\ [](StaleFor(TTL + Timeout - 1) => NoStaleCopy)
<1>1. TypeOK => StaleFor(0)
  BY DEF TypeOK, RedisOK, ServerOK, StaleFor
<1>2. TypeOK /\ [Next]_vars => [\A n \in Ages : AgesBy(n)]_vars
  <2> SUFFICES ASSUME TypeOK, [Next]_vars, NEW n \in Ages
               PROVE  AgesBy(n)
    OBVIOUS
  <2> QED BY QuietStepAges, TickAges DEF AgesBy
<1>3. TypeOK /\ StalenessInv => (StaleFor(TTL + Timeout - 1) => NoStaleCopy)
  BY DEF TypeOK, RedisOK, StalenessInv, CacheBudget, StaleFor, NoStaleCopy, Doc
<1> QED BY <1>1, <1>2, <1>3, TypeCorrect, BudgetsKept, PTL DEF Spec

-----------------------------------------------------------------------------
(* The end of a request: how many calls its handler has still to make, and *)
(* the answer.                                                             *)
CallsLeft(w) ==
  CASE pc[w] = "idle"            -> 0
    [] pc[w] = "done"            -> 1
    [] pc[w] \in {"find", "count"} -> 3
    [] OTHER                     -> 2

(* Whoever is idle takes no step, and nobody else moves a handler.         *)
OnItsWay(w) ==
  /\ Step(w) => CallsLeft(w)' < CallsLeft(w)
  /\ pc[w] # "idle" /\ pc'[w] # pc[w] => Step(w) \/ Abandon(w)

LEMMA StepShortens ==
  ASSUME TypeOK, NEW w \in Workers, Step(w)
  PROVE  CallsLeft(w)' < CallsLeft(w)
<1>1. pc \in [Workers -> PC]
  BY DEF TypeOK, ServerOK
<1>2. CASE Find(w)
  <2>1. pc[w] = "find" /\ pc'[w] \in {"fill", "update", "delete", "done"}
    BY <1>1, <1>2 DEF Find, AfterFind, Respond, Holding
  <2> QED BY <2>1 DEF CallsLeft
<1>3. CASE Count(w)
  <2>1. pc[w] = "count" /\ pc'[w] \in {"insert", "done"}
    BY <1>1, <1>3 DEF Count, Respond, Continue
  <2> QED BY <2>1 DEF CallsLeft
<1>4. CASE Fill(w) \/ Insert(w) \/ Update(w) \/ Delete(w) \/ Lookup(w)
  <2>1. /\ pc[w] \in {"fill", "insert", "update", "delete", "lookup"}
        /\ pc'[w] = "done"
    BY <1>1, <1>4 DEF Fill, Insert, Update, Delete, Lookup, Respond
  <2> QED BY <2>1 DEF CallsLeft
<1>5. CASE Reply(w)
  <2>1. pc[w] = "done" /\ pc'[w] = "idle"
    BY <1>1, <1>5 DEF Reply, Forget
  <2> QED BY <2>1 DEF CallsLeft
<1> QED BY <1>2, <1>3, <1>4, <1>5 DEF Step

LEMMA OthersStepAside ==
  ASSUME TypeOK, [Next]_vars, NEW w \in Workers, pc[w] # "idle",
         pc'[w] # pc[w]
  PROVE  Step(w) \/ Abandon(w)
<1>1. pc \in [Workers -> PC]
  BY DEF TypeOK, ServerOK
<1>2. ASSUME NEW v \in Workers, Step(v) \/ Abandon(v) PROVE v = w
  BY <1>1, <1>2 DEF Step, Abandon, Find, AfterFind, Fill, Count, Insert, Update,
                    Delete, Lookup, Reply, Respond, Continue, Holding, Forget
<1>3. ~\E v \in Workers, r \in Request : Receive(v, r)
  BY <1>1 DEF Receive
<1>4. ~Tick /\ ~(\E k \in Skus : Evict(k)) /\ ~UNCHANGED vars
  BY DEF Tick, Evict, vars, server
<1> QED BY <1>2, <1>3, <1>4 DEF Next

(* Every call of a handler, whatever comes of it, brings its request       *)
(* closer to the answer, and no other request, no eviction and no tick     *)
(* ever sends it back: nothing in the handlers loops or retries.  It is    *)
(* what EveryRequestEnds needs besides goroutines that run.                *)
THEOREM RequestsAdvance == Spec => [][\A w \in Workers : OnItsWay(w)]_vars
<1>1. TypeOK /\ [Next]_vars => [\A w \in Workers : OnItsWay(w)]_vars
  BY StepShortens, OthersStepAside DEF OnItsWay
<1> QED BY <1>1, TypeCorrect, PTL DEF Spec

-----------------------------------------------------------------------------
(* The cache and its keys.  A handler that stores a row has held it since  *)
(* FindByUid, so it is the row it holds, not only the one it reads, that   *)
(* must keep its SKU.                                                      *)
HeldRows == \A w \in Workers : item[w] # None => Traceable(item[w])

CachedInv == HeldRows /\ CachedUnderItsSku

LEMMA TraceableStays ==
  ASSUME TypeOK, [Next]_vars, NEW d \in Row, Traceable(d)
  PROVE  Traceable(d)'
<1>1. CASE UNCHANGED database
  BY <1>1 DEF Traceable, database
<1>2. ASSUME NEW w \in Workers, InsertRow(w) PROVE Traceable(d)'
  BY <1>2 DEF TypeOK, DatabaseOK, Traceable, InsertRow, NewRow, Row, Ids
<1>3. ASSUME NEW id \in Ids, NEW val \in Vals,
             table' = WithVal(table, id, val), UNCHANGED nextId
      PROVE  Traceable(d)'
  BY <1>3 DEF TypeOK, DatabaseOK, Traceable, WithVal, Rewritten, Row
<1>4. ASSUME NEW id \in Ids, table' = WithoutId(table, id), UNCHANGED nextId
      PROVE  Traceable(d)'
  BY <1>4 DEF Traceable, WithoutId
<1> QED BY <1>1, <1>2, <1>3, <1>4, NextTableSteps DEF TableSteps

(* A step that brings no new row into a handler and none into the cache.   *)
LEMMA NothingNewHeld ==
  ASSUME TypeOK, CachedInv, [Next]_vars,
         \A w \in Workers : item'[w] \in {None, item[w]},
         \A k \in Skus : cache'[k] \in {None, Blank, cache[k]}
  PROVE  CachedInv'
<1>1. HeldRows'
  <2> SUFFICES ASSUME NEW w \in Workers, item'[w] # None
               PROVE  Traceable(item[w])'
    BY DEF HeldRows
  <2>1. item'[w] = item[w] /\ item[w] \in Row /\ Traceable(item[w])
    BY DEF TypeOK, ServerOK, CachedInv, HeldRows
  <2> QED BY <2>1, TraceableStays DEF Traceable
<1>2. CachedUnderItsSku'
  <2> SUFFICES ASSUME NEW k \in Skus, cache'[k] \in Row
               PROVE  cache'[k].sku = k /\ Traceable(cache[k])'
    BY DEF CachedUnderItsSku
  <2>1. /\ cache'[k] = cache[k] /\ cache[k].sku = k
        /\ cache[k] \in Row /\ Traceable(cache[k])
    BY DEF CachedInv, CachedUnderItsSku, Doc
  <2> QED BY <2>1, TraceableStays DEF Traceable
<1> QED BY <1>1, <1>2 DEF CachedInv

LEMMA FindCached ==
  ASSUME TypeOK, TableKeysUnique, CachedInv, NEW w \in Workers, Find(w)
  PROVE  CachedInv'
<1>1. UNCHANGED <<database, redis>>
  BY DEF Find
<1>2. CachedUnderItsSku'
  BY <1>1 DEF CachedInv, CachedUnderItsSku, Traceable, database, redis
<1>3. item'[w] = None \/ \E r \in table : item'[w] = r
  BY DEF Find, AfterFind, Holding, Respond, TypeOK, ServerOK
<1>4. \A v \in Workers : v # w => item'[v] = item[v]
  BY DEF Find, AfterFind, Holding, Respond, TypeOK, ServerOK
<1>5. HeldRows'
  BY <1>1, <1>3, <1>4
     DEF CachedInv, HeldRows, Traceable, TableKeysUnique, database
<1> QED BY <1>2, <1>5 DEF CachedInv

LEMMA FillCached ==
  ASSUME TypeOK, CachedInv, NEW w \in Workers, Fill(w)
  PROVE  CachedInv'
<1>1. UNCHANGED database /\ item[w] \in Row /\ Traceable(item[w])
  BY DEF Fill, TypeOK, ServerOK, RequestOK, CachedInv, HeldRows
<1>2. HeldRows'
  BY <1>1 DEF Fill, Respond, TypeOK, ServerOK, CachedInv, HeldRows, Traceable,
              database
<1>3. CachedUnderItsSku'
  <2> SUFFICES ASSUME NEW k \in Skus, cache'[k] \in Row
               PROVE  cache'[k].sku = k /\ Traceable(cache[k])'
    BY DEF CachedUnderItsSku
  <2>1. \/ cache'[k] = cache[k]
        \/ cache'[k] = Marshal(item[w]) /\ k = item[w].sku
    BY DEF Fill, Store, redis, TypeOK, RedisOK
  <2>2. CASE cache'[k] = cache[k]
    BY <1>1, <2>2 DEF CachedInv, CachedUnderItsSku, Traceable, database
  <2>3. CASE cache'[k] = Marshal(item[w]) /\ k = item[w].sku
    BY <1>1, <2>3 DEF Marshal, Traceable, database
  <2> QED BY <2>1, <2>2, <2>3
<1> QED BY <1>2, <1>3 DEF CachedInv

(* A product found under an SKU carries this SKU. *)
THEOREM CacheKeysRight == Spec => []CachedUnderItsSku
<1>1. Init => CachedInv
  BY DEF Init, CachedInv, HeldRows, CachedUnderItsSku, Row, Doc
<1>2. TypeOK /\ TableKeysUnique /\ CachedInv /\ [Next]_vars => CachedInv'
  <2> SUFFICES ASSUME TypeOK, TableKeysUnique, CachedInv, [Next]_vars
               PROVE  CachedInv'
    OBVIOUS
  <2>1. ASSUME NEW w \in Workers, NEW r \in Request, Receive(w, r)
        PROVE  CachedInv'
    BY <2>1, NothingNewHeld DEF Receive, redis
  <2>2. ASSUME NEW w \in Workers, Step(w) PROVE CachedInv'
    <3>1. CASE Find(w)
      BY <3>1, FindCached
    <3>2. CASE Fill(w)
      BY <3>2, FillCached
    <3>3. CASE Count(w) \/ Insert(w) \/ Update(w) \/ Delete(w) \/ Lookup(w)
      <4>1. UNCHANGED redis /\ \A v \in Workers : item'[v] \in {None, item[v]}
        BY <3>3 DEF Count, Insert, Update, Delete, Lookup, Respond, Continue,
                    TypeOK, ServerOK
      <4> QED BY <4>1, NothingNewHeld DEF redis
    <3>4. CASE Reply(w)
      BY <3>4, NothingNewHeld DEF Reply, Forget, redis, TypeOK, ServerOK
    <3> QED BY <2>2, <3>1, <3>2, <3>3, <3>4 DEF Step
  <2>3. ASSUME NEW w \in Workers, Abandon(w) PROVE CachedInv'
    BY <2>3, NothingNewHeld DEF Abandon, Forget, redis, TypeOK, ServerOK
  <2>4. ASSUME NEW k \in Skus, Evict(k) PROVE CachedInv'
    BY <2>4, NothingNewHeld DEF Evict, server, TypeOK, RedisOK
  <2>5. CASE Tick
    BY <2>5, NothingNewHeld DEF Tick
  <2>6. CASE UNCHANGED vars
    BY <2>6, NothingNewHeld DEF vars, redis, server
  <2> QED BY <2>1, <2>2, <2>3, <2>4, <2>5, <2>6 DEF Next
<1>3. CachedInv => CachedUnderItsSku
  BY DEF CachedInv
<1> QED BY <1>1, <1>2, <1>3, TypeCorrect, KeysUnique, PTL DEF Spec

-----------------------------------------------------------------------------
(* The refinement of the catalog.  FindByUid decides a GetProduct and a    *)
(* request for a row that is not there; the writes, the count of a         *)
(* duplicate and the cache lookup decide the others.  Every other step of  *)
(* a handler, the clock and the evictions of Redis are stuttering steps of *)
(* the catalog.                                                            *)

(* The answers as the catalog has them. *)
Decisions == [w \in Workers |-> Decided(w)]

CatalogStep == Catalog!Next \/ UNCHANGED <<table, nextId, req, Decisions>>

(* The data of the catalog is the data of the service. *)
LEMMA SameData ==
  /\ Catalog!Ids = Ids /\ Catalog!Row = Row /\ Catalog!Doc = Doc
  /\ Catalog!Request = Request
  /\ \A code, body : Catalog!Ans(code, body) = Ans(code, body)
  /\ \A code : Catalog!Plain(code) = Plain(code)
  /\ \A tbl, id : Catalog!HasId(tbl, id) <=> HasId(tbl, id)
  /\ \A tbl, sku : Catalog!HasSku(tbl, sku) <=> HasSku(tbl, sku)
  /\ \A tbl, id : Catalog!WithoutId(tbl, id) = WithoutId(tbl, id)
  /\ \A tbl, id, val : Catalog!WithVal(tbl, id, val) = WithVal(tbl, id, val)
<1>1. /\ Catalog!Ids = Ids /\ Catalog!AnySku = AnySku
      /\ Catalog!Row = Row /\ Catalog!Doc = Doc
  BY DEF Catalog!Ids, Ids, Catalog!AnySku, AnySku, Catalog!Row, Row,
         Catalog!Doc, Doc
<1>2. Catalog!Request = Request
  BY <1>1 DEF Catalog!Request, Request,
     Catalog!GetRequest, GetRequest, Catalog!CreateRequest, CreateRequest,
     Catalog!UpdateRequest, UpdateRequest, Catalog!DeleteRequest,
     DeleteRequest, Catalog!CachedRequest, CachedRequest
<1>3. /\ \A code, body : Catalog!Ans(code, body) = Ans(code, body)
      /\ \A code : Catalog!Plain(code) = Plain(code)
  BY DEF Catalog!Ans, Ans, Catalog!Plain, Plain
<1>4. /\ \A tbl, id : Catalog!HasId(tbl, id) <=> HasId(tbl, id)
      /\ \A tbl, sku : Catalog!HasSku(tbl, sku) <=> HasSku(tbl, sku)
      /\ \A tbl, id : Catalog!WithoutId(tbl, id) = WithoutId(tbl, id)
  BY DEF Catalog!HasId, HasId, Catalog!HasSku, HasSku, Catalog!WithoutId,
         WithoutId
<1>5. \A tbl, id, val : Catalog!WithVal(tbl, id, val) = WithVal(tbl, id, val)
  BY DEF Catalog!WithVal, WithVal, Catalog!Rewritten, Rewritten
<1> QED BY <1>1, <1>2, <1>3, <1>4, <1>5

LEMMA DecidesWith ==
  ASSUME TypeOK, NEW w \in Workers, NEW a, UNCHANGED req,
         \A v \in Workers : Decided(v)' = IF v = w THEN a ELSE Decided(v)
  PROVE  Catalog!Decide(w, a)
  BY DEF Catalog!Decide

(* A handler that returns decides its answer, unless it had done so. *)
LEMMA RespondDecides ==
  ASSUME TypeOK, NEW w \in Workers, NEW a, pc[w] # "fill", Respond(w, a)
  PROVE  Catalog!Decide(w, a)
<1>1. \A v \in Workers : Decided(v)' = IF v = w THEN a ELSE Decided(v)
  BY DEF TypeOK, ServerOK, Respond, Decided
<1> QED BY <1>1, DecidesWith DEF Respond

(* What a handler at pc[w] serves, and that it is undecided. *)
LEMMA Serving ==
  ASSUME TypeOK, NEW w \in Workers
  PROVE  /\ pc[w] \in {"count", "insert"} => Catalog!Undecided(w, "create")
         /\ pc[w] = "update" => Catalog!Undecided(w, "update")
         /\ pc[w] = "delete" => Catalog!Undecided(w, "delete")
         /\ pc[w] = "lookup" => Catalog!Undecided(w, "cached")
         /\ pc[w] = "find" => \/ Catalog!Undecided(w, "get")
                              \/ Catalog!Undecided(w, "update")
                              \/ Catalog!Undecided(w, "delete")
<1>1. /\ resp[w] # None => pc[w] = "done"
      /\ pc[w] # "idle" => /\ req[w] \in Request /\ req[w] # None
                           /\ pc[w] \in LocationsOf(req[w].op)
  BY DEF TypeOK, ServerOK, RequestOK
<1>2. pc[w] \notin {"idle", "done", "fill"} =>
        /\ Decided(w) = None
        /\ req[w] # None
        /\ req[w].op \in {"get", "create", "update", "delete", "cached"}
        /\ pc[w] \in LocationsOf(req[w].op)
  <2>1. pc[w] \notin {"idle", "done", "fill"} => Decided(w) = None
    BY <1>1 DEF Decided
  <2>2. req[w] \in Request =>
          req[w].op \in {"get", "create", "update", "delete", "cached"}
    BY Operations
  <2> QED BY <1>1, <2>1, <2>2
<1>3. pc[w] \notin {"idle", "done", "fill"} =>
        \A op : req[w].op = op => Catalog!Undecided(w, op)
  BY <1>2 DEF Catalog!Undecided
<1>4. req[w].op \in {"get", "create", "update", "delete", "cached"}
        /\ pc[w] \in LocationsOf(req[w].op)
        => /\ pc[w] \in {"count", "insert"} => req[w].op = "create"
           /\ pc[w] = "update" => req[w].op = "update"
           /\ pc[w] = "delete" => req[w].op = "delete"
           /\ pc[w] = "lookup" => req[w].op = "cached"
           /\ pc[w] = "find" => req[w].op \in {"get", "update", "delete"}
  BY DEF LocationsOf
<1> QED BY <1>2, <1>3, <1>4

LEMMA FindRefines ==
  ASSUME TypeOK, NEW w \in Workers, Find(w)
  PROVE  CatalogStep
<1>1. /\ pc[w] = "find" /\ UNCHANGED <<table, nextId>>
      /\ Catalog!Undecided(w, "get") \/ Catalog!Undecided(w, "update")
           \/ Catalog!Undecided(w, "delete")
  BY Serving DEF Find, database
<1>2. CASE \E r \in table : r.id = req[w].id /\ AfterFind(w, r)
  <2>1. PICK r \in table : r.id = req[w].id /\ AfterFind(w, r)
    BY <1>2
  <2>2. CASE Holding(w, r, "update") \/ Holding(w, r, "delete")
    <3>1. \A v \in Workers : Decided(v)' = Decided(v)
      BY <1>1, <2>2 DEF TypeOK, ServerOK, Holding, Decided
    <3> QED BY <1>1, <2>2, <3>1 DEF CatalogStep, Decisions, Holding
  <2>3. CASE req[w].op = "get" /\ Holding(w, r, "fill")
    <3>1. \A v \in Workers :
            Decided(v)' = IF v = w THEN Ans("ok", r) ELSE Decided(v)
      BY <1>1, <2>3 DEF TypeOK, ServerOK, Holding, Decided
    <3>2. Catalog!Decide(w, Ans("ok", r))
      BY <2>3, <3>1, DecidesWith DEF Holding
    <3>3. Catalog!Undecided(w, "get")
      BY <1>1, <2>3 DEF Catalog!Undecided
    <3>4. Catalog!Get(w)
      BY <1>1, <2>1, <3>2, <3>3, SameData DEF Catalog!Get, Catalog!Same
    <3> QED BY <3>4 DEF CatalogStep, Catalog!Next
  <2>4. CASE req[w].op = "get" /\ Respond(w, Ans("ok", r))
    <3>1. Catalog!Decide(w, Ans("ok", r))
      BY <1>1, <2>4, RespondDecides
    <3>2. Catalog!Undecided(w, "get")
      BY <1>1, <2>4 DEF Catalog!Undecided
    <3>3. Catalog!Get(w)
      BY <1>1, <2>1, <3>1, <3>2, SameData DEF Catalog!Get, Catalog!Same
    <3> QED BY <3>3 DEF CatalogStep, Catalog!Next
  <2> QED BY <2>1, <2>2, <2>3, <2>4 DEF AfterFind
<1>3. CASE ~HasId(table, req[w].id) /\ Respond(w, Plain("not_found"))
  <2>1. Catalog!Decide(w, Plain("not_found"))
    BY <1>1, <1>3, RespondDecides
  <2>2. Catalog!Get(w) \/ Catalog!Update(w) \/ Catalog!Delete(w)
    BY <1>1, <1>3, <2>1, SameData
       DEF Catalog!Get, Catalog!Update, Catalog!Delete, Catalog!Same
  <2> QED BY <2>2 DEF CatalogStep, Catalog!Next
<1>4. CASE Respond(w, Plain("error"))
  <2>1. Catalog!Decide(w, Plain("error"))
    BY <1>1, <1>4, RespondDecides
  <2>2. Catalog!Get(w) \/ Catalog!Update(w) \/ Catalog!Delete(w)
    BY <1>1, <2>1, SameData
       DEF Catalog!Get, Catalog!Update, Catalog!Delete, Catalog!Same
  <2> QED BY <2>2 DEF CatalogStep, Catalog!Next
<1> QED BY <1>2, <1>3, <1>4 DEF Find

(* The answer of a filling GetProduct was decided by its FindByUid. *)
LEMMA FillRefines ==
  ASSUME TypeOK, NEW w \in Workers, Fill(w)
  PROVE  CatalogStep
<1>1. \A v \in Workers : Decided(v)' = Decided(v)
  BY DEF TypeOK, ServerOK, Fill, Respond, Decided
<1> QED BY <1>1 DEF Fill, Respond, CatalogStep, Decisions, database

LEMMA CountRefines ==
  ASSUME TypeOK, NEW w \in Workers, Count(w)
  PROVE  CatalogStep
<1>1. pc[w] = "count" /\ UNCHANGED <<table, nextId>>
  BY DEF Count, database
<1>2. CASE HasSku(table, req[w].sku) /\ Respond(w, Plain("duplicate"))
  <2>1. Catalog!Create(w)
    BY <1>1, <1>2, Serving, RespondDecides, SameData DEF Catalog!Create, Catalog!Same
  <2> QED BY <2>1 DEF CatalogStep, Catalog!Next
<1>3. CASE Continue(w, "insert")
  <2>1. \A v \in Workers : Decided(v)' = Decided(v)
    BY <1>1, <1>3 DEF TypeOK, ServerOK, Continue, Decided
  <2> QED BY <1>1, <1>3, <2>1 DEF Continue, CatalogStep, Decisions
<1> QED BY <1>2, <1>3 DEF Count

LEMMA InsertRefines ==
  ASSUME TypeOK, NEW w \in Workers, Insert(w)
  PROVE  CatalogStep
<1>1. /\ pc[w] = "insert" /\ Catalog!Undecided(w, "create")
      /\ \A a : Respond(w, a) => Catalog!Decide(w, a)
  BY Serving, RespondDecides DEF Insert
<1>2. InsertRow(w) => Catalog!Inserts(w)
  BY SameData DEF InsertRow, IndexAdmits, NewRow, Catalog!Inserts
<1>3. Catalog!Create(w)
  BY <1>1, <1>2, SameData DEF Insert, Catalog!Create, Catalog!Same, database
<1> QED BY <1>3 DEF CatalogStep, Catalog!Next

(* UpdateById is given the id of the row that was found, which is the id   *)
(* of the request.                                                         *)
LEMMA UpdateRefines ==
  ASSUME TypeOK, NEW w \in Workers, Update(w)
  PROVE  CatalogStep
<1>1. /\ Catalog!Undecided(w, "update")
      /\ Catalog!Decide(w, Plain("ok"))
      /\ item[w].id = req[w].id
  BY Serving, RespondDecides DEF Update, TypeOK, ServerOK, RequestOK
<1>2. Catalog!Update(w)
  BY <1>1, SameData DEF Update, UpdateById, Catalog!Update
<1> QED BY <1>2 DEF CatalogStep, Catalog!Next

LEMMA DeleteRefines ==
  ASSUME TypeOK, NEW w \in Workers, Delete(w)
  PROVE  CatalogStep
<1>1. /\ pc[w] = "delete" /\ Catalog!Undecided(w, "delete")
      /\ \A a : Respond(w, a) => Catalog!Decide(w, a)
      /\ item[w].id = req[w].id
  BY Serving, RespondDecides DEF Delete, TypeOK, ServerOK, RequestOK
<1>2. Catalog!Delete(w)
  BY <1>1, SameData DEF Delete, Catalog!Delete
<1> QED BY <1>2 DEF CatalogStep, Catalog!Next

(* Only here the invariant of the cache is needed. *)
LEMMA LookupRefines ==
  ASSUME TypeOK, CachedUnderItsSku, NEW w \in Workers, Lookup(w)
  PROVE  CatalogStep
<1>1. /\ pc[w] = "lookup" /\ UNCHANGED <<table, nextId>>
      /\ Catalog!Undecided(w, "cached")
      /\ \A a : Respond(w, a) => Catalog!Decide(w, a)
  BY Serving, RespondDecides DEF Lookup, database
<1>2. req[w].sku \in AnySku
  BY <1>1, Operations DEF TypeOK, ServerOK, RequestOK, Catalog!Undecided
<1>3. CASE req[w].sku = NoSku
  BY <1>1, <1>3, SameData DEF Lookup, Catalog!Cached, Catalog!Same, CatalogStep,
                    Catalog!Next
<1>4. CASE req[w].sku # NoSku
  <2> DEFINE d == cache[req[w].sku]
  <2>1. d # None => d \in Doc /\ (d \in Row => d.sku = req[w].sku)
    BY <1>2, <1>4 DEF TypeOK, RedisOK, CachedUnderItsSku, AnySku
  <2>2. \/ d # None /\ Catalog!Decide(w, Ans("hit", d))
        \/ Catalog!Decide(w, Plain("miss"))
        \/ Catalog!Decide(w, Plain("error"))
    BY <1>1, <1>4 DEF Lookup
  <2>3. Catalog!Cached(w)
    BY <1>1, <2>1, <2>2, SameData DEF Catalog!Cached, Catalog!Same
  <2> QED BY <2>3 DEF CatalogStep, Catalog!Next
<1> QED BY <1>3, <1>4

LEMMA ForgetDecides ==
  ASSUME TypeOK, NEW w \in Workers, Forget(w)
  PROVE  Catalog!Abandon(w)
<1>1. \A v \in Workers : Decided(v)' = IF v = w THEN None ELSE Decided(v)
  BY DEF TypeOK, ServerOK, Forget, Decided
<1> QED BY <1>1 DEF Forget, Catalog!Abandon, Catalog!Same, database

(* A step that leaves the handlers where they are. *)
LEMMA NoHandlerStep ==
  ASSUME TypeOK, UNCHANGED <<database, pc, req, item, resp>>
  PROVE  CatalogStep
  BY DEF CatalogStep, Decisions, Decided, database

LEMMA StepRefines ==
  ASSUME TypeOK, CachedUnderItsSku, [Next]_vars
  PROVE  CatalogStep
<1>1. ASSUME NEW w \in Workers, NEW r \in Request, Receive(w, r)
      PROVE  CatalogStep
  <2>1. req[w] = None /\ \A v \in Workers : Decided(v)' = Decided(v)
    BY <1>1 DEF TypeOK, ServerOK, RequestOK, Receive, Decided, FirstCall,
                Request, GetRequest, CreateRequest, UpdateRequest,
                DeleteRequest, CachedRequest
  <2>2. Catalog!Call(w)
    BY <1>1, <2>1, SameData DEF Receive, Catalog!Call, database
  <2> QED BY <2>2, SameData DEF CatalogStep, Catalog!Next
<1>2. ASSUME NEW w \in Workers, Step(w) PROVE CatalogStep
  <2>1. CASE Reply(w)
    BY <2>1, ForgetDecides DEF Reply, CatalogStep, Catalog!Next
  <2> QED BY <1>2, <2>1, FindRefines, FillRefines, CountRefines,
             InsertRefines, UpdateRefines, DeleteRefines, LookupRefines
          DEF Step
<1>3. ASSUME NEW w \in Workers, Abandon(w) PROVE CatalogStep
  BY <1>3, ForgetDecides DEF Abandon, CatalogStep, Catalog!Next
<1>4. ASSUME NEW k \in Skus, Evict(k) PROVE CatalogStep
  BY <1>4, NoHandlerStep DEF Evict, server
<1>5. CASE Tick
  BY <1>5, NoHandlerStep DEF Tick
<1>6. CASE UNCHANGED vars
  BY <1>6, NoHandlerStep DEF vars, server
<1> QED BY <1>1, <1>2, <1>3, <1>4, <1>5, <1>6 DEF Next

(* Every behaviour of the service is one the catalog allows. *)
THEOREM Refinement == Spec => ImplementsCatalog
<1>1. Init => Catalog!Init
  BY DEF Init, Catalog!Init, Decided
<1>2. TypeOK /\ CachedUnderItsSku /\ [Next]_vars
        => [Catalog!Next]_Catalog!vars
  BY StepRefines, SameData DEF CatalogStep, Catalog!vars, Decisions
<1> QED BY <1>1, <1>2, TypeCorrect, CacheKeysRight, PTL
        DEF Spec, ImplementsCatalog, Catalog!Spec
=============================================================================
