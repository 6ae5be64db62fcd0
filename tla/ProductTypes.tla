---------------------------- MODULE ProductTypes ----------------------------
(***************************************************************************)
(* The data of the product service: rows of the products table, the        *)
(* requests of the Product API and the answers to them, shared by the      *)
(* abstract catalog and by the service that implements it.                 *)
(*                                                                         *)
(* The three columns an update replaces together (name, status, price) are *)
(* one value of Vals.  A row's uid is assigned with its id and never       *)
(* changes, so one number stands for both.                                 *)
(***************************************************************************)
EXTENDS Naturals

CONSTANTS
  Workers,  \* requests the servers (REST and gRPC) handle at one time
  MaxId,    \* bound: the number of rows that are ever inserted
  Skus,     \* the nonempty SKUs
  NoSku,    \* the empty SKU, which nothing forbids at creation
  Vals,     \* contents of (name, status, price)
  NonJson,  \* those with a price JSON cannot carry (NaN, +Inf, -Inf)
  None,     \* absent: no row, no cache entry, no request, no answer
  Blank     \* the empty string in the place of a product document

ASSUME TypesAssumption ==
  /\ MaxId \in Nat
  /\ NoSku \notin Skus
  /\ NonJson \subseteq Vals

Ids == 1..MaxId
AnySku == Skus \cup {NoSku}

(* entity.Product *)
Row == [id : Ids, sku : AnySku, val : Vals]

(* GetProductResponse as the string stored in the cache *)
Doc == Row \cup {Blank}

ASSUME SentinelAssumption ==
  /\ None \notin Doc
  /\ Blank \notin Row

GetRequest    == [op : {"get"}, id : Ids]
CreateRequest == [op : {"create"}, sku : AnySku, val : Vals]
UpdateRequest == [op : {"update"}, id : Ids, sku : AnySku, val : Vals]
DeleteRequest == [op : {"delete"}, id : Ids]
CachedRequest == [op : {"cached"}, sku : AnySku]

Request ==
  GetRequest \cup CreateRequest \cup UpdateRequest \cup DeleteRequest
    \cup CachedRequest

ASSUME RequestAssumption == None \notin Request

Code == {"ok", "not_found", "duplicate", "bad_request", "error", "hit", "miss"}

Answer == [code : Code, body : Doc \cup {None}]

ASSUME AnswerAssumption == None \notin Answer

Ans(code, body) == [code |-> code, body |-> body]
Plain(code) == Ans(code, None)

(***************************************************************************)
(* Statements on the products table, a set of rows.                        *)
(***************************************************************************)
HasId(tbl, id) == \E r \in tbl : r.id = id
HasSku(tbl, sku) == \E r \in tbl : r.sku = sku
WithoutId(tbl, id) == {r \in tbl : r.id # id}

(* UPDATE products SET name, status, price WHERE id *)
Rewritten(r, val) == [r EXCEPT !.val = val]
WithVal(tbl, id, val) ==
  {IF r.id = id THEN Rewritten(r, val) ELSE r : r \in tbl}

=============================================================================
