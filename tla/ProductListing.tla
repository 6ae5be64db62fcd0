--------------------------- MODULE ProductListing ----------------------------
(***************************************************************************)
(* ListProducts: a client walks through the products page by page, while   *)
(* other requests insert and delete products.  Each page is a request of   *)
(* its own, validated and then answered by two queries, one that counts    *)
(* and one that reads (productRepo.FindWithPagination).                    *)
(*                                                                         *)
(* Products are named by their ids, in whose order they are listed.  The   *)
(* client is external: it begins where it likes and goes on until it has   *)
(* seen the last page there is by the answer it got last.                  *)
(***************************************************************************)
EXTENDS Validation, FiniteSets

CONSTANTS
  MaxId,         \* bound: the number of products that are ever inserted
  FirstPages,    \* the pages a walk begins with
  Limits         \* the page sizes a client asks for

Ids == 1..MaxId
Filters == {"none", "sku", "name"}
SortOrders == {"ASC", "DESC"}
ListProductsRequest ==
  [op : {"ListProducts"}, page : Int, limit : Int,
   sort_order : SortOrders, filter : Filters]

ASSUME ListingAssumption ==
  /\ MaxId \in Nat
  /\ FirstPages \subseteq Int /\ Limits \subseteq Int
  /\ Nil \notin Nat /\ Nil \notin ListProductsRequest

VARIABLES
  rows, nextId,      \* the products table and its key sequence
  withSku,           \* the ids whose SKU is the one of the filter
  pc, req,           \* where the walk is; its current request
  first,             \* the page it began with
  total, found,      \* what the two queries of a request have returned
  listed,            \* the results of the pages so far
  always,            \* history: products there from the beginning on
  inserted, removed, \* history: a product was inserted, deleted on the way
  torn,              \* history: ... between the two queries of one page
  faulted            \* history: the database has failed, or the deadline

products == <<rows, nextId, withSku>>
history  == <<always, inserted, removed, torn, faulted>>
walk     == <<pc, req, first, total, found, listed>>
vars     == <<products, walk, history>>

Init ==
  /\ nextId \in Ids
  /\ rows \in SUBSET (1..(nextId - 1))
  /\ first \in FirstPages
  /\ \E limit \in Limits, f \in Filters, order \in SortOrders :
       /\ req = [op |-> "ListProducts", page |-> first, limit |-> limit,
                 sort_order |-> order, filter |-> f]
       /\ withSku \in IF f = "sku" THEN SUBSET Ids ELSE {{}}
  /\ Cardinality(rows \cap withSku) <= 1
  /\ pc = "called"
  /\ total = Nil /\ found = Nil
  /\ listed = <<>>
  /\ always = rows
  /\ inserted = FALSE /\ removed = FALSE /\ torn = FALSE /\ faulted = FALSE

-----------------------------------------------------------------------------
(* Other requests.  The SKU is unique among the products that exist.       *)

Walking == pc \in {"called", "query"}
BetweenQueries == pc = "query" /\ (total # Nil \/ found # Nil)

Insert ==
  /\ Walking
  /\ nextId \in Ids
  /\ nextId \in withSku => rows \cap withSku = {}
  /\ rows' = rows \cup {nextId}
  /\ nextId' = nextId + 1
  /\ inserted' = TRUE
  /\ torn' = (torn \/ BetweenQueries)
  /\ UNCHANGED <<walk, withSku, always, removed, faulted>>

Remove ==
  /\ Walking
  /\ \E id \in rows : rows' = rows \ {id} /\ always' = always \ {id}
  /\ removed' = TRUE
  /\ torn' = (torn \/ BetweenQueries)
  /\ UNCHANGED <<walk, nextId, withSku, inserted, faulted>>

-----------------------------------------------------------------------------
(* The handler and its two queries. *)

Refuse ==
  /\ pc = "called"
  /\ Validate(req) # Nil
  /\ pc' = "refused"
  /\ UNCHANGED <<first, req, total, found, listed, products, history>>

Accept ==
  /\ pc = "called"
  /\ Validate(req) = Nil
  /\ pc' = "query"
  /\ UNCHANGED <<first, req, total, found, listed, products, history>>

(* WithFilter.  The SKU is compared; a name is looked for in a column      *)
(* "names", which the table does not have, and no such query succeeds.     *)
Matching == IF req.filter = "sku" THEN rows \cap withSku ELSE rows
FilterFits == req.filter # "name"

UnfilteredCount ==
  /\ pc = "query" /\ FilterFits
  /\ total = Nil
  /\ total' = Cardinality(rows)
  /\ UNCHANGED <<first, pc, req, found, listed, products, history>>

Count ==
  /\ pc = "query" /\ FilterFits
  /\ total = Nil
  /\ total' = Cardinality(Matching)
  /\ UNCHANGED <<first, pc, req, found, listed, products, history>>

(* WithOrder, with sort_by = "id". *)
Before(order, i, j) == IF order = "ASC" THEN i < j ELSE i > j

(* SELECT ... ORDER BY id LIMIT limit OFFSET (page - 1) * limit, of the    *)
(* rows with these ids.  The rank of a row is the number of rows in front  *)
(* of it.                                                                  *)
Rank(order, ids, r) == Cardinality({q \in ids : Before(order, q, r)})
InWindow(order, ids, limit, page) ==
  {r \in ids : /\ (page - 1) * limit <= Rank(order, ids, r)
               /\ Rank(order, ids, r) < page * limit}

Ordered(order, s) ==
  \A i, j \in DOMAIN s : i < j => Before(order, s[i], s[j])
Sorted(order, ids) ==
  CHOOSE s \in [1..Cardinality(ids) -> ids] : Ordered(order, s)

Page(limit, page) ==
  Sorted(req.sort_order, InWindow(req.sort_order, Matching, limit, page))

FindSwapped ==
  /\ pc = "query" /\ FilterFits
  /\ found = Nil
  /\ found' = Page(req.page, req.limit)
  /\ UNCHANGED <<first, pc, req, total, listed, products, history>>

Find ==
  /\ pc = "query" /\ FilterFits
  /\ found = Nil
  /\ found' = Page(req.limit, req.page)
  /\ UNCHANGED <<first, pc, req, total, listed, products, history>>

(* Either query fails: the deadline, the database, a filter that does not  *)
(* fit.                                                                    *)
Fail ==
  /\ pc = "query"
  /\ pc' = "failed"
  /\ faulted' = FilterFits
  /\ UNCHANGED <<first, req, total, found, listed, products, always, inserted,
                 removed, torn>>

(* ListProductsResponse. *)
RoundedDown ==
  [limit |-> req.limit, page |-> req.page, total_records |-> total,
   total_page |-> total \div req.limit]
Pagination ==
  [limit |-> req.limit, page |-> req.page, total_records |-> total,
   total_page |-> (total + req.limit - 1) \div req.limit]
Response == [products |-> found, pagination |-> Pagination]

(* The answer; the client asks for the next page, if there is one.         *)
Answer ==
  /\ pc = "query"
  /\ total # Nil /\ found # Nil
  /\ listed' = listed \o Response.products
  /\ total' = Nil /\ found' = Nil
  /\ IF req.page < Response.pagination.total_page
     THEN pc' = "called" /\ req' = [req EXCEPT !.page = @ + 1]
     ELSE pc' = "finished" /\ UNCHANGED req
  /\ UNCHANGED <<first, products, history>>

-----------------------------------------------------------------------------
Next == Insert \/ Remove \/ Refuse \/ Accept \/ Count \/ Find \/ Fail \/ Answer

Spec == Init /\ [][Next]_vars

-----------------------------------------------------------------------------
(* Every variable has its type, and no query is made for a page or a limit *)
(* outside the range that keeps its offset from being negative.            *)
TypeOK ==
  /\ nextId \in 1..(MaxId + 1)
  /\ rows \subseteq Ids /\ always \subseteq rows /\ withSku \subseteq Ids
  /\ \A id \in rows : id < nextId
  /\ pc \in {"called", "query", "refused", "failed", "finished"}
  /\ first \in FirstPages /\ req \in ListProductsRequest
  /\ total \in Nat \cup {Nil}
  /\ found = Nil \/ found \in Seq(Ids)
  /\ listed \in Seq(Ids)
  /\ pc = "query" => req.page >= 1 /\ req.limit \in 1..100

Listed(id) == \E i \in DOMAIN listed : listed[i] = id

(* A walk from the first page to the last one lists every product that was *)
(* there all the time, unless a product was deleted on the way or a write  *)
(* fell between the two queries of a page.                                 *)
NothingHidden ==
  pc = "finished" /\ first = 1 /\ ~removed /\ ~torn =>
    \A id \in always : (req.filter = "sku" => id \in withSku) => Listed(id)

(* Unless a product was inserted on the way, the pages put together are in *)
(* the order of the query, and no product is on two of them.               *)
NothingRepeated == ~inserted => Ordered(req.sort_order, listed)

(* A walk that no write disturbs shows the list: its pages put together    *)
(* are what the query returns without a limit, from its first page on.     *)
PagesMakeTheList ==
  pc = "finished" /\ ~inserted /\ ~removed =>
    LET all == Sorted(req.sort_order, Matching) IN
    listed = SubSeq(all, (first - 1) * req.limit + 1, Len(all))

(* A page agrees with the totals it is delivered with, unless a write fell *)
(* between the two queries.                                                *)
PageAgreesWithTotals ==
  pc = "query" /\ total # Nil /\ found # Nil /\ ~torn =>
    LET behind == total - (req.page - 1) * req.limit IN
    Len(found) = IF behind < 0 THEN 0
                 ELSE IF behind < req.limit THEN behind ELSE req.limit

(* A listing fails only because the database does, or the deadline passes. *)
FailsOnlyByFault == pc = "failed" => faulted
=============================================================================
