--------------------------- MODULE ProductCatalog ---------------------------
(***************************************************************************)
(* What a client of the Product API may rely on.  Between its call and its *)
(* return every request takes effect at one instant, at which its answer   *)
(* is decided against the table of that instant.                           *)
(*                                                                         *)
(* Three weaknesses of the API are part of the promise, because the        *)
(* service has them: an "error" may hide a write that took place, a        *)
(* successful update may have changed nothing, and a product read through  *)
(* the cache is only known to carry the SKU it was asked for by.           *)
(***************************************************************************)
EXTENDS ProductTypes

VARIABLES
  table,   \* the products table
  nextId,  \* the next primary key
  call,    \* call[w]: the request w is serving, or None
  answer   \* answer[w]: its answer once it is decided, or None

vars == <<table, nextId, call, answer>>

Init ==
  /\ table = {}
  /\ nextId = 1
  /\ call = [w \in Workers |-> None]
  /\ answer = [w \in Workers |-> None]

Call(w) ==
  /\ call[w] = None
  /\ \E r \in Request : call' = [call EXCEPT ![w] = r]
  /\ UNCHANGED <<table, nextId, answer>>

Undecided(w, op) ==
  /\ call[w] # None
  /\ call[w].op = op
  /\ answer[w] = None

Decide(w, a) ==
  /\ answer' = [answer EXCEPT ![w] = a]
  /\ UNCHANGED call

Same == UNCHANGED <<table, nextId>>

(* A read returns the row as it is at this instant. *)
Get(w) ==
  /\ Undecided(w, "get")
  /\ Same
  /\ \/ \E r \in table : r.id = call[w].id /\ Decide(w, Ans("ok", r))
     \/ ~HasId(table, call[w].id) /\ Decide(w, Plain("not_found"))
     \/ Decide(w, Plain("error"))

(* "ok" adds the row, and only where its SKU is free; "duplicate" is said  *)
(* only while the SKU is taken.                                            *)
Inserts(w) ==
  /\ nextId \in Ids
  /\ ~HasSku(table, call[w].sku)
  /\ table' = table \cup
       {[id |-> nextId, sku |-> call[w].sku, val |-> call[w].val]}
  /\ nextId' = nextId + 1

Create(w) ==
  /\ Undecided(w, "create")
  /\ \/ Inserts(w) /\ Decide(w, Plain("ok"))
     \/ Inserts(w) /\ Decide(w, Plain("error"))
     \/ Same /\ HasSku(table, call[w].sku) /\ Decide(w, Plain("duplicate"))
     \/ Same /\ Decide(w, Plain("error"))

Update(w) ==
  /\ Undecided(w, "update")
  /\ UNCHANGED nextId
  /\ \/ table' = WithVal(table, call[w].id, call[w].val)
          /\ Decide(w, Plain("ok"))
     \/ UNCHANGED table /\ Decide(w, Plain("ok"))
     \/ UNCHANGED table /\ ~HasId(table, call[w].id)
          /\ Decide(w, Plain("not_found"))
     \/ UNCHANGED table /\ Decide(w, Plain("error"))

(* After "ok" the row is gone. *)
Delete(w) ==
  /\ Undecided(w, "delete")
  /\ UNCHANGED nextId
  /\ \/ table' = WithoutId(table, call[w].id)
          /\ (Decide(w, Plain("ok")) \/ Decide(w, Plain("error")))
     \/ UNCHANGED table /\ ~HasId(table, call[w].id)
          /\ Decide(w, Plain("not_found"))
     \/ UNCHANGED table /\ Decide(w, Plain("error"))

(* A cache hit is a product with the SKU asked for, or no document at all. *)
Cached(w) ==
  /\ Undecided(w, "cached")
  /\ Same
  /\ \/ \E d \in Doc :
          /\ d \in Row => d.sku = call[w].sku
          /\ Decide(w, Ans("hit", d))
     \/ Decide(w, Plain("miss"))
     \/ Decide(w, Plain("bad_request"))
     \/ Decide(w, Plain("error"))

Return(w) ==
  /\ answer[w] # None
  /\ call' = [call EXCEPT ![w] = None]
  /\ answer' = [answer EXCEPT ![w] = None]
  /\ Same

(* The process serving a request may stop: the request gets no answer. *)
Abandon(w) ==
  /\ call' = [call EXCEPT ![w] = None]
  /\ answer' = [answer EXCEPT ![w] = None]
  /\ Same

Next ==
  \E w \in Workers :
    \/ Call(w)
    \/ Get(w) \/ Create(w) \/ Update(w) \/ Delete(w) \/ Cached(w)
    \/ Return(w) \/ Abandon(w)

Spec == Init /\ [][Next]_vars

=============================================================================
