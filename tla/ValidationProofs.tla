--------------------------- MODULE ValidationProofs ---------------------------
(***************************************************************************)
(* What the rules of a listing mean, for any page and any limit.           *)
(***************************************************************************)
EXTENDS Validation, SequenceTheorems, TLAPS

USE ErrorAssumption

LEMMA TwoErrors ==
  /\ <<"Page">> \o <<"Limit">> # <<>>
  /\ Head(<<"Page">> \o <<"Limit">>) = "Page"
<1> DEFINE both == <<"Page">> \o <<"Limit">>
<1> DEFINE Fields == {"Page", "Limit"}
<1>1. <<"Page">> \in Seq(Fields) /\ <<"Limit">> \in Seq(Fields)
  OBVIOUS
<1>2. both \in Seq(Fields) /\ Len(both) = 2 /\ both[1] = "Page"
  BY <1>1, ConcatProperties
<1> HIDE DEF both
<1>3. both # <<>> /\ Head(both) = both[1]
  BY <1>2, HeadTailProperties, EmptySeq
<1> QED  BY <1>2, <1>3 DEF both

LEMMA ListingErrors ==
  ASSUME NEW m, m.page \in Int, m.limit \in Int
  PROVE  LET errors == ListProductsRequestErrors(m) IN
         /\ errors = <<>> <=> m.page >= 1 /\ m.limit \in 1..100
         /\ errors = <<>> \/ Head(errors) \in {"Page", "Limit"}
<1> DEFINE errors == ListProductsRequestErrors(m)
<1>1. CASE m.page >= 1 /\ m.limit \in 1..100
  BY <1>1 DEF ListProductsRequestErrors, Unless
<1>2. CASE m.page >= 1 /\ m.limit \notin 1..100
  <2>1. errors = <<>> \o <<"Limit">>
    BY <1>2 DEF ListProductsRequestErrors, Unless
  <2>2. <<>> \o <<"Limit">> = <<"Limit">>
    OBVIOUS
  <2> QED  BY <1>2, <2>1, <2>2
<1>3. CASE ~(m.page >= 1) /\ m.limit \in 1..100
  <2>1. errors = <<"Page">> \o <<>>
    BY <1>3 DEF ListProductsRequestErrors, Unless
  <2>2. <<"Page">> \o <<>> = <<"Page">>
    OBVIOUS
  <2> QED  BY <1>3, <2>1, <2>2
<1>4. CASE ~(m.page >= 1) /\ m.limit \notin 1..100
  <2>1. errors = <<"Page">> \o <<"Limit">>
    BY <1>4 DEF ListProductsRequestErrors, Unless
  <2> HIDE DEF errors
  <2> QED  BY <1>4, <2>1, TwoErrors DEF errors
<1> QED  BY <1>1, <1>2, <1>3, <1>4

LEMMA ValidListing ==
  ASSUME NEW m, m.op = "ListProducts", m # Nil, m.page \in Int, m.limit \in Int
  PROVE  Validate(m) = Nil <=> m.page >= 1 /\ m.limit \in 1..100
<1>1. Errors(m) = ListProductsRequestErrors(m)
  BY DEF Errors
<1>2. CASE Errors(m) = <<>>
  BY <1>1, <1>2, ListingErrors DEF Validate, validate
<1>3. CASE Errors(m) # <<>>
  <2>1. Validate(m) = Head(Errors(m))
    BY <1>3 DEF Validate, validate
  <2>2. Head(Errors(m)) \in {"Page", "Limit"}
    BY <1>1, <1>3, ListingErrors
  <2> QED  BY <1>1, <1>3, <2>1, <2>2, ListingErrors
<1> QED  BY <1>2, <1>3
=============================================================================
