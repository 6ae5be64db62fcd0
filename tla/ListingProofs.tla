---------------------------- MODULE ListingProofs ----------------------------
(***************************************************************************)
(* The listing for any number of products, whatever page a walk begins     *)
(* with and whatever page size its client asks for.                        *)
(***************************************************************************)
EXTENDS ProductListing, ValidationProofs, FiniteSetTheorems, FunctionTheorems

USE ErrorAssumption, ListingAssumption

-----------------------------------------------------------------------------
(* Order and rank. *)

(* Either order is a strict order of the ids. *)
LEMMA StrictOrder ==
  ASSUME NEW order \in SortOrders, NEW i \in Int, NEW j \in Int, NEW k \in Int
  PROVE  /\ ~Before(order, i, i)
         /\ Before(order, i, j) /\ Before(order, j, k) => Before(order, i, k)
         /\ Before(order, i, j) \/ Before(order, j, i) \/ i = j
  BY DEF Before, SortOrders

LEMMA FiniteIds ==
  ASSUME NEW ids \in SUBSET Ids
  PROVE  ids \subseteq Int /\ IsFiniteSet(ids) /\ Cardinality(ids) \in Nat
<1>1. IsFiniteSet(Ids) /\ Ids \subseteq Int
  BY 1 \in Int, FS_Interval DEF Ids
<1>2. IsFiniteSet(ids)
  BY <1>1, FS_Subset
<1> QED  BY <1>1, <1>2, FS_CardinalityType

LEMMA RankType ==
  ASSUME NEW order \in SortOrders, NEW ids \in SUBSET Ids, NEW r
  PROVE  Rank(order, ids, r) \in Nat
<1>1. {q \in ids : Before(order, q, r)} \in SUBSET Ids
  OBVIOUS
<1> QED  BY <1>1, FiniteIds DEF Rank

(* A row that is deleted takes no other one back, one that is inserted     *)
(* takes none forward.                                                     *)
LEMMA RankGrows ==
  ASSUME NEW order \in SortOrders, NEW ids \in SUBSET Ids, NEW more \in SUBSET Ids,
         ids \subseteq more, NEW r
  PROVE  Rank(order, ids, r) <= Rank(order, more, r)
<1> DEFINE Front(S) == {q \in S : Before(order, q, r)}
<1>1. Front(more) \in SUBSET Ids /\ Front(ids) \in SUBSET Front(more)
  OBVIOUS
<1>2. IsFiniteSet(Front(more))
  BY <1>1, FiniteIds
<1>3. Cardinality(Front(ids)) <= Cardinality(Front(more))
  BY <1>1, <1>2, FS_Subset
<1> QED  BY <1>3 DEF Rank

LEMMA RankFollowsOrder ==
  ASSUME NEW order \in SortOrders, NEW ids \in SUBSET Ids,
         NEW q \in Int, NEW r \in Int, Before(order, q, r)
  PROVE  /\ Rank(order, ids, q) <= Rank(order, ids, r)
         /\ q \in ids => Rank(order, ids, q) < Rank(order, ids, r)
<1> DEFINE Front(x) == {p \in ids : Before(order, p, x)}
<1>1. Front(q) \in SUBSET Front(r)
  <2>1. ASSUME NEW p \in Front(q) PROVE p \in Front(r)
    BY FiniteIds, StrictOrder
  <2> QED  BY <2>1
<1>2. IsFiniteSet(Front(r)) /\ Cardinality(Front(r)) \in Nat /\ Cardinality(Front(q)) \in Nat
  <2>1. Front(r) \in SUBSET Ids /\ Front(q) \in SUBSET Ids
    OBVIOUS
  <2> QED  BY <2>1, FiniteIds
<1>3. q \in ids => q \in Front(r) /\ q \notin Front(q)
  BY StrictOrder
<1>4. /\ Cardinality(Front(q)) <= Cardinality(Front(r))
      /\ Cardinality(Front(r)) = Cardinality(Front(q)) => Front(r) = Front(q)
  BY <1>1, <1>2, FS_Subset
<1>5. Rank(order, ids, q) = Cardinality(Front(q)) /\ Rank(order, ids, r) = Cardinality(Front(r))
  BY DEF Rank
<1> HIDE DEF Front
<1> QED  BY <1>2, <1>3, <1>4, <1>5

(* Conversely, a row with fewer rows in front of it comes first.           *)
LEMMA OrderFollowsRank ==
  ASSUME NEW order \in SortOrders, NEW ids \in SUBSET Ids,
         NEW q \in Int, NEW r \in Int, Rank(order, ids, q) < Rank(order, ids, r)
  PROVE  Before(order, q, r)
<1>1. q # r
  BY RankType
<1>2. ~Before(order, r, q)
  BY RankType, RankFollowsOrder
<1> QED  BY <1>1, <1>2, StrictOrder

LEMMA RankBounded ==
  ASSUME NEW order \in SortOrders, NEW ids \in SUBSET Ids, NEW r \in ids
  PROVE  Rank(order, ids, r) < Cardinality(ids)
<1> DEFINE front == {q \in ids : Before(order, q, r)}
<1>1. front \in SUBSET ids /\ r \notin front
  BY FiniteIds, StrictOrder
<1>2. /\ Cardinality(front) <= Cardinality(ids)
      /\ Cardinality(ids) = Cardinality(front) => ids = front
  BY <1>1, FiniteIds, FS_Subset
<1>3. Cardinality(front) \in Nat /\ Cardinality(ids) \in Nat
  BY FiniteIds
<1>4. Rank(order, ids, r) = Cardinality(front)
  BY DEF Rank
<1> HIDE DEF front
<1> QED  BY <1>1, <1>2, <1>3, <1>4

LEMMA RankInjective ==
  ASSUME NEW order \in SortOrders, NEW ids \in SUBSET Ids, NEW q \in ids, NEW r \in ids,
         Rank(order, ids, q) = Rank(order, ids, r)
  PROVE  q = r
<1>1. q \in Int /\ r \in Int
  BY FiniteIds
<1>2. ~Before(order, q, r) /\ ~Before(order, r, q)
  BY <1>1, RankType, RankFollowsOrder
<1> QED  BY <1>1, <1>2, StrictOrder

(* The ranks number the rows, from 0 on and without a gap.                 *)
LEMMA RankNumbers ==
  ASSUME NEW order \in SortOrders, NEW ids \in SUBSET Ids
  PROVE  [r \in ids |-> Rank(order, ids, r)] \in Bijection(ids, 0..(Cardinality(ids) - 1))
<1> DEFINE rank == [r \in ids |-> Rank(order, ids, r)]
           numbers == 0..(Cardinality(ids) - 1)
<1>1. rank \in [ids -> numbers]
  BY RankType, RankBounded, FiniteIds
<1>2. ASSUME NEW q \in ids, NEW r \in ids, rank[q] = rank[r] PROVE q = r
  BY <1>2, RankInjective
<1>3. rank \in Injection(ids, numbers)
  BY <1>1, <1>2, Fun_IsInj
<1>4. Cardinality(ids) \in Nat
  BY FiniteIds
<1>5. IsFiniteSet(numbers) /\ Cardinality(numbers) = Cardinality(ids)
  BY <1>4, 0 \in Int, Cardinality(ids) - 1 \in Int, FS_Interval
<1> HIDE DEF rank, numbers
<1>6. rank \in Surjection(ids, numbers)
  BY <1>3, <1>5, FS_Injection
<1>7. rank \in Bijection(ids, numbers)
  BY <1>3, <1>6, Fun_IsBij
<1> QED  BY <1>7 DEF rank, numbers

(* The rows can be put in order in one way; Sorted does, and drops none.   *)
LEMMA SortedProperties ==
  ASSUME NEW order \in SortOrders, NEW ids \in SUBSET Ids
  PROVE  LET s == Sorted(order, ids) IN
         /\ s \in [1..Cardinality(ids) -> ids]
         /\ Ordered(order, s)
         /\ \A r \in ids : \E i \in 1..Cardinality(ids) : s[i] = r
<1> DEFINE n == Cardinality(ids)
           rank == [r \in ids |-> Rank(order, ids, r)]
           byRank == [i \in 1..n |-> CHOOSE r \in ids : Rank(order, ids, r) = i - 1]
           s == Sorted(order, ids)
<1>1. n \in Nat /\ ids \subseteq Int /\ IsFiniteSet(ids)
  BY FiniteIds
<1>2. ASSUME NEW i \in 1..n PROVE byRank[i] \in ids /\ Rank(order, ids, byRank[i]) = i - 1
  <2> DEFINE numbers == 0..(n - 1)
  <2>1. i - 1 \in numbers
    BY <1>1
  <2>2. rank \in Bijection(ids, numbers)
    BY RankNumbers
  <2>3. \A k \in numbers : \E r \in ids : rank[r] = k
    <3> HIDE DEF rank, numbers
    <3> QED  BY <2>2, Fun_BijectionProperties
  <2>4. \E r \in ids : Rank(order, ids, r) = i - 1
    BY <2>1, <2>3
  <2> QED  BY <2>4
<1>3. byRank \in [1..n -> ids]
  BY <1>2
<1>4. Ordered(order, byRank)
  <2>1. ASSUME NEW i \in 1..n, NEW j \in 1..n, i < j PROVE Before(order, byRank[i], byRank[j])
    <3>1. Rank(order, ids, byRank[i]) < Rank(order, ids, byRank[j])
      BY <1>2, <2>1
    <3>2. byRank[i] \in Int /\ byRank[j] \in Int
      BY <1>1, <1>2
    <3> HIDE DEF byRank
    <3> QED  BY <3>1, <3>2, OrderFollowsRank
  <2> QED  BY <2>1, <1>3 DEF Ordered
<1>5. s \in [1..n -> ids] /\ Ordered(order, s)
  <2> HIDE DEF byRank
  <2>1. \E t \in [1..n -> ids] : Ordered(order, t)
    BY <1>3, <1>4
  <2> QED  BY <2>1 DEF Sorted
<1> HIDE DEF s
<1>6. ASSUME NEW i \in 1..n, NEW j \in 1..n, s[i] = s[j] PROVE i = j
  <2>1. s[i] \in Int /\ DOMAIN s = 1..n
    BY <1>1, <1>5
  <2>2. ~(i < j) /\ ~(j < i)
    BY <1>5, <1>6, <2>1, StrictOrder DEF Ordered
  <2> QED  BY <1>1, <2>2
<1>7. s \in Injection(1..n, ids)
  BY <1>5, <1>6, Fun_IsInj
<1>8. Cardinality(1..n) = n
  BY <1>1, 1 \in Int, FS_Interval
<1>9. s \in Surjection(1..n, ids)
  BY <1>1, <1>7, <1>8, FS_Injection
<1>10. \A r \in ids : \E i \in 1..n : s[i] = r
  <2> DEFINE places == 1..n
  <2>1. s \in Surjection(places, ids)
    BY <1>9
  <2> HIDE DEF places
  <2>2. \A r \in ids : \E i \in places : s[i] = r
    BY <2>1, Fun_SurjectionProperties
  <2> QED  BY <2>2 DEF places
<1> QED  BY <1>5, <1>10 DEF s

(* As a list of rows.                                                      *)
LEMMA SortedRows ==
  ASSUME NEW order \in SortOrders, NEW ids \in SUBSET Ids
  PROVE  /\ Sorted(order, ids) \in Seq(ids)
         /\ Len(Sorted(order, ids)) = Cardinality(ids)
         /\ Ordered(order, Sorted(order, ids))
         /\ \A r \in ids : \E i \in DOMAIN Sorted(order, ids) : Sorted(order, ids)[i] = r
<1> DEFINE s == Sorted(order, ids)
<1>1. Cardinality(ids) \in Nat
  BY FiniteIds
<1>2. /\ s \in [1..Cardinality(ids) -> ids]
      /\ Ordered(order, s)
      /\ \A r \in ids : \E i \in 1..Cardinality(ids) : s[i] = r
  BY SortedProperties
<1> HIDE DEF s
<1>3. s \in Seq(ids) /\ Len(s) = Cardinality(ids)
  BY <1>1, <1>2
<1>4. \A r \in ids : \E i \in DOMAIN s : s[i] = r
  BY <1>2
<1> QED  BY <1>2, <1>3, <1>4 DEF s

(* In a list of all rows in order, the place of a row tells its rank ...   *)
LEMMA PlaceIsRank ==
  ASSUME NEW order \in SortOrders, NEW ids \in SUBSET Ids,
         NEW s \in [1..Cardinality(ids) -> ids], Ordered(order, s),
         \A r \in ids : \E i \in 1..Cardinality(ids) : s[i] = r,
         NEW i \in 1..Cardinality(ids)
  PROVE  Rank(order, ids, s[i]) = i - 1
<1> DEFINE n == Cardinality(ids)
           front == {q \in ids : Before(order, q, s[i])}
           places == 1..(i - 1)
           f == [j \in places |-> s[j]]
<1>1. n \in Nat /\ ids \subseteq Int /\ i - 1 \in Nat
  BY FiniteIds
<1>2. ASSUME NEW j \in 1..n, NEW k \in 1..n PROVE Before(order, s[j], s[k]) <=> j < k
  <2>1. s[j] \in Int /\ s[k] \in Int
    BY <1>1
  <2>2. /\ j < k => Before(order, s[j], s[k])
        /\ k < j => Before(order, s[k], s[j])
    BY DEF Ordered
  <2>3. k < j => ~Before(order, s[j], s[k])
    BY <2>1, <2>2, StrictOrder
  <2>4. j = k => ~Before(order, s[j], s[k])
    BY <2>1, StrictOrder
  <2> QED  BY <1>1, <2>2, <2>3, <2>4
<1>3. \A j \in places : j \in 1..n /\ j < i
  BY <1>1
<1>4. f \in [places -> front]
  BY <1>2, <1>3
<1>5. ASSUME NEW j \in places, NEW k \in places, f[j] = f[k] PROVE j = k
  <2>1. j \in 1..n /\ k \in 1..n /\ s[j] = s[k]
    BY <1>3, <1>5
  <2>2. s[j] \in Int
    BY <1>1, <2>1
  <2>3. ~Before(order, s[j], s[k]) /\ ~Before(order, s[k], s[j])
    BY <2>1, <2>2, StrictOrder
  <2>4. ~(j < k) /\ ~(k < j)
    BY <1>2, <2>1, <2>3
  <2> QED  BY <2>1, <2>4
<1>6. ASSUME NEW q \in front PROVE \E j \in places : f[j] = q
  <2>1. PICK j \in 1..n : s[j] = q
    OBVIOUS
  <2>2. j < i
    BY <1>2, <2>1
  <2>3. j \in places
    BY <1>1, <2>2
  <2> QED  BY <2>1, <2>3
<1>7. f \in Bijection(places, front)
  BY <1>4, <1>5, <1>6, Fun_IsBij
<1> HIDE DEF f, front, places
<1>8. ExistsBijection(places, front)
  BY <1>7, Fun_ExistsBij
<1>9. Cardinality(front) = i - 1
  BY <1>1, <1>8, FS_CountingElements DEF places
<1> QED  BY <1>9 DEF Rank, front

(* ... so there is one such list.                                          *)
LEMMA SortedUnique ==
  ASSUME NEW order \in SortOrders, NEW ids \in SUBSET Ids,
         NEW s \in [1..Cardinality(ids) -> ids], Ordered(order, s),
         \A r \in ids : \E i \in 1..Cardinality(ids) : s[i] = r
  PROVE  s = Sorted(order, ids)
<1> DEFINE n == Cardinality(ids)
           t == Sorted(order, ids)
<1>1. /\ t \in [1..n -> ids] /\ Ordered(order, t)
      /\ \A r \in ids : \E i \in 1..n : t[i] = r
  BY SortedProperties
<1> HIDE DEF t
<1>2. ASSUME NEW i \in 1..n PROVE s[i] = t[i]
  <2>1. Rank(order, ids, s[i]) = Rank(order, ids, t[i])
    <3>1. Rank(order, ids, s[i]) = i - 1
      BY PlaceIsRank
    <3>2. Rank(order, ids, t[i]) = i - 1
      BY <1>1, PlaceIsRank
    <3> QED  BY <3>1, <3>2
  <2>2. s[i] \in ids /\ t[i] \in ids
    BY <1>1
  <2> QED  BY <2>1, <2>2, RankInjective
<1>3. s \in [1..n -> ids]
  OBVIOUS
<1> HIDE DEF n
<1>4. s = [i \in 1..n |-> s[i]] /\ t = [i \in 1..n |-> t[i]]
  BY <1>1, <1>3
<1>5. s = t
  BY <1>2, <1>4
<1> QED  BY <1>5 DEF t

-----------------------------------------------------------------------------
(* Pages. *)

(* A page begins where the one before it ends.                             *)
LEMMA Offsets ==
  ASSUME NEW page \in Int, NEW limit \in Int
  PROVE  /\ (page - 1) * limit \in Int /\ page * limit \in Int
         /\ page * limit = (page - 1) * limit + limit
         /\ ((page + 1) - 1) * limit = page * limit
         /\ page >= 1 /\ limit >= 1 => (page - 1) * limit >= 0
<1>1. (page - 1) * limit = page * limit - limit
  OBVIOUS
<1>2. page >= 1 /\ limit >= 1 => (page - 1) * limit >= 0
  OBVIOUS
<1> QED  BY <1>1, <1>2

(* No row is left behind the last page there is.                           *)
LEMMA LastPage ==
  ASSUME NEW count \in Nat, NEW page \in Int, NEW limit \in Int, limit >= 1,
         ~(page < (count + limit - 1) \div limit)
  PROVE  count <= page * limit
<1> DEFINE pages == (count + limit - 1) \div limit
<1>1. pages \in Int /\ count + limit - 1 < pages * limit + limit
  OBVIOUS
<1>2. pages * limit \in Int /\ page * limit \in Int
  BY <1>1
<1>3. pages <= page
  BY <1>1
<1> HIDE DEF pages
<1>4. pages * limit <= page * limit
  BY <1>1, <1>3
<1> QED  BY <1>1, <1>2, <1>4

LEMMA WindowSize ==
  ASSUME NEW order \in SortOrders, NEW ids \in SUBSET Ids,
         NEW limit \in Int, limit >= 1, NEW page \in Int, page >= 1
  PROVE  LET behind == Cardinality(ids) - (page - 1) * limit IN
         Cardinality(InWindow(order, ids, limit, page)) =
           IF behind < 0 THEN 0 ELSE IF behind < limit THEN behind ELSE limit
<1> DEFINE n == Cardinality(ids)
           from == (page - 1) * limit
           to == page * limit
           last == IF n < to THEN n - 1 ELSE to - 1
           window == InWindow(order, ids, limit, page)
           rank == [r \in ids |-> Rank(order, ids, r)]
           numbers == 0..(n - 1)
           place == [r \in window |-> rank[r]]
<1>1. n \in Nat /\ from \in Int /\ to = from + limit /\ from >= 0
  BY FiniteIds, Offsets
<1>2. rank \in Bijection(ids, numbers)
  BY RankNumbers
<1>3. /\ rank \in [ids -> numbers]
      /\ \A q, r \in ids : rank[q] = rank[r] => q = r
      /\ \A k \in numbers : \E r \in ids : rank[r] = k
  <2> HIDE DEF rank, numbers
  <2> QED  BY <1>2, Fun_BijectionProperties
<1>4. window = {r \in ids : from <= rank[r] /\ rank[r] < to}
  BY DEF InWindow
<1> HIDE DEF from, to, window, rank, n
<1>5. place \in [window -> from..last]
  BY <1>1, <1>3, <1>4
<1>6. \A q, r \in window : place[q] = place[r] => q = r
  BY <1>3, <1>4
<1>7. ASSUME NEW k \in from..last PROVE \E r \in window : place[r] = k
  <2>1. k \in numbers /\ from <= k /\ k < to
    BY <1>1
  <2> QED  BY <1>3, <1>4, <2>1
<1>8. place \in Bijection(window, from..last)
  BY <1>5, <1>6, <1>7, Fun_IsBij
<1>9. IsFiniteSet(window)
  BY <1>4, FiniteIds, FS_Subset
<1>10. Cardinality(window) = Cardinality(from..last)
  <2> DEFINE places == from..last
  <2>1. place \in Bijection(window, places)
    BY <1>8
  <2> HIDE DEF places, place
  <2>2. Cardinality(places) = Cardinality(window)
    BY <1>9, <2>1, FS_Bijection, Fun_ExistsBij
  <2> QED  BY <2>2 DEF places
<1>11. Cardinality(from..last) = IF from > last THEN 0 ELSE last - from + 1
  BY <1>1, last \in Int, FS_Interval
<1> QED  BY <1>1, <1>10, <1>11 DEF n, from, window

Upto(x, n) == IF x < n THEN x ELSE n

(* The page that is read is a slice of the whole list.                     *)
LEMMA PageIsSlice ==
  ASSUME NEW order \in SortOrders, NEW ids \in SUBSET Ids,
         NEW limit \in Int, limit >= 1, NEW page \in Int, page >= 1
  PROVE  LET all == Sorted(order, ids) IN
         Sorted(order, InWindow(order, ids, limit, page)) =
           SubSeq(all, (page - 1) * limit + 1, Upto(page * limit, Len(all)))
<1> DEFINE all == Sorted(order, ids)
           n == Cardinality(ids)
           from == (page - 1) * limit
           to == page * limit
           window == InWindow(order, ids, limit, page)
           size == Cardinality(window)
           slice == SubSeq(all, from + 1, Upto(to, n))
<1>1. n \in Nat /\ from \in Int /\ to \in Int /\ to = from + limit /\ from >= 0
  BY FiniteIds, Offsets
<1>2. /\ all \in Seq(ids) /\ Len(all) = n /\ Ordered(order, all)
      /\ \A r \in ids : \E i \in DOMAIN all : all[i] = r
  BY SortedRows
<1>3. \A i \in 1..n : Rank(order, ids, all[i]) = i - 1
  <2>1. /\ all \in [1..n -> ids] /\ Ordered(order, all)
        /\ \A r \in ids : \E i \in 1..n : all[i] = r
    BY SortedProperties
  <2> HIDE DEF all
  <2> QED  BY <2>1, PlaceIsRank
<1>4. window \in SUBSET Ids
      /\ \A r \in ids : r \in window <=> from <= Rank(order, ids, r) /\ Rank(order, ids, r) < to
  BY DEF InWindow
<1>5. size = IF Upto(to, n) < from THEN 0 ELSE Upto(to, n) - from
  <2>1. size = LET behind == n - from IN
               IF behind < 0 THEN 0 ELSE IF behind < limit THEN behind ELSE limit
    BY WindowSize
  <2> HIDE DEF size, from, to, n
  <2> QED  BY <1>1, <2>1 DEF Upto
<1> HIDE DEF all, n, from, to, window, size
<1>6. /\ slice \in Seq(ids) /\ Len(slice) = size
      /\ \A i \in 1..size : from + i \in 1..n /\ slice[i] = all[from + i]
  <2>1. Upto(to, n) \in Int /\ from + 1 \in Int /\ Upto(to, n) <= n
    BY <1>1 DEF Upto
  <2>2. \A i \in (from + 1)..Upto(to, n) : all[i] \in ids
    BY <1>1, <1>2, <2>1
  <2>3. /\ slice \in Seq(ids)
        /\ Len(slice) = IF from + 1 <= Upto(to, n) THEN Upto(to, n) - (from + 1) + 1 ELSE 0
        /\ \A i \in 1..(Upto(to, n) - (from + 1) + 1) : slice[i] = all[from + 1 + i - 1]
    BY <2>1, <2>2, SubSeqProperties
  <2> HIDE DEF slice
  <2>4. Len(slice) = size
    BY <1>1, <1>5, <2>1, <2>3
  <2>5. ASSUME NEW i \in 1..size PROVE from + i \in 1..n /\ slice[i] = all[from + i]
    <3>1. i \in 1..(Upto(to, n) - (from + 1) + 1) /\ from + i \in 1..n
      BY <1>1, <1>5, <2>1
    <3>2. from + 1 + i - 1 = from + i
      BY <1>1
    <3> QED  BY <2>3, <3>1, <3>2
  <2> QED  BY <2>3, <2>4, <2>5
<1> HIDE DEF slice
<1>7. size \in Nat
  BY <1>1, <1>5 DEF Upto
<1>8. slice \in [1..size -> window]
  <2>1. ASSUME NEW i \in 1..size PROVE slice[i] \in window
    <3>1. from + i \in 1..n /\ slice[i] = all[from + i] /\ slice[i] \in ids
      BY <1>6, <1>7
    <3>2. Rank(order, ids, all[from + i]) = (from + i) - 1
      BY <1>3, <3>1
    <3>3. from <= (from + i) - 1 /\ (from + i) - 1 < to
      BY <1>1, <1>5, <1>7 DEF Upto
    <3>4. Rank(order, ids, slice[i]) = (from + i) - 1
      BY <3>1, <3>2, Zenon
    <3>5. from <= Rank(order, ids, slice[i]) /\ Rank(order, ids, slice[i]) < to
      BY <3>3, <3>4, Zenon
    <3> QED  BY <1>4, <3>1, <3>5, Zenon
  <2>2. slice \in [1..size -> ids]
    BY <1>6, <1>7
  <2> QED  BY <2>1, <2>2
<1>9. Ordered(order, slice)
  <2>1. ASSUME NEW i \in 1..size, NEW j \in 1..size, i < j
        PROVE  Before(order, slice[i], slice[j])
    <3>1. /\ from + i \in DOMAIN all /\ slice[i] = all[from + i]
          /\ from + j \in DOMAIN all /\ slice[j] = all[from + j]
      BY <1>2, <1>6
    <3>2. from + i < from + j
      BY <1>1, <1>7, <2>1
    <3> QED  BY <1>2, <3>1, <3>2 DEF Ordered
  <2> QED  BY <1>8, <2>1 DEF Ordered
<1>10. ASSUME NEW r \in window PROVE \E i \in 1..size : slice[i] = r
  <2>1. r \in ids /\ from <= Rank(order, ids, r) /\ Rank(order, ids, r) < to
    BY <1>4 DEF window, InWindow
  <2>2. PICK j \in 1..n : all[j] = r
    BY <1>2, <2>1
  <2>3. Rank(order, ids, r) = j - 1
    BY <1>3, <2>2
  <2>4. j - from \in 1..size
    BY <1>1, <1>5, <1>7, <2>1, <2>3 DEF Upto
  <2>5. slice[j - from] = all[from + (j - from)] /\ from + (j - from) = j
    BY <1>1, <1>6, <2>4
  <2> QED  BY <2>2, <2>4, <2>5
<1>11. slice = Sorted(order, window)
  BY <1>4, <1>8, <1>9, <1>10, SortedUnique DEF size
<1> QED  BY <1>2, <1>11 DEF slice, all, n, from, to, window

-----------------------------------------------------------------------------
(* The invariant.  What is known of the pages so far is said by rank: the  *)
(* request for a page leaves out the Skipped rows in front of it.          *)
Skipped == (req.page - 1) * req.limit
RankOf(r) == Rank(req.sort_order, Matching, r)
Window == InWindow(req.sort_order, Matching, req.limit, req.page)

(* The queries of a page have answered from the table as it is, unless a   *)
(* write fell between them.                                                *)
Snapshot ==
  /\ pc = "called" => total = Nil /\ found = Nil
  /\ pc = "query" /\ ~torn =>
       /\ total # Nil => total = Cardinality(Matching)
       /\ found # Nil => found = Sorted(req.sort_order, Window)

(* Without an insertion, ranks only fall: what has been listed stays in    *)
(* front of the rows that are skipped, and the page that was read stays in *)
(* front of the next one.                                                  *)
NothingComesBack ==
  ~inserted =>
    /\ Ordered(req.sort_order, listed)
    /\ Walking => \A i \in DOMAIN listed : RankOf(listed[i]) < Skipped
    /\ pc = "query" /\ found # Nil =>
         /\ Ordered(req.sort_order, found)
         /\ \A j \in DOMAIN found : RankOf(found[j]) < req.page * req.limit
         /\ \A i \in DOMAIN listed, j \in DOMAIN found :
              Before(req.sort_order, listed[i], found[j])

(* Without a deletion, ranks only rise: what has not been listed stays     *)
(* behind the rows that are skipped.                                       *)
NothingSlipsBy ==
  first = 1 /\ ~removed /\ ~torn =>
    \A id \in always \cap Matching :
      /\ Walking => Listed(id) \/ Skipped <= RankOf(id)
      /\ pc = "finished" => Listed(id)

(* Without either, the pages so far are the beginning of the list, from    *)
(* the first page on; only a walk whose first page was accepted goes on.   *)
All == Sorted(req.sort_order, Matching)

PagesSoFar ==
  /\ req.page = first \/ (first >= 1 /\ req.page > first)
  /\ pc = "query" => first >= 1
  /\ ~inserted /\ ~removed =>
       /\ ~torn
       /\ Walking =>
            listed = SubSeq(All, (first - 1) * req.limit + 1, Upto(Skipped, Len(All)))
       /\ pc = "finished" => listed = SubSeq(All, (first - 1) * req.limit + 1, Len(All))

Inv == TypeOK /\ Snapshot /\ NothingComesBack /\ NothingSlipsBy /\ PagesSoFar

(* What every step may rely on. *)
LEMMA Known ==
  ASSUME TypeOK
  PROVE  /\ Matching \in SUBSET Ids /\ req.sort_order \in SortOrders
         /\ req \in ListProductsRequest /\ req # Nil /\ req.op = "ListProducts"
         /\ req.page \in Int /\ req.limit \in Int
         /\ Skipped \in Int
         /\ \A r : RankOf(r) \in Nat
<1>1. /\ Matching \in SUBSET Ids /\ req.sort_order \in SortOrders
      /\ req \in ListProductsRequest /\ req # Nil /\ req.op = "ListProducts"
      /\ req.page \in Int /\ req.limit \in Int
  BY DEF TypeOK, Matching, ListProductsRequest
<1>2. Skipped \in Int
  BY <1>1 DEF Skipped
<1>3. \A r : RankOf(r) \in Nat
  BY <1>1, RankType DEF RankOf
<1> QED  BY <1>1, <1>2, <1>3

LEMMA WholeList ==
  ASSUME TypeOK
  PROVE  /\ All \in Seq(Ids) /\ Len(All) = Cardinality(Matching) /\ Len(All) \in Nat
         /\ \A x \in Int : Upto(x, Len(All)) \in Int /\ Upto(x, Len(All)) <= x
<1>1. All \in Seq(Matching) /\ Len(All) = Cardinality(Matching)
  BY Known, SortedRows DEF All
<1>2. All \in Seq(Ids) /\ Len(All) \in Nat
  BY <1>1, Known, FiniteIds
<1> QED  BY <1>1, <1>2 DEF Upto

LEMMA InitInv == Init => Inv
<1> SUFFICES ASSUME Init PROVE Inv
  OBVIOUS
<1>1. TypeOK
  <2>1. nextId \in 1..MaxId /\ rows \subseteq Ids /\ \A id \in rows : id < nextId
    BY DEF Init, Ids
  <2>2. req \in ListProductsRequest
    <3>1. PICK limit \in Limits, f \in Filters, order \in SortOrders :
            req = [op |-> "ListProducts", page |-> first, limit |-> limit,
                   sort_order |-> order, filter |-> f]
      BY DEF Init
    <3>2. limit \in Int /\ first \in Int
      BY DEF Init
    <3> QED  BY <3>1, <3>2 DEF ListProductsRequest
  <2>3. withSku \subseteq Ids
    BY DEF Init
  <2> QED  BY <2>1, <2>2, <2>3 DEF Init, TypeOK
<1>2. Snapshot /\ NothingComesBack
  BY DEF Init, Snapshot, NothingComesBack, Ordered
<1>3. NothingSlipsBy
  <2>1. ASSUME NEW id \in Matching, first = 1 PROVE Skipped <= RankOf(id)
    <3>1. Matching \in SUBSET Ids /\ req.sort_order \in SortOrders
      BY <1>1 DEF TypeOK, Matching, ListProductsRequest
    <3>2. RankOf(id) \in Nat
      BY <3>1, RankType DEF RankOf
    <3>3. Skipped = 0
      BY <1>1, <2>1 DEF Init, Skipped, TypeOK, ListProductsRequest
    <3> QED  BY <3>2, <3>3
  <2> QED  BY <2>1 DEF Init, NothingSlipsBy
<1>4. PagesSoFar
  <2>1. req.page = first /\ pc = "called" /\ listed = <<>> /\ ~torn
    BY DEF Init
  <2>2. Skipped = (first - 1) * req.limit /\ Skipped \in Int
    BY <1>1, <2>1, Known DEF Skipped
  <2>3. SubSeq(All, Skipped + 1, Upto(Skipped, Len(All))) = <<>>
    <3> DEFINE from == Skipped + 1
               to == Upto(Skipped, Len(All))
    <3>1. from \in Int /\ to \in Int /\ to < from
      BY <1>1, <2>2, WholeList
    <3> HIDE DEF from, to
    <3>2. SubSeq(All, from, to) = <<>>
      BY <3>1, SubSeqEmpty
    <3> QED  BY <3>2 DEF from, to
  <2> QED  BY <2>1, <2>2, <2>3 DEF PagesSoFar
<1> QED  BY <1>1, <1>2, <1>3, <1>4 DEF Inv

LEMMA InsertInv == ASSUME Inv, Insert PROVE Inv'
<1> USE DEF Inv, Insert, walk
<1>1. TypeOK'
  BY DEF TypeOK, Ids, Walking
<1>2. Snapshot'
  BY DEF Snapshot, BetweenQueries, Walking
<1>3. NothingComesBack'
  BY DEF NothingComesBack
<1>4. NothingSlipsBy'
  <2> SUFFICES ASSUME first = 1, ~removed, ~torn, NEW id \in always, id \in Matching'
               PROVE  Listed(id) \/ Skipped <= RankOf(id)'
    BY DEF NothingSlipsBy, Walking, Listed, Skipped
  <2>1. id \in Matching
    BY DEF TypeOK, Matching
  <2>2. Listed(id) \/ Skipped <= RankOf(id)
    BY <2>1 DEF NothingSlipsBy
  <2>3. Matching \subseteq Matching'
    BY DEF Matching
  <2>4. Matching' \in SUBSET Ids
    BY <1>1, Known DEF TypeOK, Matching, ListProductsRequest
  <2>5. RankOf(id) <= RankOf(id)'
    BY <2>3, <2>4, Known, RankGrows DEF RankOf
  <2>6. RankOf(id)' \in Nat
    BY <2>4, Known, RankType DEF RankOf
  <2> QED  BY <2>2, <2>5, <2>6, Known
<1>5. PagesSoFar'
  BY DEF PagesSoFar
<1> QED  BY <1>1, <1>2, <1>3, <1>4, <1>5

LEMMA RemoveInv == ASSUME Inv, Remove PROVE Inv'
<1> USE DEF Inv, Remove, walk
<1>1. TypeOK'
  BY DEF TypeOK, Ids, Walking
<1>2. Snapshot'
  BY DEF Snapshot, BetweenQueries, Walking
<1>3. NothingComesBack'
  <2>1. Matching' \in SUBSET Matching
    BY DEF Matching
  <2>2. \A r : RankOf(r)' <= RankOf(r) /\ RankOf(r)' \in Nat
    BY <2>1, Known, RankGrows, RankType DEF RankOf
  <2>3. UNCHANGED <<Skipped, Walking>>
    BY DEF Skipped, Walking
  <2>4. req.page * req.limit \in Int
    BY Known
  <2>5. ASSUME ~inserted PROVE \A i \in DOMAIN listed : RankOf(listed[i])' < Skipped
    BY <2>2, <2>5, Known DEF NothingComesBack, TypeOK
  <2>6. ASSUME ~inserted, pc = "query", found # Nil
        PROVE  \A j \in DOMAIN found : RankOf(found[j])' < req.page * req.limit
    BY <2>2, <2>4, <2>6, Known DEF NothingComesBack, TypeOK
  <2> QED  BY <2>3, <2>5, <2>6 DEF NothingComesBack, RankOf
<1>4. NothingSlipsBy'
  BY DEF NothingSlipsBy
<1>5. PagesSoFar'
  BY DEF PagesSoFar
<1> QED  BY <1>1, <1>2, <1>3, <1>4, <1>5

(* The steps that leave the table and the request as they are.             *)
LEMMA SameRows ==
  ASSUME UNCHANGED <<req, rows, withSku>>
  PROVE  /\ UNCHANGED <<Matching, Skipped, Window, All>>
         /\ \A r : RankOf(r)' = RankOf(r)
  BY DEF Matching, Skipped, Window, All, RankOf

LEMMA ValidateInv == ASSUME Inv, Refuse \/ Accept PROVE Inv'
<1> USE DEF Inv, Refuse, Accept, products, history
<1>1. Accept => req.page >= 1 /\ req.limit \in 1..100
  BY Known, ValidListing
<1>2. TypeOK'
  BY <1>1 DEF TypeOK
<1>3. Snapshot'
  BY DEF Snapshot
<1>4. NothingComesBack'
  BY SameRows DEF NothingComesBack, Snapshot, Walking
<1>5. NothingSlipsBy'
  BY SameRows DEF NothingSlipsBy, Walking, Listed
<1>6. PagesSoFar'
  BY <1>1, SameRows DEF PagesSoFar, Walking
<1> QED  BY <1>2, <1>3, <1>4, <1>5, <1>6

LEMMA CountInv == ASSUME Inv, Count PROVE Inv'
<1> USE DEF Inv, Count, products, history
<1>1. TypeOK'
  BY Known, FiniteIds DEF TypeOK
<1>2. Snapshot'
  BY SameRows DEF Snapshot
<1>3. NothingComesBack'
  BY SameRows DEF NothingComesBack, Walking
<1>4. NothingSlipsBy'
  BY SameRows DEF NothingSlipsBy, Walking, Listed
<1>5. PagesSoFar'
  BY SameRows DEF PagesSoFar, Walking
<1> QED  BY <1>1, <1>2, <1>3, <1>4, <1>5

(* What is on the page that is read: in order, and in its window.          *)
LEMMA PageRead ==
  ASSUME TypeOK, pc = "query", NEW answer, answer = Sorted(req.sort_order, Window)
  PROVE  /\ answer \in Seq(Ids) /\ Len(answer) = Cardinality(Window)
         /\ Ordered(req.sort_order, answer)
         /\ \A j \in DOMAIN answer :
              /\ answer[j] \in Matching
              /\ Skipped <= RankOf(answer[j]) /\ RankOf(answer[j]) < req.page * req.limit
         /\ \A r \in Matching :
              Skipped <= RankOf(r) /\ RankOf(r) < req.page * req.limit =>
                \E j \in DOMAIN answer : answer[j] = r
<1>1. Window \in SUBSET Matching /\ Window \in SUBSET Ids
  BY Known DEF Window, InWindow
<1>2. /\ answer \in Seq(Window) /\ Len(answer) = Cardinality(Window)
      /\ Ordered(req.sort_order, answer)
      /\ \A r \in Window : \E j \in DOMAIN answer : answer[j] = r
  <2>1. req.sort_order \in SortOrders
    BY Known
  <2> QED  BY <1>1, <2>1, SortedRows
<1>3. answer \in Seq(Ids) /\ \A j \in DOMAIN answer : answer[j] \in Window
  BY <1>1, <1>2
<1>4. \A r \in Matching :
        r \in Window <=> Skipped <= RankOf(r) /\ RankOf(r) < req.page * req.limit
  BY DEF Window, InWindow, Skipped, RankOf
<1> QED  BY <1>1, <1>2, <1>3, <1>4

LEMMA FindInv == ASSUME Inv, Find PROVE Inv'
<1> USE DEF Inv, Find, Page, products, history
<1> DEFINE answer == Sorted(req.sort_order, Window)
<1>1. found' = answer
  BY DEF Window
<1>2. /\ answer \in Seq(Ids)
      /\ Ordered(req.sort_order, answer)
      /\ \A j \in DOMAIN answer :
           /\ answer[j] \in Matching
           /\ Skipped <= RankOf(answer[j]) /\ RankOf(answer[j]) < req.page * req.limit
  BY PageRead
<1> HIDE DEF answer
<1>3. TypeOK'
  BY <1>1, <1>2 DEF TypeOK
<1>4. Snapshot'
  BY <1>1, SameRows DEF Snapshot, answer
<1>5. NothingComesBack'
  <2>1. ASSUME ~inserted, NEW i \in DOMAIN listed, NEW j \in DOMAIN answer
        PROVE  Before(req.sort_order, listed[i], answer[j])
    <3>1. RankOf(listed[i]) < Skipped
      BY <2>1 DEF NothingComesBack, Walking
    <3>2. RankOf(listed[i]) < RankOf(answer[j])
      BY <1>2, <3>1, Known
    <3>3. listed[i] \in Int /\ answer[j] \in Int
      BY <1>2 DEF TypeOK, Ids
    <3> QED  BY <3>2, <3>3, Known, OrderFollowsRank DEF RankOf
  <2> QED  BY <1>1, <1>2, <2>1, SameRows DEF NothingComesBack, Walking
<1>6. NothingSlipsBy'
  BY SameRows DEF NothingSlipsBy, Walking, Listed
<1>7. PagesSoFar'
  BY SameRows DEF PagesSoFar, Walking
<1> QED  BY <1>3, <1>4, <1>5, <1>6, <1>7

LEMMA FailInv == ASSUME Inv, Fail PROVE Inv'
<1> USE DEF Inv, Fail, products
<1>1. TypeOK' /\ Snapshot'
  BY DEF TypeOK, Snapshot
<1>2. NothingComesBack' /\ NothingSlipsBy' /\ PagesSoFar'
  BY SameRows DEF NothingComesBack, NothingSlipsBy, PagesSoFar, Walking
<1> QED  BY <1>1, <1>2

(* The page is put behind those before it.                                 *)
LEMMA Appended ==
  ASSUME TypeOK, found # Nil, Answer
  PROVE  /\ listed \in Seq(Ids) /\ found \in Seq(Ids) /\ listed' \in Seq(Ids)
         /\ \A k \in DOMAIN listed' :
              \/ k \in DOMAIN listed /\ listed'[k] = listed[k]
              \/ /\ k - Len(listed) \in DOMAIN found /\ k > Len(listed)
                 /\ listed'[k] = found[k - Len(listed)]
         /\ \A id : (\E i \in DOMAIN listed : listed[i] = id)
                   \/ (\E j \in DOMAIN found : found[j] = id)
                 => \E k \in DOMAIN listed' : listed'[k] = id
<1>1. listed \in Seq(Ids) /\ found \in Seq(Ids) /\ listed' = listed \o found
  BY DEF TypeOK, Answer, Response
<1>2. /\ listed' \in Seq(Ids) /\ Len(listed') = Len(listed) + Len(found)
      /\ \A k \in 1..Len(listed') :
           listed'[k] = IF k <= Len(listed) THEN listed[k] ELSE found[k - Len(listed)]
  BY <1>1, ConcatProperties
<1>3. /\ DOMAIN listed = 1..Len(listed) /\ DOMAIN found = 1..Len(found)
      /\ DOMAIN listed' = 1..Len(listed') /\ Len(listed) \in Nat /\ Len(found) \in Nat
  BY <1>1, <1>2
<1>4. ASSUME NEW i \in DOMAIN listed PROVE i \in DOMAIN listed' /\ listed'[i] = listed[i]
  BY <1>2, <1>3
<1>5. ASSUME NEW j \in DOMAIN found
      PROVE  Len(listed) + j \in DOMAIN listed' /\ listed'[Len(listed) + j] = found[j]
  BY <1>2, <1>3
<1>6. \A k \in DOMAIN listed' :
        \/ k \in DOMAIN listed /\ listed'[k] = listed[k]
        \/ /\ k - Len(listed) \in DOMAIN found /\ k > Len(listed)
           /\ listed'[k] = found[k - Len(listed)]
  BY <1>2, <1>3
<1> QED  BY <1>1, <1>2, <1>4, <1>5, <1>6

LEMMA AnswerInv == ASSUME Inv, Answer PROVE Inv'
<1> DEFINE behind == req.page * req.limit
<1>1. /\ pc = "query" /\ total # Nil /\ found # Nil /\ total' = Nil /\ found' = Nil
      /\ UNCHANGED <<first, rows, nextId, withSku, always, inserted, removed, torn>>
      /\ \/ pc' = "called" /\ req' = [req EXCEPT !.page = @ + 1]
         \/ /\ pc' = "finished" /\ req' = req
            /\ ~(req.page < (total + req.limit - 1) \div req.limit)
  BY DEF Answer, Response, Pagination, products, history
<1>2. /\ req.page >= 1 /\ req.limit \in 1..100 /\ total \in Nat
      /\ Skipped <= behind /\ behind \in Int
  <2>1. req.page >= 1 /\ req.limit \in 1..100 /\ total \in Nat
    BY <1>1 DEF Inv, TypeOK
  <2>2. req.page \in Int /\ req.limit \in Int
    BY Known DEF Inv
  <2>3. behind = Skipped + req.limit /\ behind \in Int /\ Skipped \in Int
    BY <2>2, Offsets DEF Skipped
  <2> QED  BY <2>1, <2>3
<1>3. /\ req' \in ListProductsRequest /\ req'.sort_order = req.sort_order
      /\ req'.filter = req.filter
      /\ pc' = "called" => Skipped' = behind
  BY <1>1, Known, Offsets DEF Inv, ListProductsRequest, Skipped
<1>4. Matching' = Matching /\ \A r : RankOf(r)' = RankOf(r)
  BY <1>1, <1>3 DEF Matching, RankOf
<1> HIDE DEF behind
<1>5. TypeOK'
  BY <1>1, <1>3, Appended DEF Inv, TypeOK
<1>6. Snapshot'
  BY <1>1 DEF Snapshot
<1>7. NothingComesBack'
  <2> SUFFICES ASSUME ~inserted
               PROVE  /\ Ordered(req.sort_order, listed')
                      /\ pc' = "called" =>
                           \A k \in DOMAIN listed' : RankOf(listed'[k]) < behind
    BY <1>1, <1>3, <1>4 DEF NothingComesBack, Walking
  <2>1. /\ Ordered(req.sort_order, listed) /\ Ordered(req.sort_order, found)
        /\ \A i \in DOMAIN listed : RankOf(listed[i]) < Skipped
        /\ \A j \in DOMAIN found : RankOf(found[j]) < behind
        /\ \A i \in DOMAIN listed, j \in DOMAIN found :
             Before(req.sort_order, listed[i], found[j])
    BY <1>1 DEF Inv, NothingComesBack, Walking, behind
  <2>2. ASSUME NEW k \in DOMAIN listed' PROVE RankOf(listed'[k]) < behind
    <3>1. CASE k \in DOMAIN listed /\ listed'[k] = listed[k]
      BY <1>2, <2>1, <3>1, Known DEF Inv
    <3>2. CASE /\ k - Len(listed) \in DOMAIN found
               /\ listed'[k] = found[k - Len(listed)]
      BY <2>1, <3>2
    <3> QED  BY <1>1, <3>1, <3>2, Appended DEF Inv
  <2>3. ASSUME NEW k \in DOMAIN listed', NEW l \in DOMAIN listed', k < l
        PROVE  Before(req.sort_order, listed'[k], listed'[l])
    <3>1. /\ listed \in Seq(Ids) /\ listed' \in Seq(Ids)
          /\ \A x \in {k, l} :
               \/ x \in DOMAIN listed /\ listed'[x] = listed[x]
               \/ /\ x - Len(listed) \in DOMAIN found /\ x > Len(listed)
                  /\ listed'[x] = found[x - Len(listed)]
      BY <1>1, Appended DEF Inv
    <3>2. CASE l \in DOMAIN listed /\ listed'[l] = listed[l]
      <4>1. k \in DOMAIN listed /\ listed'[k] = listed[k]
        BY <2>3, <3>1, <3>2
      <4> QED  BY <2>1, <2>3, <3>2, <4>1 DEF Ordered
    <3>3. CASE /\ l - Len(listed) \in DOMAIN found /\ l > Len(listed)
               /\ listed'[l] = found[l - Len(listed)]
      <4>1. CASE k \in DOMAIN listed /\ listed'[k] = listed[k]
        BY <2>1, <3>3, <4>1
      <4>2. CASE /\ k - Len(listed) \in DOMAIN found
                 /\ listed'[k] = found[k - Len(listed)]
        <5>1. k - Len(listed) < l - Len(listed)
          BY <2>3, <3>1
        <5> QED  BY <2>1, <3>3, <4>2, <5>1 DEF Ordered
      <4> QED  BY <3>1, <4>1, <4>2
    <3> QED  BY <3>1, <3>2, <3>3
  <2> QED  BY <2>2, <2>3 DEF Ordered
<1>8. NothingSlipsBy'
  <2> SUFFICES ASSUME first = 1, ~removed, ~torn, NEW id \in always, id \in Matching
               PROVE  /\ pc' = "called" => Listed(id)' \/ behind <= RankOf(id)
                      /\ pc' = "finished" => Listed(id)'
    BY <1>1, <1>3, <1>4 DEF NothingSlipsBy, Walking
  <2>1. Listed(id) \/ Skipped <= RankOf(id)
    BY <1>1 DEF Inv, NothingSlipsBy, Walking
  <2>2. ASSUME Skipped <= RankOf(id), RankOf(id) < behind PROVE Listed(id)'
    <3>1. found = Sorted(req.sort_order, Window)
      BY <1>1 DEF Inv, Snapshot
    <3>2. \E j \in DOMAIN found : found[j] = id
      BY <1>1, <2>2, <3>1, PageRead DEF Inv, behind
    <3> QED  BY <1>1, <3>2, Appended DEF Inv, Listed
  <2>3. Listed(id) => Listed(id)'
    BY <1>1, Appended DEF Inv, Listed
  <2>4. RankOf(id) \in Nat
    BY Known DEF Inv
  <2>5. pc' = "finished" => RankOf(id) < behind
    <3>1. total = Cardinality(Matching)
      BY <1>1 DEF Inv, Snapshot
    <3>2. RankOf(id) < total
      BY <3>1, Known, RankBounded DEF Inv, RankOf
    <3>3. pc' = "finished" => total <= behind
      BY <1>1, <1>2, Known, LastPage DEF Inv, behind
    <3> QED  BY <1>2, <2>4, <3>2, <3>3
  <2> QED  BY <1>2, <2>1, <2>2, <2>3, <2>4, <2>5
<1>9. PagesSoFar'
  <2> DEFINE start == (first - 1) * req.limit
             n == Len(All)
  <2>1. /\ first >= 1 /\ req.page >= first /\ first \in Int /\ req.page \in Int
        /\ req.limit \in Int
    BY <1>1, Known DEF Inv, PagesSoFar, TypeOK
  <2>2. /\ start \in Int /\ 0 <= start /\ start <= Skipped /\ Skipped \in Int
    <3>1. start \in Int /\ 0 <= start
      BY <1>2, <2>1
    <3>2. start <= Skipped
      BY <1>2, <2>1 DEF Skipped
    <3> QED  BY <2>1, <3>1, <3>2, Known DEF Inv
  <2>3. (first - 1) * req'.limit = start /\ All' = All
    BY <1>1, <1>3, <1>4, Known DEF All, Inv, ListProductsRequest
  <2>4. n \in Nat /\ All \in Seq(Ids) /\ n = Cardinality(Matching)
    BY WholeList DEF Inv
  <2>5. ASSUME ~inserted, ~removed
        PROVE  /\ ~torn
               /\ listed' = SubSeq(All, start + 1, Upto(behind, n))
               /\ pc' = "finished" => Upto(behind, n) = n
    <3>1. ~torn /\ listed = SubSeq(All, start + 1, Upto(Skipped, n))
      BY <1>1, <2>5 DEF Inv, PagesSoFar, Walking
    <3>2. found = SubSeq(All, Skipped + 1, Upto(behind, n))
      <4>1. found = Sorted(req.sort_order, Window)
        BY <1>1, <3>1 DEF Inv, Snapshot
      <4>2. req.limit >= 1 /\ req.page >= 1
        BY <1>2
      <4>3. Sorted(req.sort_order, InWindow(req.sort_order, Matching, req.limit, req.page))
              = LET all == Sorted(req.sort_order, Matching) IN
                SubSeq(all, (req.page - 1) * req.limit + 1,
                       Upto(req.page * req.limit, Len(all)))
        BY <4>2, Known, PageIsSlice DEF Inv
      <4> QED  BY <4>1, <4>3 DEF Window, All, Skipped, behind
    <3>3. listed' = listed \o found
      BY DEF Answer, Response
    <3>4. listed' = SubSeq(All, start + 1, Upto(behind, n))
      <4>1. CASE Skipped <= n
        <5>1. Upto(Skipped, n) = Skipped
          BY <2>2, <2>4, <4>1 DEF Upto
        <5>2. /\ start + 1 \in 1..(n + 1) /\ Skipped \in ((start + 1) - 1)..n
              /\ Upto(behind, n) \in Skipped..n
          BY <1>2, <2>2, <2>4, <4>1 DEF Upto
        <5> HIDE DEF start
        <5> QED  BY <2>4, <3>1, <3>2, <3>3, <5>1, <5>2, ConcatAdjacentSubSeq
      <4>2. CASE Skipped > n
        <5>1. Upto(Skipped, n) = n /\ Upto(behind, n) = n
          BY <1>2, <2>2, <2>4, <4>2 DEF Upto
        <5>2. found = <<>>
          BY <2>2, <2>4, <3>2, <4>2, <5>1, SubSeqEmpty
        <5>3. listed \in Seq(Ids)
          BY DEF Inv, TypeOK
        <5> QED  BY <3>1, <3>3, <5>1, <5>2, <5>3
      <4> QED  BY <2>2, <2>4, <4>1, <4>2
    <3>5. pc' = "finished" => Upto(behind, n) = n
      <4>1. total = n
        BY <1>1, <2>4, <3>1 DEF Inv, Snapshot
      <4>2. pc' = "finished" => total <= behind
        BY <1>1, <1>2, Known, LastPage DEF Inv, behind
      <4> QED  BY <1>2, <2>4, <4>1, <4>2 DEF Upto
    <3> QED  BY <3>1, <3>4, <3>5
  <2>6. req'.page = first \/ (first >= 1 /\ req'.page > first)
    <3>1. req'.page = req.page \/ req'.page = req.page + 1
      BY <1>1, Known DEF Inv, ListProductsRequest
    <3> QED  BY <2>1, <3>1
  <2> HIDE DEF start, n
  <2> QED  BY <1>1, <1>3, <2>3, <2>5, <2>6 DEF PagesSoFar, Walking, n, start
<1> QED  BY <1>5, <1>6, <1>7, <1>8, <1>9 DEF Inv

LEMMA StepInv == ASSUME Inv, [Next]_vars PROVE Inv'
<1>1. CASE UNCHANGED vars
  <2>1. UNCHANGED <<products, walk, history>>
    BY <1>1 DEF vars
  <2>2. TypeOK' /\ Snapshot'
    BY <2>1, SameRows DEF products, walk, history, Inv, TypeOK, Snapshot
  <2>3. NothingComesBack' /\ NothingSlipsBy'
    BY <2>1, SameRows
    DEF products, walk, history, Inv, NothingComesBack, NothingSlipsBy, Walking, Listed
  <2>4. PagesSoFar'
    BY <2>1, SameRows DEF products, walk, history, Inv, PagesSoFar, Walking
  <2> QED  BY <2>2, <2>3, <2>4 DEF Inv
<1> QED
  BY <1>1, InsertInv, RemoveInv, ValidateInv, CountInv, FindInv, FailInv, AnswerInv DEF Next

LEMMA SpecInv == Spec => []Inv
  BY InitInv, StepInv, PTL DEF Spec

-----------------------------------------------------------------------------
(* Every variable keeps its type, and no query is made for a page or a     *)
(* limit out of range, whatever the client asks for.                       *)
THEOREM ListingTypes == Spec => []TypeOK
<1>1. Inv => TypeOK
  BY DEF Inv
<1> QED  BY <1>1, SpecInv, PTL

(* A walk hides no product that was there all the time, however long the   *)
(* table and the walk, and whatever is inserted between its pages.         *)
THEOREM WalkComplete == Spec => []NothingHidden
<1>1. Inv => NothingHidden
  <2> SUFFICES ASSUME Inv, pc = "finished", first = 1, ~removed, ~torn,
                      NEW id \in always, req.filter = "sku" => id \in withSku
               PROVE  Listed(id)
    BY DEF NothingHidden
  <2>1. id \in Matching
    BY DEF Inv, TypeOK, Matching
  <2> QED  BY <2>1 DEF Inv, NothingSlipsBy
<1> QED  BY <1>1, SpecInv, PTL

(* Its pages put together are in order and repeat no product, whatever is  *)
(* deleted between them or between the queries of one.                     *)
THEOREM WalkOrdered == Spec => []NothingRepeated
<1>1. Inv => NothingRepeated
  BY DEF Inv, NothingComesBack, NothingRepeated
<1> QED  BY <1>1, SpecInv, PTL

(* A walk nothing disturbs lists what the query returns without a limit,   *)
(* whatever page it begins with and however the pages are cut.             *)
THEOREM WalkIsTheList == Spec => []PagesMakeTheList
<1>1. Inv => PagesMakeTheList
  BY DEF Inv, PagesSoFar, PagesMakeTheList, All
<1> QED  BY <1>1, SpecInv, PTL

(* The number of products on a page is the one its totals announce.        *)
THEOREM PagesAgree == Spec => []PageAgreesWithTotals
<1>1. Inv => PageAgreesWithTotals
  <2> SUFFICES ASSUME Inv, pc = "query", total # Nil, found # Nil, ~torn
               PROVE  LET behind == total - (req.page - 1) * req.limit IN
                      Len(found) = IF behind < 0 THEN 0
                                   ELSE IF behind < req.limit THEN behind ELSE req.limit
    BY DEF PageAgreesWithTotals
  <2>1. total = Cardinality(Matching) /\ found = Sorted(req.sort_order, Window)
    BY DEF Inv, Snapshot
  <2>2. Len(found) = Cardinality(Window)
    BY <2>1, PageRead DEF Inv
  <2>3. req.page >= 1 /\ req.limit \in 1..100
    BY DEF Inv, TypeOK
  <2>4. req.limit >= 1
    BY <2>3
  <2> QED  BY <2>1, <2>2, <2>3, <2>4, Known, WindowSize DEF Inv, Window
<1> QED  BY <1>1, SpecInv, PTL
=============================================================================
