---------------------------- MODULE ExportProofs ----------------------------
(***************************************************************************)
(* Proofs about the export, for every number of products, every page size  *)
(* and every order of the ids.                                             *)
(***************************************************************************)
EXTENDS ProductExport, TLAPS

USE ExportAssumption, OrderAssumption

(* What a page is: rows the cursor has not passed, in order, none of them  *)
(* left out, and none of them left over behind a page that is not full.    *)
LEMMA PageFacts ==
  ASSUME TypeOK, NEW page \in Pages
  PROVE  /\ page \in Seq(Ids)
         /\ \A i \in 1..Len(page) : page[i] \in Unread
         /\ \A i, j \in 1..Len(page) : i < j => Before(page[i], page[j])
         /\ \A i \in 1..Len(page), r \in Unread :
              Before(r, page[i]) => \E j \in 1..Len(page) : r = page[j]
         /\ \/ Len(page) = PageSize
            \/ \A r \in Unread : \E i \in 1..Len(page) : r = page[i]
<1>1. PICK n \in 0..PageSize : page \in [1..n -> Unread]
  BY DEF Pages
<1>2. Unread \subseteq Ids /\ n \in Nat
  BY DEF Unread, Rest, TypeOK
<1>3. page \in Seq(Ids) /\ Len(page) = n /\ DOMAIN page = 1..Len(page)
  BY <1>1, <1>2
<1> QED BY <1>1, <1>3 DEF Pages, IsPage

-----------------------------------------------------------------------------
(* Type correctness. *)

LEMMA FailType ==
  ASSUME TypeOK, Fail, pc \in {"called", "fetch"}
  PROVE  TypeOK'
  BY DEF TypeOK, Fail, Running, cursors, result, products, history

(* A delivered file is a first part of what was written. *)
LEMMA DeliverType ==
  ASSUME TypeOK, UNCHANGED <<cursors, products, history, expired>>,
         sheet' \in Seq(Ids), Deliver(sheet')
  PROVE  TypeOK'
<1>1. \E n \in 0..Len(sheet') : /\ file' = SubSeq(sheet', 1, n)
                                /\ flushed' => n = Len(sheet')
  BY DEF Deliver
<1>2. pc' = "file" /\ flushed' \in BOOLEAN
  BY DEF Deliver
<1> QED BY <1>1, <1>2 DEF TypeOK, Running, cursors, products, history

LEMMA WriteType ==
  ASSUME TypeOK, pc = "fetch", NEW page \in Pages, WritePage(page),
         UNCHANGED <<products, history, expired>>
  PROVE  TypeOK'
<1>1. page \in Seq(Ids) /\ Len(page) \in Nat \ {0}
  BY PageFacts DEF WritePage
<1>2. /\ sheet' \in Seq(Ids) /\ sheet' # <<>>
      /\ Len(sheet') = Len(sheet) + Len(page)
      /\ sheet'[Len(sheet')] = page[Len(page)]
  BY <1>1 DEF WritePage, TypeOK
<1>3. CASE pc' = "fetch" /\ Follow(page) /\ UNCHANGED result
  <2>1. nextLink' = page[Len(page)] /\ nextLink' \in Ids
    BY <1>1, <1>3 DEF Follow, LinkAfter
  <2>2. prevLink' \in Ids \cup {NoLink}
    BY <1>1, <1>3 DEF Follow, LinksBefore
  <2>3. file' = <<>> /\ flushed' = TRUE
    BY <1>3 DEF TypeOK, result
  <2>4. nextLink' # NoLink
    BY <2>1
  <2> QED BY <1>2, <1>3, <2>1, <2>2, <2>3, <2>4
          DEF TypeOK, Running, products, history
<1>4. CASE Deliver(sheet') /\ UNCHANGED cursors
  BY <1>2, <1>4, DeliverType
<1> QED BY <1>3, <1>4 DEF WritePage

LEMMA CloseType ==
  ASSUME TypeOK, NEW page \in Pages, Close(page),
         UNCHANGED <<products, history, expired>>
  PROVE  TypeOK'
<1>1. sheet' = sheet /\ sheet \in Seq(Ids) /\ Deliver(sheet) /\ UNCHANGED cursors
  BY DEF Close, TypeOK
<1>2. Deliver(sheet')
  BY <1>1 DEF Deliver
<1> QED BY <1>1, <1>2, DeliverType

LEMMA FetchType ==
  ASSUME TypeOK, Fetch
  PROVE  TypeOK'
<1>1. CASE Fail
  BY <1>1, FailType DEF Fetch
<1>2. CASE \E page \in Pages : WritePage(page) /\ UNCHANGED <<products, history, expired>>
  BY <1>2, WriteType DEF Fetch
<1>3. CASE \E page \in Pages : Close(page) /\ UNCHANGED <<products, history, expired>>
  BY <1>3, CloseType
<1> QED BY <1>1, <1>2, <1>3 DEF Fetch

(* The loop always goes on behind the last row it has written, and only an *)
(* export that ended well has a file, made of rows it has written.         *)
THEOREM ExportTypeCorrect == Spec => []TypeOK
<1>1. Init => TypeOK
  <2> SUFFICES ASSUME Init PROVE TypeOK
    OBVIOUS
  <2>1. nextId \in 1..(MaxId + 1) /\ nextId \in Ids
    BY DEF Init, Ids
  <2>2. rows \subseteq Ids /\ \A id \in rows : id < nextId
    BY <2>1 DEF Init, Ids
  <2>3. /\ sheet = <<>> /\ sheet \in Seq(Ids)
        /\ nextLink = NoLink /\ prevLink = NoLink
    BY DEF Init
  <2>4. /\ pc = "called" /\ file = <<>> /\ flushed = TRUE
        /\ expired \in BOOLEAN /\ always = rows /\ ever = rows
    BY DEF Init
  <2> QED BY <2>1, <2>2, <2>3, <2>4 DEF TypeOK
<1>2. TypeOK /\ [Next]_vars => TypeOK'
  <2> SUFFICES ASSUME TypeOK, [Next]_vars PROVE TypeOK'
    OBVIOUS
  <2>1. CASE Insert
    BY <2>1 DEF TypeOK, Insert, Ids, Running, export, cursors, result
  <2>2. CASE Remove
    BY <2>2 DEF TypeOK, Remove, Running, export, cursors, result
  <2>3. CASE Start
    <3>1. CASE Fail
      BY <2>3, <3>1, FailType DEF Start
    <3>2. CASE pc' \in {"empty", "fetch"}
                 /\ UNCHANGED <<cursors, sheet, result, products, history, expired>>
      <4>1. sheet = <<>> /\ sheet' = <<>> /\ nextLink = NoLink /\ pc = "called"
        BY <2>3, <3>2 DEF TypeOK, Start, Running
      <4> QED BY <3>2, <4>1 DEF TypeOK, Running, cursors, result, products, history
    <3> QED BY <2>3, <3>1, <3>2 DEF Start
  <2>4. CASE Fetch
    BY <2>4, FetchType
  <2>5. CASE GiveUp
    BY <2>5, FailType DEF GiveUp
  <2>6. CASE Expire
    BY <2>6 DEF TypeOK, Expire, Running, products, history, export, cursors, result
  <2>7. CASE UNCHANGED vars
    BY <2>7 DEF TypeOK, Running, vars, products, history, export, cursors, result
  <2> QED BY <2>1, <2>2, <2>3, <2>4, <2>5, <2>6, <2>7 DEF Next
<1> QED BY <1>1, <1>2, PTL DEF Spec

-----------------------------------------------------------------------------
(* The content of the file.  A product that stays is in the sheet as soon  *)
(* as the cursor has passed it; this is what a page must not break and     *)
(* what an empty page or an empty cursor turns into completeness.          *)
Passed ==
  \A id \in always : InSheet(id) \/ nextLink = NoLink \/ Before(nextLink, id)

Delivered ==
  /\ \A i \in DOMAIN file : file[i] \in ever
  /\ flushed => \A id \in always : InFile(id)

FileInv ==
  /\ always \subseteq rows
  /\ rows \subseteq ever
  /\ \A id \in Ids : InSheet(id) => id \in ever
  /\ NoRowTwice
  /\ Running => Passed
  /\ pc = "file" => Delivered

(* The rows after a page has been written: those before, and its own. *)
LEMMA WrittenRows ==
  ASSUME TypeOK, NEW page \in Pages, WritePage(page)
  PROVE  /\ sheet' \in Seq(Ids)
         /\ \A i \in 1..Len(sheet') :
              \/ i \in 1..Len(sheet) /\ sheet'[i] = sheet[i]
              \/ /\ i - Len(sheet) \in 1..Len(page) /\ i > Len(sheet)
                 /\ sheet'[i] = page[i - Len(sheet)]
         /\ \A id : InSheet(id)' <=>
              InSheet(id) \/ \E i \in 1..Len(page) : page[i] = id
<1>1. page \in Seq(Ids) /\ sheet \in Seq(Ids) /\ sheet' = sheet \o page
  BY PageFacts DEF WritePage, TypeOK
<1>2. /\ Len(sheet') = Len(sheet) + Len(page) /\ sheet' \in Seq(Ids)
      /\ \A i \in 1..Len(sheet') :
           sheet'[i] = IF i <= Len(sheet) THEN sheet[i]
                       ELSE page[i - Len(sheet)]
      /\ Len(sheet) \in Nat /\ Len(page) \in Nat
  BY <1>1
<1>3. ASSUME NEW id
      PROVE  InSheet(id)' <=>
               InSheet(id) \/ \E i \in 1..Len(page) : page[i] = id
  <2>1. ASSUME NEW i \in 1..Len(sheet), sheet[i] = id PROVE InSheet(id)'
    <3>1. i \in 1..Len(sheet') /\ sheet'[i] = id
      BY <1>2, <2>1
    <3> QED BY <1>2, <3>1 DEF InSheet
  <2>2. ASSUME NEW i \in 1..Len(page), page[i] = id PROVE InSheet(id)'
    <3>1. /\ Len(sheet) + i \in 1..Len(sheet')
          /\ sheet'[Len(sheet) + i] = id
      BY <1>2, <2>2
    <3> QED BY <1>2, <3>1 DEF InSheet
  <2>3. ASSUME InSheet(id)'
        PROVE  InSheet(id) \/ \E i \in 1..Len(page) : page[i] = id
    <3>1. PICK i \in 1..Len(sheet') : sheet'[i] = id
      BY <1>2, <2>3 DEF InSheet
    <3>2. CASE i <= Len(sheet)
      BY <1>1, <1>2, <3>1, <3>2 DEF InSheet
    <3>3. CASE i > Len(sheet)
      BY <1>2, <3>1, <3>3
    <3> QED BY <1>2, <3>1, <3>2, <3>3
  <2>4. InSheet(id) <=> \E i \in 1..Len(sheet) : sheet[i] = id
    BY <1>1 DEF InSheet
  <2> QED BY <2>1, <2>2, <2>3, <2>4
<1>4. ASSUME NEW i \in 1..Len(sheet')
      PROVE  \/ i \in 1..Len(sheet) /\ sheet'[i] = sheet[i]
             \/ /\ i - Len(sheet) \in 1..Len(page) /\ i > Len(sheet)
                /\ sheet'[i] = page[i - Len(sheet)]
  BY <1>2
<1> QED BY <1>2, <1>3, <1>4

(* If the sheet is complete, a delivered file is what it should be. *)
LEMMA DeliverFaithful ==
  ASSUME TypeOK, FileInv, sheet' \in Seq(Ids), Deliver(sheet'),
         UNCHANGED history,
         \A id \in Ids : InSheet(id)' => id \in ever,
         \A id \in always : InSheet(id)'
  PROVE  pc' = "file" /\ Delivered'
<1>1. PICK n \in 0..Len(sheet') : /\ file' = SubSeq(sheet', 1, n)
                                  /\ flushed' => n = Len(sheet')
  BY DEF Deliver
<1>2. /\ DOMAIN file' = 1..n
      /\ \A i \in 1..n : i \in 1..Len(sheet') /\ file'[i] = sheet'[i]
  BY <1>1
<1>3. ASSUME NEW i \in DOMAIN file' PROVE file'[i] \in ever
  <2>1. i \in DOMAIN sheet' /\ file'[i] = sheet'[i] /\ sheet'[i] \in Ids
    BY <1>2, <1>3
  <2> QED BY <2>1 DEF InSheet
<1>4. ASSUME flushed', NEW id \in always PROVE InFile(id)'
  <2>1. PICK i \in DOMAIN sheet' : sheet'[i] = id
    BY DEF InSheet
  <2>2. i \in DOMAIN file' /\ file'[i] = id
    BY <1>1, <1>2, <1>4, <2>1
  <2> QED BY <2>2 DEF InFile
<1> QED BY <1>3, <1>4 DEF Deliver, Delivered, history

LEMMA WriteKeepsFile ==
  ASSUME TypeOK, FileInv, pc = "fetch", NEW page \in Pages, WritePage(page),
         UNCHANGED <<products, history, expired>>
  PROVE  FileInv'
<1> DEFINE last == page[Len(page)]
<1>1. /\ page \in Seq(Ids) /\ Len(page) \in Nat /\ Len(page) >= 1
      /\ last \in Unread /\ last \in Ids
      /\ Unread \subseteq rows /\ rows \subseteq Ids
      /\ \A r \in rows : r \in Unread <=> nextLink = NoLink \/ Before(nextLink, r)
  BY PageFacts DEF WritePage, Unread, Rest, TypeOK
<1> HIDE DEF last
(* A product that stays is written now or still lies ahead. *)
<1>2. ASSUME NEW id \in always, ~InSheet(id)'
      PROVE  id \in Unread /\ Before(last, id)
  <2>1. ~InSheet(id) /\ ~\E i \in 1..Len(page) : page[i] = id
    BY <1>2, WrittenRows
  <2>2. id \in Unread
    BY <1>1, <2>1 DEF FileInv, Passed, Running
  <2>3. id # last /\ ~Before(id, last)
    BY <1>1, <2>1, <2>2, PageFacts DEF last
  <2> QED BY <1>1, <2>2, <2>3 DEF TypeOK
<1>3. \A id \in Ids : InSheet(id)' => id \in ever
  BY <1>1, WrittenRows, PageFacts DEF FileInv
<1>4. ASSUME pc' = "fetch", Follow(page) PROVE Passed'
  <2>1. nextLink' = last
    BY <1>4 DEF Follow, LinkAfter, last
  <2> QED BY <1>2, <2>1 DEF Passed, history
<1>5. ASSUME NothingAfter(page), Deliver(sheet')
      PROVE  pc' = "file" /\ Delivered'
  <2>1. \A id \in always : InSheet(id)'
    BY <1>2, <1>5 DEF NothingAfter, LinkAfter, last
  <2> QED BY <1>3, <1>5, <2>1, WrittenRows, DeliverFaithful
<1>6. NoRowTwice'
  <2> SUFFICES ASSUME NEW i \in 1..Len(sheet'), NEW j \in 1..Len(sheet'), i < j
               PROVE  Before(sheet'[i], sheet'[j])
    BY WrittenRows DEF NoRowTwice
  <2>1. CASE j \in 1..Len(sheet) /\ sheet'[j] = sheet[j]
    BY <2>1, WrittenRows DEF FileInv, NoRowTwice, TypeOK
  <2>2. CASE /\ j - Len(sheet) \in 1..Len(page) /\ j > Len(sheet)
             /\ sheet'[j] = page[j - Len(sheet)]
    <3>1. CASE i \in 1..Len(sheet) /\ sheet'[i] = sheet[i]
      <4>1. /\ sheet'[j] \in Unread /\ sheet'[j] \in Ids
            /\ sheet # <<>> /\ nextLink = sheet[Len(sheet)] /\ nextLink \in Ids
        BY <1>1, <2>2, <3>1, PageFacts DEF TypeOK, Running
      <4>2. Before(nextLink, sheet'[j])
        BY <1>1, <4>1
      <4>3. sheet[i] = nextLink \/ Before(sheet[i], nextLink)
        BY <3>1, <4>1 DEF FileInv, NoRowTwice, TypeOK
      <4>4. sheet[i] \in Ids
        BY <3>1 DEF TypeOK
      <4> QED BY <3>1, <4>1, <4>2, <4>3, <4>4
    <3>2. CASE /\ i - Len(sheet) \in 1..Len(page) /\ i > Len(sheet)
               /\ sheet'[i] = page[i - Len(sheet)]
      <4>1. i - Len(sheet) < j - Len(sheet)
        BY <2>2, <3>2
      <4> QED BY <2>2, <3>2, <4>1, PageFacts
    <3> QED BY <3>1, <3>2, WrittenRows
  <2> QED BY <2>1, <2>2, WrittenRows
<1> QED BY <1>3, <1>4, <1>5, <1>6 DEF FileInv, WritePage, Running, products, history

LEMMA CloseKeepsFile ==
  ASSUME TypeOK, FileInv, pc = "fetch", NEW page \in Pages, Close(page),
         UNCHANGED <<products, history, expired>>
  PROVE  FileInv'
<1>1. Len(page) = 0 /\ sheet' = sheet /\ sheet \in Seq(Ids)
  BY DEF Close, TypeOK
<1>2. Unread = {}
  BY <1>1, PageFacts
<1>3. \A id : InSheet(id)' <=> InSheet(id)
  BY <1>1 DEF InSheet
<1>4. \A id \in always : InSheet(id)
  <2>1. prevLink = NoLink \/ nextLink # NoLink
    BY DEF TypeOK
  <2>2. \A r \in rows : ~(nextLink = NoLink \/ Before(nextLink, r))
    BY <1>2, <2>1 DEF Unread, Rest
  <2> QED BY <2>2 DEF FileInv, Passed, Running
<1>5. Deliver(sheet')
  BY <1>1 DEF Close, Deliver
<1>6. pc' = "file" /\ Delivered'
  BY <1>1, <1>3, <1>4, <1>5, DeliverFaithful DEF FileInv
<1> QED BY <1>1, <1>3, <1>6 DEF FileInv, NoRowTwice, Running, products, history

LEMMA FailKeepsFile ==
  ASSUME FileInv, Fail
  PROVE  FileInv'
  BY DEF FileInv, Fail, InSheet, NoRowTwice, Running, result, products, history

LEMMA FileInvariant == Spec => []FileInv
<1>1. Init => FileInv
  BY DEF Init, FileInv, InSheet, NoRowTwice, Passed, Running
<1>2. TypeOK /\ FileInv /\ [Next]_vars => FileInv'
  <2> SUFFICES ASSUME TypeOK, FileInv, [Next]_vars PROVE FileInv'
    OBVIOUS
  <2>1. CASE Insert
    BY <2>1 DEF Insert, FileInv, InFile, InSheet, NoRowTwice, Passed, Delivered,
                Running, export, cursors, result
  <2>2. CASE Remove
    BY <2>2 DEF Remove, FileInv, InFile, InSheet, NoRowTwice, Passed, Delivered,
                Running, export, cursors, result
  <2>3. CASE Start
    <3>1. CASE Fail
      BY <3>1, FailKeepsFile
    <3>2. CASE pc' \in {"empty", "fetch"}
                 /\ UNCHANGED <<cursors, sheet, result, products, history, expired>>
      BY <2>3, <3>2 DEF Start, FileInv, InSheet, NoRowTwice, Passed, Running,
                        cursors, products, history
    <3> QED BY <2>3, <3>1, <3>2 DEF Start
  <2>4. CASE Fetch
    BY <2>4, FailKeepsFile, WriteKeepsFile, CloseKeepsFile DEF Fetch
  <2>5. CASE GiveUp
    BY <2>5, FailKeepsFile DEF GiveUp
  <2>6. CASE Expire
    BY <2>6 DEF Expire, FileInv, InFile, InSheet, NoRowTwice, Passed, Delivered,
                Running, products, history, export, cursors, result
  <2>7. CASE UNCHANGED vars
    BY <2>7 DEF FileInv, InFile, InSheet, NoRowTwice, Passed, Delivered, Running,
                vars, products, history, export, cursors, result
  <2> QED BY <2>1, <2>2, <2>3, <2>4, <2>5, <2>6, <2>7 DEF Next
<1> QED BY <1>1, <1>2, ExportTypeCorrect, PTL DEF Spec

(* A delivered file misses no product that was there throughout unless     *)
(* Flush failed unnoticed, and invents none in any case.                   *)
THEOREM ExportFaithful == Spec => []FileIsFaithful
<1>1. TypeOK /\ FileInv => FileIsFaithful
  <2> SUFFICES ASSUME TypeOK, FileInv PROVE FileIsFaithful
    OBVIOUS
  <2>1. CASE pc = "file"
    BY <2>1 DEF FileInv, FileIsFaithful, Delivered, InFile
  <2>2. CASE pc # "file"
    <3>1. file = <<>> /\ DOMAIN file = {}
      BY <2>2 DEF TypeOK
    <3> QED BY <2>2, <3>1 DEF FileIsFaithful, InFile
  <2> QED BY <2>1, <2>2
<1> QED BY <1>1, FileInvariant, ExportTypeCorrect, PTL

(* No product has two rows. *)
THEOREM ExportOrdered == Spec => []NoRowTwice
<1>1. FileInv => NoRowTwice
  BY DEF FileInv
<1> QED BY <1>1, FileInvariant, PTL

=============================================================================
