---------------------------- MODULE ProductExport ----------------------------
(***************************************************************************)
(* ExportProducts: one export, which reads the products page by page and   *)
(* writes them to an Excel sheet (productHandler.Build), while other       *)
(* requests insert and delete products between its queries.                *)
(*                                                                         *)
(* Products are named by their ids.  The deadline of the request's context *)
(* may pass at any time; no query succeeds after it.                       *)
(***************************************************************************)
EXTENDS Naturals, Sequences

CONSTANTS
  MaxId,        \* bound: the number of products that are ever inserted
  PageSize,     \* model.DefaultLimit
  NoLink,       \* the empty cursor
  Before(_, _)  \* the order of ids under model.SortOrderDefault

Ids == 1..MaxId

ASSUME ExportAssumption ==
  /\ MaxId \in Nat
  /\ PageSize \in Nat \ {0}
  /\ NoLink \notin Ids

(* Before is a strict total order, rising or falling. *)
ASSUME OrderAssumption ==
  \A i, j, k \in Ids :
    /\ Before(i, j) \in BOOLEAN
    /\ ~Before(i, i)
    /\ Before(i, j) /\ Before(j, k) => Before(i, k)
    /\ i = j \/ Before(i, j) \/ Before(j, i)

VARIABLES
  rows, nextId,   \* the products table and its key sequence
  pc,             \* where the export is, or how it ended
  expired,        \* the deadline of its context has passed
  prevLink,       \* the cursors of the last page,
  nextLink,       \* both handed to the next query
  sheet,          \* the rows below the header, from currentRow = 2 on
  file,           \* the rows of the file that is delivered, if any
  flushed,        \* Flush has not failed
  always, ever    \* history: products there at all times, at some time,
                  \* since the export began

products == <<rows, nextId>>
history  == <<always, ever>>
cursors  == <<prevLink, nextLink>>
result   == <<file, flushed>>
export   == <<pc, cursors, sheet, result>>
vars     == <<products, history, export, expired>>

Init ==
  /\ nextId \in Ids
  /\ rows \in SUBSET (1..(nextId - 1))
  /\ pc = "called"
  /\ expired = FALSE
  /\ prevLink = NoLink
  /\ nextLink = NoLink
  /\ sheet = <<>>
  /\ file = <<>>
  /\ flushed = TRUE
  /\ always = rows
  /\ ever = rows

Running == pc \in {"called", "fetch"}

-----------------------------------------------------------------------------
(* Other requests. *)

Insert ==
  /\ nextId \in Ids
  /\ rows' = rows \cup {nextId}
  /\ nextId' = nextId + 1
  /\ ever' = ever \cup {nextId}
  /\ UNCHANGED <<export, expired, always>>

Remove ==
  /\ \E id \in rows : rows' = rows \ {id} /\ always' = always \ {id}
  /\ UNCHANGED <<export, expired, nextId, ever>>

-----------------------------------------------------------------------------
(* The export. *)

(* An error on the way: no file, whatever the sheet holds. *)
Fail ==
  /\ pc' = "failed"
  /\ UNCHANGED <<cursors, sheet, result, products, history, expired>>

(* EXPORT_TYPE_URL only looks at the user's claims and returns an empty    *)
(* FileInfo; every other type builds a sheet, beginning with its header.   *)
Start ==
  /\ pc = "called"
  /\ \/ /\ pc' \in {"empty", "fetch"}
        /\ UNCHANGED <<cursors, sheet, result, products, history, expired>>
     \/ Fail

(* What lies ahead of a query that is given both cursors.  Next wins; Prev *)
(* alone turns back.                                                       *)
Rest(prev, next) ==
  {r \in rows : /\ next = NoLink \/ Before(next, r)
                /\ prev = NoLink \/ next # NoLink \/ Before(r, prev)}

(* The products the next query of the loop finds ahead of it. *)
UnreadSwapped == Rest(nextLink, prevLink)
Unread == Rest(prevLink, nextLink)

(* SELECT ... ORDER BY id LIMIT PageSize. *)
IsPage(page) ==
  /\ \A i, j \in DOMAIN page : i < j => Before(page[i], page[j])
  /\ \A i \in DOMAIN page, r \in Unread :
       Before(r, page[i]) => \E j \in DOMAIN page : r = page[j]
  /\ Len(page) = PageSize \/ \A r \in Unread : \E i \in DOMAIN page : r = page[i]

Pages == {page \in UNION {[1..n -> Unread] : n \in 0..PageSize} : IsPage(page)}

(* The cursors of a page.  Next may be empty only where nothing is left,   *)
(* and need not be empty there; Prev may be empty or lead back from the    *)
(* first row.                                                              *)
LinkAfter(page)    == page[Len(page)]
LinksBefore(page)  == {NoLink, page[1]}
NothingAfter(page) == ~\E r \in Unread : Before(LinkAfter(page), r)

(* The cursors of this page lead to the next. *)
FollowSwapped(page) ==
  /\ prevLink' = LinkAfter(page)
  /\ nextLink' \in LinksBefore(page)
Follow(page) ==
  /\ nextLink' = LinkAfter(page)
  /\ prevLink' \in LinksBefore(page)

(* Build returns the file, having flushed the rows into it.  The error of  *)
(* Flush is dropped: the file is then delivered with the rows that came    *)
(* through, which may be none.                                             *)
Deliver(written) ==
  /\ pc' = "file"
  /\ flushed' \in BOOLEAN
  /\ \E n \in 0..Len(written) :
       /\ file' = SubSeq(written, 1, n)
       /\ flushed' => n = Len(written)

(* A page with rows is written, and the loop goes on or breaks. *)
WritePage(page) ==
  /\ page # <<>>
  /\ sheet' = sheet \o page
  /\ \/ pc' = "fetch" /\ Follow(page) /\ UNCHANGED result
     \/ NothingAfter(page) /\ Deliver(sheet') /\ UNCHANGED cursors

(* An empty page ends the sheet. *)
Close(page) ==
  /\ page = <<>>
  /\ Deliver(sheet)
  /\ UNCHANGED <<sheet, cursors>>

(* One turn of the loop: FindWithCursor, a SetRow for every result, the    *)
(* cursors.  FindWithCursor or SetRow may fail.                            *)
BreakOnError ==
  /\ pc = "fetch"
  /\ ~expired
  /\ \/ \E page \in Pages : WritePage(page) \/ Close(page)
     \/ Deliver(sheet) /\ UNCHANGED <<sheet, cursors>>
  /\ UNCHANGED <<products, history, expired>>

Fetch ==
  /\ pc = "fetch"
  /\ ~expired
  /\ \/ /\ \E page \in Pages : WritePage(page) \/ Close(page)
        /\ UNCHANGED <<products, history, expired>>
     \/ Fail

(* The deadline of the context has passed: no query succeeds, and the one  *)
(* that waits for the database returns.                                    *)
IgnoreError ==
  /\ pc = "fetch"
  /\ expired
  /\ UNCHANGED vars

GiveUp ==
  /\ pc = "fetch"
  /\ expired
  /\ Fail

Expire ==
  /\ Running
  /\ ~expired
  /\ expired' = TRUE
  /\ UNCHANGED <<products, history, export>>

-----------------------------------------------------------------------------
Next == Insert \/ Remove \/ Start \/ Fetch \/ GiveUp \/ Expire

Spec == Init /\ [][Next]_vars

(* The goroutine of the export runs.  Nothing makes a query return before  *)
(* the deadline: the database may be as slow as it likes.                  *)
FairSpec == Spec /\ WF_vars(Start) /\ WF_vars(GiveUp) /\ WF_vars(Expire)

-----------------------------------------------------------------------------
(* Every variable has its type; the loop goes on behind the last row it    *)
(* has written, Prev is never given alone, and there is a file only where  *)
(* the export ended well, holding what was written or a first part of it.  *)
TypeOK ==
  /\ nextId \in 1..(MaxId + 1)
  /\ rows \subseteq Ids /\ always \subseteq Ids /\ ever \subseteq Ids
  /\ \A id \in rows : id < nextId
  /\ pc \in {"called", "fetch", "file", "empty", "failed"}
  /\ expired \in BOOLEAN
  /\ sheet \in Seq(Ids)
  /\ Running => nextLink = IF sheet = <<>> THEN NoLink ELSE sheet[Len(sheet)]
  /\ nextLink \in Ids \cup {NoLink}
  /\ prevLink \in Ids \cup {NoLink}
  /\ prevLink = NoLink \/ nextLink # NoLink
  /\ pc \in {"called", "empty"} => sheet = <<>>
  /\ flushed \in BOOLEAN
  /\ IF pc = "file"
     THEN \E n \in 0..Len(sheet) : /\ file = SubSeq(sheet, 1, n)
                                   /\ flushed => n = Len(sheet)
     ELSE file = <<>> /\ flushed

InSheet(id) == \E i \in DOMAIN sheet : sheet[i] = id
InFile(id)  == \E i \in DOMAIN file : file[i] = id

(* A file that is delivered holds every product that was there from the    *)
(* first query to the last, whatever was inserted and deleted around it,   *)
(* unless Flush failed, which Build does not look at.  It never holds a    *)
(* product that was not there at some time in between.                     *)
FileIsFaithful ==
  /\ pc = "file" /\ flushed => \A id \in always : InFile(id)
  /\ \A id \in Ids : InFile(id) => id \in ever

(* No product is written to two rows, and the rows are in the order of the *)
(* query, in spite of deletions and insertions between two pages.          *)
NoRowTwice ==
  \A i, j \in DOMAIN sheet : i < j => Before(sheet[i], sheet[j])

(* An export comes to its end, also if the database answers none of its    *)
(* queries: the loop has no bound of its own, but the deadline ends it.    *)
ExportEnds == <>~Running
=============================================================================
