----------------------------- MODULE RichQuery -----------------------------
(***************************************************************************)
(* The lists of certificates: OpenListRichQuery, DeletedListRichQuery and  *)
(* DraftListRichQuery of app/business/certificateIO.go, the paginated      *)
(* query of the chaincode, and, as an external part, the rows that a       *)
(* peer's CouchDB selects.  CertificateRichQuery first walks through all   *)
(* pages to collect their bookmarks, then reads the page asked for and the *)
(* last one.  Every one of these queries is answered by some peer, from    *)
(* the blocks that peer has committed, while certificates are written.     *)
(***************************************************************************)
EXTENDS Ledger, Integers, FiniteSets

CONSTANTS
    Readers,    \* requests for a list
    Query,      \* the requests that clients send: list, page, conditions, login
    NoQuery,    \* the query of a request not received
    Writes,     \* the certificates that other requests write meanwhile
    Dates,      \* values of updateDate
    UpdateDate, \* the value that the endorser's clock gives each write
    Rank,       \* the order of the certificate numbers
    Start,      \* the bookmark "", of the first page
    TotalLimit  \* most rows a peer returns to one query (totalQueryLimit)

Row == [cert : Certs, date : Dates]

AnyQuery == [list : {"open", "deleted", "draft"}, pageSize : Int, pageIndex : Int,
             bodies : SUBSET Bodies,    \* contents that satisfy the text conditions
             isOpen : BOOLEAN,          \* as the body of the request says
             isLogin : BOOLEAN]

ASSUME QueryAssumption ==
    /\ Query \subseteq AnyQuery /\ NoQuery \notin Query
    /\ Writes \subseteq CertTx
    /\ Dates \subseteq Nat /\ UpdateDate \in [Writes -> Dates]
    /\ Start \notin Row
    /\ Rank \in [Certs -> Nat]
    /\ \A c, d \in Certs : Rank[c] = Rank[d] => c = d
    /\ TotalLimit \in Nat \ {0}

VARIABLES
    lists,      \* the state of each request's handler
    calm        \* nothing was committed since the request came (history)

vars == <<ledgerVars, lists, calm>>

List == [pc        : {"unsent", "collect", "page", "last", "lastButOne", "done"},
         query     : Query \cup {NoQuery},
         bookmarks : Seq(Row \cup {Start}),
         index     : Int,               \* pageIndex
         certs     : SUBSET Row,        \* list.Certs; a page is in the order of Precedes
         count     : Int,               \* list.Count
         code      : {0, 200, 400, 401}]

(* Every index that CertificateRichQuery applies to its bookmarks is in    *)
(* range: an index out of range would panic.                               *)
TypeOK ==
    /\ lists \in [Readers -> List]
    /\ calm \in [Readers -> BOOLEAN]
    /\ \A r \in Readers :
          /\ lists[r].pc \notin {"unsent", "done"} => lists[r].query # NoQuery
          /\ lists[r].pc = "collect" => Len(lists[r].bookmarks) >= 1
          /\ lists[r].pc \in {"page", "last"} => lists[r].index \in DOMAIN lists[r].bookmarks
          /\ lists[r].pc = "lastButOne" => Len(lists[r].bookmarks) >= 2

Fresh(pc, q, bookmarks, code) ==
    [pc |-> pc, query |-> q, bookmarks |-> bookmarks, index |-> 0,
     certs |-> {}, count |-> 0, code |-> code]

Unsent == Fresh("unsent", NoQuery, <<>>, 0)

(* The writes of other requests are endorsed, and reach the orderer in any  *)
(* order and at any time.                                                  *)
Init ==
    /\ chain = <<>> /\ pool = Writes
    /\ height = [p \in Peers |-> 0]
    /\ lists = [r \in Readers |-> Unsent]
    /\ calm = [r \in Readers |-> FALSE]

-----------------------------------------------------------------------------
(* What CouchDB selects and how it sorts.                                  *)

InList(list, value) ==
    CASE list = "open"    -> value.isOpen /\ value.isCompleted /\ ~ value.isDeleted
      [] list = "deleted" -> value.isDeleted
      [] list = "draft"   -> ~ value.isOpen /\ ~ value.isCompleted /\ ~ value.isDeleted

Selected(q, value) == InList(q.list, value) /\ value.body \in q.bodies

(* The rows of the selected certificates after the first h blocks.         *)
RowsAt(h, q) ==
    {row \in Row : \E i \in 1 .. h :
        /\ chain[i].tx.certId = row.cert
        /\ \A j \in i + 1 .. h : chain[j].tx.certId # row.cert
        /\ UpdateDate[chain[i].tx] = row.date
        /\ Selected(q, chain[i].tx.value)}

(* "sort": updateDate, then certId, both descending.                       *)
Precedes(a, b) ==
    \/ a.date > b.date
    \/ a.date = b.date /\ Rank[a.cert] > Rank[b.cert]

After(b, row) == b = Start \/ Precedes(b, row)

FirstOf(n, rows) == {row \in rows : Cardinality({s \in rows : Precedes(s, row)}) < n}

-----------------------------------------------------------------------------
(* queryList: a page size of 0 with no bookmark leaves the query            *)
(* unpaginated; any other page size that is not between 1 and the limit     *)
(* is replaced by the limit.                                                *)

Paginated(q, b) == ~ (q.pageSize = 0 /\ b = Start)

Limit(q) == IF q.pageSize > 0 /\ q.pageSize < TotalLimit THEN q.pageSize ELSE TotalLimit

Page(h, q, b) == FirstOf(Limit(q), {row \in RowsAt(h, q) : After(b, row)})

(* FetchedRecordsCount and Bookmark: 0 and "" of a query not paginated,     *)
(* and else the rows returned and the last of them.                         *)
PageCount(q, b, page) == IF Paginated(q, b) THEN Cardinality(page) ELSE 0

IsBookmark(next, q, b, page) ==
    IF Paginated(q, b) /\ page # {}
    THEN next \in page /\ \A row \in page : row = next \/ Precedes(row, next)
    ELSE next = b

-----------------------------------------------------------------------------
(* The handlers.                                                           *)

LastOf(s) == s[Len(s)]

Refused(r, q, code) ==
    lists' = [lists EXCEPT ![r] = Fresh("done", q, <<>>, code)]

Receive(r, q) ==
    /\ lists[r].pc = "unsent"
    /\ calm' = [calm EXCEPT ![r] = \A p \in Peers : height[p] = Len(chain)]
    /\ IF q.list # "open" /\ ~ q.isOpen /\ ~ q.isLogin THEN Refused(r, q, 401)
       ELSE IF q.pageIndex < 1 THEN Refused(r, q, 400)
       ELSE lists' = [lists EXCEPT ![r] = Fresh("collect", q, <<Start>>, 0)]
    /\ UNCHANGED ledgerVars

(* A body that is not JSON of the query's type.                            *)
ReceiveUndecodable(r) ==
    /\ lists[r].pc = "unsent"
    /\ Refused(r, NoQuery, 400)
    /\ UNCHANGED <<ledgerVars, calm>>

Continues(n, next, b) == next # b /\ n # 0

MutEndOfPages(n, next, b) == next = b /\ n # 0

EndOfPages(n, next, b) == next = b \/ n = 0

MutClamped(q, bookmarks) == IF Len(bookmarks) < q.pageIndex THEN Len(bookmarks) - 1 ELSE q.pageIndex

Clamped(q, bookmarks) == IF Len(bookmarks) < q.pageIndex THEN Len(bookmarks) ELSE q.pageIndex

(* A turn of the loop that collects the bookmarks.                         *)
CollectFrom(r, b) ==
    /\ lists[r].pc = "collect"
    /\ \E p \in Peers : LET q    == lists[r].query
                            page == Page(height[p], q, b)
                            n    == PageCount(q, b, page)
                        IN  \E next \in page \cup {b} :
           /\ IsBookmark(next, q, b, page)
           /\ \/ /\ Continues(n, next, LastOf(lists[r].bookmarks))
                 /\ lists' = [lists EXCEPT ![r].bookmarks = Append(@, next)]
              \/ /\ EndOfPages(n, next, LastOf(lists[r].bookmarks))
                 /\ lists' = [lists EXCEPT ![r].pc = "page",
                                 ![r].index = Clamped(q, lists[r].bookmarks)]
    /\ UNCHANGED <<ledgerVars, calm>>

MutCollect(r) == CollectFrom(r, Start)

Collect(r) == CollectFrom(r, LastOf(lists[r].bookmarks))

(* The page asked for.                                                     *)
FetchPage(r) ==
    /\ lists[r].pc = "page"
    /\ \E p \in Peers :
          lists' = [lists EXCEPT
              ![r].pc = "last",
              ![r].certs = Page(height[p], lists[r].query, lists[r].bookmarks[lists[r].index])]
    /\ UNCHANGED <<ledgerVars, calm>>

(* The answer, given the number of full pages and the rows of the last one. *)
MutReply(r, full, n) ==
    lists' = [lists EXCEPT ![r].pc = "done", ![r].code = 200,
                           ![r].count = lists[r].query.pageSize * (full + 1) + n]

Reply(r, full, n) ==
    lists' = [lists EXCEPT ![r].pc = "done", ![r].code = 200,
                           ![r].count = lists[r].query.pageSize * full + n]

(* The page after the last bookmark, which is empty if all pages were found. *)
FetchLast(r) ==
    /\ lists[r].pc = "last"
    /\ \E p \in Peers : LET q     == lists[r].query
                            marks == lists[r].bookmarks
                            n     == PageCount(q, LastOf(marks), Page(height[p], q, LastOf(marks)))
                        IN  \/ /\ n = 0 /\ Len(marks) > 1
                               /\ lists' = [lists EXCEPT ![r].pc = "lastButOne"]
                            \/ /\ n # 0 \/ Len(marks) <= 1
                               /\ Reply(r, Len(marks) - 1, n)
    /\ UNCHANGED <<ledgerVars, calm>>

FetchLastButOne(r) ==
    /\ lists[r].pc = "lastButOne"
    /\ \E p \in Peers : LET q     == lists[r].query
                            marks == lists[r].bookmarks
                            b     == marks[Len(marks) - 1]
                        IN  Reply(r, Len(marks) - 2, PageCount(q, b, Page(height[p], q, b)))
    /\ UNCHANGED <<ledgerVars, calm>>

(* Any query may fail, which ends the request.                             *)
QueryFails(r) ==
    /\ lists[r].pc \notin {"unsent", "done"}
    /\ Refused(r, lists[r].query, 400)
    /\ UNCHANGED <<ledgerVars, calm>>

HandlerStep(r) == Collect(r) \/ FetchPage(r) \/ FetchLast(r) \/ FetchLastButOne(r)

-----------------------------------------------------------------------------
(* The rest of the system.                                                 *)

OrderWrite ==
    /\ Order
    /\ calm' = [r \in Readers |-> FALSE]
    /\ UNCHANGED lists

Commit(p) == PeerCommit(p) /\ UNCHANGED <<lists, calm>>

Next ==
    \/ \E r \in Readers :
          \/ \E q \in Query : Receive(r, q)
          \/ ReceiveUndecodable(r)
          \/ HandlerStep(r) \/ QueryFails(r)
    \/ OrderWrite
    \/ \E p \in Peers : Commit(p)

(* A handler that has begun goes on, by queries that succeed if no query    *)
(* fails.  Nothing makes anyone write, and a peer may lag for ever.        *)
Spec == Init /\ [][Next]_vars /\ \A r \in Readers : WF_vars(HandlerStep(r))

-----------------------------------------------------------------------------
(* Properties.                                                             *)

(* The bookmarks that CertificateRichQuery collects lead ever further down *)
(* the list, whichever peers answered and whatever was written in between. *)
(* The loop has no other bound than this.                                  *)
BookmarksAdvance ==
    \A r \in Readers : \A i, j \in DOMAIN lists[r].bookmarks :
        i + 1 = j => /\ lists[r].bookmarks[j] # Start
                     /\ After(lists[r].bookmarks[i], lists[r].bookmarks[j])

(* The list as one would write it down: all rows, cut into pages.          *)
Matching(q) == RowsAt(Len(chain), q)

Place(row, rows) == Cardinality({s \in rows : Precedes(s, row)}) + 1

Ceil(n, d) == (n + d - 1) \div d

(* A list read while nothing is committed, from peers that agree, is the    *)
(* list: its count is the number of certificates selected, its page holds   *)
(* the rows of that page, and a page asked for past the end is answered by  *)
(* the empty page after the last.  Not so for a page size of 0, where the   *)
(* count is 0 and all rows are given, nor above the limit of the peers.     *)
QuietListIsExact ==
    \A r \in Readers :
        LET q    == lists[r].query
            rows == Matching(q)
            last == Ceil(Cardinality(rows), Limit(q)) + 1
        IN  lists[r].code = 200 /\ calm[r] =>
            /\ q.pageSize # 0 =>
                  /\ lists[r].index = IF q.pageIndex < last THEN q.pageIndex ELSE last
                  /\ lists[r].certs = {row \in rows : Ceil(Place(row, rows), Limit(q)) = lists[r].index}
            /\ q.pageSize = Limit(q) \/ (q.pageSize # 0 /\ Cardinality(rows) <= TotalLimit) =>
                  lists[r].count = Cardinality(rows)
            /\ q.pageSize = 0 =>
                  lists[r].count = 0 /\ lists[r].certs = FirstOf(TotalLimit, rows)

(* Every list is answered in the end, even if peers lag and certificates    *)
(* move about while its pages are collected.                                *)
ListEnds == \A r \in Readers : lists[r].pc # "unsent" ~> lists[r].pc = "done"
=============================================================================
