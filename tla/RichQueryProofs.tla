-------------------------- MODULE RichQueryProofs --------------------------
(***************************************************************************)
(* The bookmarks advance, no index into them is out of range, and a list    *)
(* that nothing disturbs is exact, for any number of certificates, writes,  *)
(* peers and requests.                                                     *)
(***************************************************************************)
EXTENDS RichQuery, FiniteSetTheorems, SequenceTheorems, TLAPS

(* What a handler knows of its own request once it has begun.              *)
Begun ==
    \A r \in Readers : lists[r].pc \notin {"unsent", "done"} =>
        /\ lists[r].query \in Query /\ lists[r].query.pageIndex >= 1
        /\ Len(lists[r].bookmarks) >= 1

ListInv ==
    /\ TypeOK
    /\ height \in [Peers -> Nat]
    /\ Begun
    /\ BookmarksAdvance

-----------------------------------------------------------------------------
(* No state selects infinitely many rows: each comes from a block.          *)
LEMMA RowsFinite ==
    ASSUME NEW h \in Nat, NEW q
    PROVE  IsFiniteSet(RowsAt(h, q))
<1> DEFINE f == [i \in 1 .. h |-> [cert |-> chain[i].tx.certId, date |-> UpdateDate[chain[i].tx]]]
           T == {f[i] : i \in 1 .. h}
<1>1. IsFiniteSet(1 .. h)
  BY FS_Interval
<1>2. f \in Surjection(1 .. h, T)
  BY DEF Surjection
<1>3. IsFiniteSet(T)
  BY <1>1, <1>2, FS_Surjection
<1>4. RowsAt(h, q) \subseteq T
  <2> SUFFICES ASSUME NEW row \in RowsAt(h, q) PROVE row \in T
    OBVIOUS
  <2>1. PICK i \in 1 .. h : chain[i].tx.certId = row.cert /\ UpdateDate[chain[i].tx] = row.date
    BY DEF RowsAt
  <2>2. row = [cert |-> row.cert, date |-> row.date]
    BY DEF RowsAt, Row
  <2>3. row = f[i]
    BY <2>1, <2>2
  <2> QED BY <2>3
<1> QED BY <1>3, <1>4, FS_Subset

(* A page is a set of rows behind its bookmark, and its count a number      *)
(* (chaincode/main.go:235-264).                                             *)
LEMMA PageRows ==
    ASSUME NEW h \in Nat, NEW q, NEW b
    PROVE  /\ Page(h, q, b) \subseteq {row \in Row : After(b, row)}
           /\ PageCount(q, b, Page(h, q, b)) \in Nat
<1>1. Page(h, q, b) \subseteq {row \in RowsAt(h, q) : After(b, row)}
  BY DEF Page, FirstOf
<1>2. IsFiniteSet(Page(h, q, b))
  BY <1>1, RowsFinite, FS_Subset
<1>3. Cardinality(Page(h, q, b)) \in Nat
  BY <1>2, FS_CardinalityType
<1> QED BY <1>1, <1>3 DEF PageCount, RowsAt

-----------------------------------------------------------------------------
(* The bookmarks of one request lead down the list.                        *)
Advancing(marks) ==
    \A i, j \in DOMAIN marks : i + 1 = j => marks[j] # Start /\ After(marks[i], marks[j])

(* The invariant, for the handler of one request.                          *)
GoodList(l) ==
    /\ l \in List
    /\ l.pc \notin {"unsent", "done"} =>
          l.query \in Query /\ l.query.pageIndex >= 1 /\ Len(l.bookmarks) >= 1
    /\ l.pc \in {"page", "last"} => l.index \in DOMAIN l.bookmarks
    /\ l.pc = "lastButOne" => Len(l.bookmarks) >= 2
    /\ Advancing(l.bookmarks)

(* The invariant holds for each request.                                   *)
LEMMA GoodLists ==
    ASSUME ListInv, NEW r \in Readers
    PROVE  GoodList(lists[r])
BY QueryAssumption DEF ListInv, TypeOK, Begun, BookmarksAdvance, GoodList, Advancing

(* A step of one handler keeps the invariant if its new state is good.     *)
LEMMA OneList ==
    ASSUME ListInv, NEW r \in Readers, NEW l, GoodList(l),
           lists' = [lists EXCEPT ![r] = l],
           calm' \in [Readers -> BOOLEAN], UNCHANGED height
    PROVE  ListInv'
<1>1. l \in List
  BY DEF GoodList
<1>2. lists' \in [Readers -> List] /\ \A s \in Readers : GoodList(lists'[s])
  BY <1>1, GoodLists DEF ListInv, TypeOK
<1>3. \A s \in Readers : lists'[s].query \in Query => lists'[s].query # NoQuery
  BY QueryAssumption
<1>4. TypeOK'
  BY <1>2, <1>3 DEF TypeOK, GoodList
<1>5. Begun' /\ BookmarksAdvance'
  BY <1>2 DEF Begun, BookmarksAdvance, GoodList, Advancing
<1> QED BY <1>4, <1>5 DEF ListInv


-----------------------------------------------------------------------------
(* The steps of a handler.                                                 *)

(* The state of a handler that has just begun, or has failed.              *)
LEMMA FreshType ==
    ASSUME NEW pc \in {"unsent", "collect", "done"}, NEW q \in Query \cup {NoQuery},
           NEW marks \in Seq(Row \cup {Start}), NEW code \in {0, 400, 401}
    PROVE  Fresh(pc, q, marks, code) \in List
BY DEF Fresh, List

(* Its fields.                                                             *)
LEMMA FreshFields ==
    ASSUME NEW pc, NEW q, NEW marks, NEW code
    PROVE  LET l == Fresh(pc, q, marks, code)
           IN  l.pc = pc /\ l.query = q /\ l.bookmarks = marks
BY DEF Fresh

(* An error ends a request without a list.                                 *)
LEMMA RefusedIsGood ==
    ASSUME ListInv, NEW r \in Readers, NEW q \in Query \cup {NoQuery}, NEW code \in {400, 401},
           Refused(r, q, code), calm' \in [Readers -> BOOLEAN], UNCHANGED height
    PROVE  ListInv'
<1> DEFINE l == Fresh("done", q, <<>>, code)
<1>1. <<>> \in Seq(Row \cup {Start})
  OBVIOUS
<1>2. l \in List
  <2> DEFINE marks == <<>>
  <2> HIDE DEF marks
  <2>1. marks \in Seq(Row \cup {Start})
    BY <1>1 DEF marks
  <2>2. "done" \in {"unsent", "collect", "done"} /\ code \in {0, 400, 401}
    OBVIOUS
  <2>3. Fresh("done", q, marks, code) \in List
    BY <2>1, <2>2, FreshType
  <2> QED BY <2>3 DEF marks
<1>3. l.pc = "done" /\ l.bookmarks = <<>>
  BY FreshFields
<1>4. Advancing(<<>>)
  BY DEF Advancing
<1>5. lists' = [lists EXCEPT ![r] = l]
  BY DEF Refused
<1> HIDE DEF l
<1>6. GoodList(l)
  BY <1>2, <1>3, <1>4 DEF GoodList
<1> QED BY <1>5, <1>6, OneList

(* A request is received, or refused (certificateIO.go:437-451).            *)
LEMMA ReceiveGood ==
    ASSUME ListInv, NEW r \in Readers, NEW q \in Query, Receive(r, q)
    PROVE  ListInv'
<1>1. calm' \in [Readers -> BOOLEAN] /\ UNCHANGED height
  BY DEF Receive, ListInv, TypeOK, ledgerVars
<1>2. CASE Refused(r, q, 401) \/ Refused(r, q, 400)
  BY <1>1, <1>2, RefusedIsGood
<1>3. CASE /\ ~ q.pageIndex < 1
           /\ lists' = [lists EXCEPT ![r] = Fresh("collect", q, <<Start>>, 0)]
  <2> DEFINE l == Fresh("collect", q, <<Start>>, 0)
  <2>1. <<Start>> \in Seq(Row \cup {Start}) /\ Len(<<Start>>) = 1
    OBVIOUS
  <2>2. l \in List
    <3> DEFINE marks == <<Start>>
    <3> HIDE DEF marks
    <3>1. marks \in Seq(Row \cup {Start})
      BY <2>1 DEF marks
    <3>2. Fresh("collect", q, marks, 0) \in List
      BY <3>1, FreshType
    <3> QED BY <3>2 DEF marks
  <2>3. l.pc = "collect" /\ l.query = q /\ l.bookmarks = <<Start>>
    BY FreshFields
  <2>4. Advancing(<<Start>>)
    BY DEF Advancing
  <2>5. q.pageIndex >= 1
    BY <1>3, QueryAssumption DEF AnyQuery
  <2>6. lists' = [lists EXCEPT ![r] = l]
    BY <1>3
  <2> HIDE DEF l
  <2>7. Len(l.bookmarks) >= 1
    BY <2>1, <2>3
  <2>8. GoodList(l)
    BY <2>2, <2>3, <2>4, <2>5, <2>7 DEF GoodList
  <2> QED BY <1>1, <2>6, <2>8, OneList
<1> QED BY <1>2, <1>3 DEF Receive

(* A turn of the loop: a bookmark that differs from the last one is that of *)
(* a row behind it (certificateIO.go:453-466).                             *)
LEMMA CollectGood ==
    ASSUME ListInv, NEW r \in Readers, Collect(r)
    PROVE  ListInv'
<1> DEFINE b == LastOf(lists[r].bookmarks)
           q == lists[r].query
<1>1. GoodList(lists[r]) /\ lists[r].pc = "collect" /\ calm' = calm /\ UNCHANGED height
  BY GoodLists DEF Collect, CollectFrom, ledgerVars
<1>2. /\ lists[r] \in List /\ lists[r].bookmarks \in Seq(Row \cup {Start})
      /\ Len(lists[r].bookmarks) >= 1 /\ q \in Query /\ q.pageIndex \in Int /\ q.pageIndex >= 1
  BY <1>1, QueryAssumption DEF GoodList, List, AnyQuery
<1>3. calm' \in [Readers -> BOOLEAN]
  BY <1>1 DEF ListInv, TypeOK
<1>4. PICK p \in Peers : \E next \in Page(height[p], q, b) \cup {b} :
        LET n == PageCount(q, b, Page(height[p], q, b))
        IN  \/ /\ Continues(n, next, b)
               /\ lists' = [lists EXCEPT ![r].bookmarks = Append(@, next)]
            \/ lists' = [lists EXCEPT ![r].pc = "page",
                            ![r].index = Clamped(q, lists[r].bookmarks)]
  BY DEF Collect, CollectFrom
<1>4a. PICK next \in Page(height[p], q, b) \cup {b} :
        LET n == PageCount(q, b, Page(height[p], q, b))
        IN  \/ /\ Continues(n, next, b)
               /\ lists' = [lists EXCEPT ![r].bookmarks = Append(@, next)]
            \/ lists' = [lists EXCEPT ![r].pc = "page",
                            ![r].index = Clamped(q, lists[r].bookmarks)]
  BY <1>4
<1>5. CASE /\ Continues(PageCount(q, b, Page(height[p], q, b)), next, b)
           /\ lists' = [lists EXCEPT ![r].bookmarks = Append(@, next)]
  <2> DEFINE marks == Append(lists[r].bookmarks, next)
             l     == [lists[r] EXCEPT !.bookmarks = marks]
  <2>1. next # b /\ next \in Page(height[p], q, b)
    BY <1>4a, <1>5 DEF Continues
  <2>2. next \in Row /\ After(b, next)
    BY <2>1, PageRows DEF ListInv
  <2>3. next # Start
    BY <2>2, QueryAssumption
  <2>4. /\ marks \in Seq(Row \cup {Start})
        /\ Len(marks) = Len(lists[r].bookmarks) + 1
        /\ \A i \in 1 .. Len(lists[r].bookmarks) : marks[i] = lists[r].bookmarks[i]
        /\ marks[Len(marks)] = next
    BY <1>2, <2>2, AppendProperties
  <2>5. Advancing(marks)
    <3> SUFFICES ASSUME NEW i \in DOMAIN marks, NEW j \in DOMAIN marks, i + 1 = j
                 PROVE  marks[j] # Start /\ After(marks[i], marks[j])
      BY DEF Advancing
    <3>1. i \in 1 .. Len(lists[r].bookmarks) /\ j \in 1 .. Len(lists[r].bookmarks) + 1
      BY <1>2, <2>4
    <3>2. CASE j = Len(lists[r].bookmarks) + 1
      BY <1>2, <2>2, <2>3, <2>4, <3>1, <3>2 DEF LastOf
    <3>3. CASE j # Len(lists[r].bookmarks) + 1
      BY <1>1, <1>2, <2>4, <3>1, <3>3 DEF GoodList, Advancing
    <3> QED BY <3>2, <3>3
  <2>6. l \in List /\ l.pc = "collect" /\ l.query = q /\ l.bookmarks = marks
    BY <1>1, <1>2, <2>4 DEF List
  <2>7. GoodList(l)
    BY <1>2, <2>4, <2>5, <2>6 DEF GoodList
  <2>8. lists' = [lists EXCEPT ![r] = l]
    BY <1>5
  <2> QED BY <1>1, <1>3, <2>7, <2>8, OneList
<1>6. CASE lists' = [lists EXCEPT ![r].pc = "page", ![r].index = Clamped(q, lists[r].bookmarks)]
  <2> DEFINE l == [lists[r] EXCEPT !.pc = "page", !.index = Clamped(q, lists[r].bookmarks)]
  <2>1. Clamped(q, lists[r].bookmarks) \in 1 .. Len(lists[r].bookmarks)
    BY <1>2 DEF Clamped
  <2>2. l \in List /\ l.pc = "page" /\ l.query = q /\ l.bookmarks = lists[r].bookmarks
        /\ l.index = Clamped(q, lists[r].bookmarks)
    <3>1. Clamped(q, lists[r].bookmarks) \in Int
      BY <1>2, <2>1
    <3> QED BY <1>2, <3>1 DEF List
  <2>3. DOMAIN lists[r].bookmarks = 1 .. Len(lists[r].bookmarks)
    BY <1>2
  <2>4. GoodList(l)
    BY <1>1, <1>2, <2>1, <2>2, <2>3 DEF GoodList
  <2>5. lists' = [lists EXCEPT ![r] = l]
    BY <1>6
  <2> QED BY <1>1, <1>3, <2>4, <2>5, OneList
<1> QED BY <1>4a, <1>5, <1>6

(* The page asked for is read behind a bookmark of the list.               *)
LEMMA FetchPageGood ==
    ASSUME ListInv, NEW r \in Readers, FetchPage(r)
    PROVE  ListInv'
<1>1. GoodList(lists[r]) /\ lists[r].pc = "page" /\ calm' = calm /\ UNCHANGED height
  BY GoodLists DEF FetchPage, ledgerVars
<1>2. PICK p \in Peers : lists' = [lists EXCEPT ![r].pc = "last",
          ![r].certs = Page(height[p], lists[r].query, lists[r].bookmarks[lists[r].index])]
  BY DEF FetchPage
<1> DEFINE page == Page(height[p], lists[r].query, lists[r].bookmarks[lists[r].index])
           l    == [lists[r] EXCEPT !.pc = "last", !.certs = page]
<1>3. page \subseteq Row
  BY PageRows DEF ListInv
<1>4. /\ l \in List /\ l.pc = "last" /\ l.query = lists[r].query
      /\ l.bookmarks = lists[r].bookmarks /\ l.index = lists[r].index
  BY <1>1, <1>3 DEF List, GoodList
<1>5. GoodList(l)
  BY <1>1, <1>4 DEF GoodList
<1>6. lists' = [lists EXCEPT ![r] = l]
  BY <1>2
<1>7. calm' \in [Readers -> BOOLEAN]
  BY <1>1 DEF ListInv, TypeOK
<1> QED BY <1>1, <1>5, <1>6, <1>7, OneList

(* The answer is a list, its count a number.                               *)
LEMMA ReplyGood ==
    ASSUME ListInv, NEW r \in Readers, lists[r].pc \notin {"unsent", "done"},
           NEW full \in Int, NEW n \in Nat, Reply(r, full, n),
           UNCHANGED calm, UNCHANGED height
    PROVE  ListInv'
<1> DEFINE count == lists[r].query.pageSize * full + n
           l     == [lists[r] EXCEPT !.pc = "done", !.code = 200, !.count = count]
<1>1. GoodList(lists[r]) /\ lists[r].query.pageSize \in Int
  BY GoodLists, QueryAssumption DEF GoodList, AnyQuery
<1>2. count \in Int
  BY <1>1
<1>3. l \in List
  <2> DEFINE k1 == [lists[r] EXCEPT !.pc = "done"]
             k2 == [k1 EXCEPT !.code = 200]
  <2>1. /\ \A k \in List : [k EXCEPT !.pc = "done"] \in List
        /\ \A k \in List : [k EXCEPT !.code = 200] \in List
    BY DEF List
  <2>2. \A k \in List, m \in Int : [k EXCEPT !.count = m] \in List
    BY DEF List
  <2>3. lists[r] \in List
    BY <1>1 DEF GoodList
  <2>4. l = [k2 EXCEPT !.count = count]
    OBVIOUS
  <2>5. k1 \in List
    BY <2>1, <2>3
  <2> HIDE DEF k1
  <2>6. k2 \in List
    BY <2>1, <2>5
  <2> HIDE DEF k2, count, l
  <2> QED BY <1>2, <2>2, <2>4, <2>6
<1>3a. l.pc = "done" /\ l.bookmarks = lists[r].bookmarks
  BY <1>1 DEF GoodList, List
<1>4. GoodList(l)
  BY <1>1, <1>3, <1>3a DEF GoodList
<1>5. lists' = [lists EXCEPT ![r] = l]
  BY DEF Reply
<1>6. calm' \in [Readers -> BOOLEAN]
  BY DEF ListInv, TypeOK
<1> QED BY <1>4, <1>5, <1>6, OneList

(* The page after the last bookmark is read, or the one before it            *)
(* (certificateIO.go:478-495).                                              *)
LEMMA FetchLastGood ==
    ASSUME ListInv, NEW r \in Readers, FetchLast(r)
    PROVE  ListInv'
<1> DEFINE marks == lists[r].bookmarks
           count(p) == PageCount(lists[r].query, LastOf(marks),
                                 Page(height[p], lists[r].query, LastOf(marks)))
<1>1. GoodList(lists[r]) /\ lists[r].pc = "last" /\ UNCHANGED calm /\ UNCHANGED height
  BY GoodLists DEF FetchLast, ledgerVars
<1>2. Len(marks) \in Nat /\ calm' \in [Readers -> BOOLEAN]
  BY <1>1 DEF GoodList, List, ListInv, TypeOK
<1>3. ASSUME NEW p \in Peers, Reply(r, Len(marks) - 1, count(p))
      PROVE  ListInv'
  <2>1. count(p) \in Nat
    BY PageRows DEF ListInv
  <2> QED BY <1>1, <1>2, <1>3, <2>1, ReplyGood
<1>4. ASSUME Len(marks) > 1, lists' = [lists EXCEPT ![r].pc = "lastButOne"]
      PROVE  ListInv'
  <2> DEFINE l == [lists[r] EXCEPT !.pc = "lastButOne"]
  <2>1. l \in List /\ l.pc = "lastButOne" /\ l.query = lists[r].query /\ l.bookmarks = marks
    BY <1>1 DEF List, GoodList
  <2>2. GoodList(l)
    BY <1>1, <1>2, <1>4, <2>1 DEF GoodList
  <2>3. lists' = [lists EXCEPT ![r] = l]
    BY <1>4
  <2> QED BY <1>1, <1>2, <2>2, <2>3, OneList
<1> QED BY <1>3, <1>4 DEF FetchLast

(* The page before the last bookmark is read.                              *)
LEMMA FetchLastButOneGood ==
    ASSUME ListInv, NEW r \in Readers, FetchLastButOne(r)
    PROVE  ListInv'
<1> DEFINE marks == lists[r].bookmarks
           b     == marks[Len(marks) - 1]
<1>1. GoodList(lists[r]) /\ lists[r].pc = "lastButOne" /\ UNCHANGED calm /\ UNCHANGED height
  BY GoodLists DEF FetchLastButOne, ledgerVars
<1>2. Len(marks) - 2 \in Int
  BY <1>1 DEF GoodList, List
<1>3. PICK p \in Peers :
        Reply(r, Len(marks) - 2, PageCount(lists[r].query, b, Page(height[p], lists[r].query, b)))
  BY DEF FetchLastButOne
<1>4. PageCount(lists[r].query, b, Page(height[p], lists[r].query, b)) \in Nat
  BY PageRows DEF ListInv
<1> QED BY <1>1, <1>2, <1>3, <1>4, ReplyGood

-----------------------------------------------------------------------------
(* No request is received at first.                                        *)
LEMMA ListInitInv == Init => ListInv
<1> SUFFICES ASSUME Init PROVE ListInv
  OBVIOUS
<1>1. height \in [Peers -> Nat] /\ calm \in [Readers -> BOOLEAN]
      /\ lists = [r \in Readers |-> Unsent]
  BY DEF Init
<1>2. <<>> \in Seq(Row \cup {Start})
  OBVIOUS
<1>3. Unsent \in List
  BY <1>2 DEF Unsent, Fresh, List
<1>4. Unsent.pc = "unsent" /\ Unsent.bookmarks = <<>>
  BY FreshFields DEF Unsent
<1> QED BY <1>1, <1>3, <1>4 DEF ListInv, TypeOK, Begun, BookmarksAdvance

(* A block, and a peer that commits one, leave the handlers as they are.   *)
LEMMA LedgerGood ==
    ASSUME ListInv, UNCHANGED lists, calm' \in [Readers -> BOOLEAN],
           height' \in [Peers -> Nat]
    PROVE  ListInv'
BY DEF ListInv, TypeOK, Begun, BookmarksAdvance, After

(* Every step keeps the invariant.                                         *)
LEMMA ListStep == ListInv /\ [Next]_vars => ListInv'
<1> SUFFICES ASSUME ListInv, [Next]_vars PROVE ListInv'
  OBVIOUS
<1>1. ASSUME NEW r \in Readers, NEW q \in Query, Receive(r, q) PROVE ListInv'
  BY <1>1, ReceiveGood
<1>2. ASSUME NEW r \in Readers, ReceiveUndecodable(r) PROVE ListInv'
  BY <1>2, RefusedIsGood DEF ReceiveUndecodable, ListInv, TypeOK, ledgerVars
<1>3. ASSUME NEW r \in Readers, HandlerStep(r) PROVE ListInv'
  BY <1>3, CollectGood, FetchPageGood, FetchLastGood, FetchLastButOneGood DEF HandlerStep
<1>4. ASSUME NEW r \in Readers, QueryFails(r) PROVE ListInv'
  BY <1>4, RefusedIsGood DEF QueryFails, ListInv, TypeOK, Begun, ledgerVars
<1>5. CASE OrderWrite
  BY <1>5, LedgerGood DEF OrderWrite, Order, ListInv
<1>6. ASSUME NEW p \in Peers, Commit(p) PROVE ListInv'
  BY <1>6, LedgerGood DEF Commit, PeerCommit, ListInv, TypeOK
<1>7. CASE UNCHANGED vars
  BY <1>7, LedgerGood DEF vars, ledgerVars, ListInv, TypeOK
<1> QED BY <1>1, <1>2, <1>3, <1>4, <1>5, <1>6, <1>7 DEF Next

(* The invariant of all lists.                                             *)
THEOREM ListInvariant == Spec => []ListInv
<1>1. Init => ListInv
  BY ListInitInv
<1>2. ListInv /\ [Next]_vars => ListInv'
  BY ListStep
<1> QED BY <1>1, <1>2, PTL DEF Spec

(* Type correctness: no index into the bookmarks is out of range, whatever  *)
(* page and page size a client asks for (certificateIO.go:446-499).         *)
THEOREM ListsTyped == Spec => []TypeOK
<1>1. ListInv => TypeOK
  BY DEF ListInv
<1> QED BY <1>1, ListInvariant, PTL

(* The bookmarks advance down the list, so that the loop that collects them *)
(* ends (certificateIO.go:453-466), however many certificates are written   *)
(* and however far the peers are apart.                                     *)
THEOREM BookmarksDoAdvance == Spec => []BookmarksAdvance
<1>1. ListInv => BookmarksAdvance
  BY DEF ListInv
<1> QED BY <1>1, ListInvariant, PTL


-----------------------------------------------------------------------------
(***************************************************************************)
(* Places in a list, and its pages.                                        *)
(***************************************************************************)

(* The order of a list is strict and total on rows.                        *)
LEMMA RowsOrdered ==
    ASSUME NEW a \in Row, NEW b \in Row, NEW c \in Row
    PROVE  /\ ~ Precedes(a, a)
           /\ a # b => Precedes(a, b) \/ Precedes(b, a)
           /\ ~ (Precedes(a, b) /\ Precedes(b, a))
           /\ Precedes(a, b) /\ Precedes(b, c) => Precedes(a, c)
<1>1. \A x \in Row : /\ x.date \in Nat /\ Rank[x.cert] \in Nat
                     /\ x.cert \in Certs /\ x = [cert |-> x.cert, date |-> x.date]
  <2> SUFFICES ASSUME NEW x \in Row
               PROVE  /\ x.date \in Nat /\ Rank[x.cert] \in Nat
                      /\ x.cert \in Certs /\ x = [cert |-> x.cert, date |-> x.date]
    OBVIOUS
  <2>1. x.cert \in Certs /\ x.date \in Dates /\ x = [cert |-> x.cert, date |-> x.date]
    BY DEF Row
  <2>2. Dates \subseteq Nat /\ Rank \in [Certs -> Nat]
    BY QueryAssumption
  <2> QED BY <2>1, <2>2
<1>2. \A x, y \in Row : x.date = y.date /\ Rank[x.cert] = Rank[y.cert] => x = y
  BY <1>1, QueryAssumption
<1> QED BY <1>1, <1>2 DEF Precedes

(* The places of the rows of a finite list are the numbers from 1 to their  *)
(* number, in the order of the list.                                       *)
LEMMA Places ==
    ASSUME NEW rows, IsFiniteSet(rows), rows \subseteq Row
    PROVE  /\ Cardinality(rows) \in Nat
           /\ \A row \in rows : Place(row, rows) \in 1 .. Cardinality(rows)
           /\ \A a, b \in rows : Precedes(a, b) <=> Place(a, rows) < Place(b, rows)
           /\ \A i \in 1 .. Cardinality(rows) : \E row \in rows : Place(row, rows) = i
<1> DEFINE before(row) == {s \in rows : Precedes(s, row)}
           n == Cardinality(rows)
<1>1. n \in Nat
  BY FS_CardinalityType
<1>2. ASSUME NEW row \in rows
      PROVE  IsFiniteSet(before(row)) /\ Cardinality(before(row)) \in Nat /\ Cardinality(before(row)) < n
  <2>1. before(row) \in SUBSET rows
    OBVIOUS
  <2>2. row \notin before(row)
    BY RowsOrdered
  <2>3. IsFiniteSet(before(row)) /\ Cardinality(before(row)) <= n
    BY <2>1, FS_Subset
  <2>4. Cardinality(before(row)) # n
    BY <2>1, <2>2, FS_Subset
  <2>5. Cardinality(before(row)) \in Nat
    BY <2>3, FS_CardinalityType
  <2> QED BY <1>1, <2>3, <2>4, <2>5
<1>2a. \A row \in rows : Place(row, rows) = Cardinality(before(row)) + 1
  BY DEF Place
<1>3. ASSUME NEW row \in rows PROVE Place(row, rows) \in 1 .. n
  <2> DEFINE k == Cardinality(before(row))
  <2>1. k \in Nat /\ k < n /\ Place(row, rows) = k + 1
    BY <1>2, <1>2a
  <2> HIDE DEF k, n
  <2> QED BY <1>1, <2>1
<1>4. ASSUME NEW a \in rows, NEW b \in rows, Precedes(a, b)
      PROVE  Place(a, rows) < Place(b, rows)
  <2>1. before(a) \in SUBSET before(b) /\ a \in before(b) /\ a \notin before(a)
    BY <1>4, RowsOrdered
  <2>2. Cardinality(before(a)) <= Cardinality(before(b)) /\ Cardinality(before(a)) # Cardinality(before(b))
    BY <1>2, <2>1, FS_Subset
  <2>3. /\ Cardinality(before(a)) \in Nat /\ Cardinality(before(b)) \in Nat
        /\ Place(a, rows) = Cardinality(before(a)) + 1
        /\ Place(b, rows) = Cardinality(before(b)) + 1
    BY <1>2, <1>2a
  <2> HIDE DEF before
  <2> QED BY <2>2, <2>3
<1>5. ASSUME NEW a \in rows, NEW b \in rows PROVE Precedes(a, b) <=> Place(a, rows) < Place(b, rows)
  <2>1. CASE Precedes(a, b)
    BY <1>4, <2>1
  <2>2. CASE ~ Precedes(a, b)
    <3>1. a = b \/ Precedes(b, a)
      BY <2>2, RowsOrdered
    <3>2. Place(b, rows) <= Place(a, rows)
      BY <1>3, <1>4, <3>1
    <3> QED BY <1>3, <2>2, <3>2
  <2> QED BY <2>1, <2>2
<1>6. ASSUME NEW i \in 1 .. n PROVE \E row \in rows : Place(row, rows) = i
  <2> DEFINE f == [row \in rows |-> Place(row, rows)]
  <2>1. f \in Injection(rows, 1 .. n)
    <3>1. f \in [rows -> 1 .. n]
      BY <1>3
    <3>2. ASSUME NEW a \in rows, NEW b \in rows, f[a] = f[b] PROVE a = b
      <4>1. Place(a, rows) = Place(b, rows)
        BY <3>2
      <4>2. ~ Precedes(a, b) /\ ~ Precedes(b, a)
        BY <1>3, <1>5, <4>1
      <4> QED BY <4>2, RowsOrdered
    <3> QED BY <3>1, <3>2 DEF Injection, IsInjective
  <2>2. IsFiniteSet(1 .. n) /\ Cardinality(1 .. n) = n
    BY <1>1, FS_Interval
  <2>3. f \in Surjection(rows, 1 .. n)
    BY <2>1, <2>2, FS_Injection
  <2> QED BY <2>3 DEF Surjection
<1> QED BY <1>1, <1>3, <1>5, <1>6

(* As many rows as places lie between two of them.                         *)
LEMMA PlacesBetween ==
    ASSUME NEW rows, IsFiniteSet(rows), rows \subseteq Row,
           NEW a \in Nat, NEW c \in Nat, a <= c, c <= Cardinality(rows)
    PROVE  Cardinality({row \in rows : a < Place(row, rows) /\ Place(row, rows) <= c}) = c - a
<1> DEFINE S == {row \in rows : a < Place(row, rows) /\ Place(row, rows) <= c}
           f == [row \in S |-> Place(row, rows)]
           n == Cardinality(rows)
<1>1. /\ n \in Nat
      /\ \A row \in rows : Place(row, rows) \in 1 .. n
      /\ \A x, y \in rows : Precedes(x, y) <=> Place(x, rows) < Place(y, rows)
      /\ \A i \in 1 .. n : \E row \in rows : Place(row, rows) = i
  BY Places
<1>2. f \in [S -> a + 1 .. c]
  <2> SUFFICES ASSUME NEW row \in S PROVE Place(row, rows) \in a + 1 .. c
    OBVIOUS
  <2>1. Place(row, rows) \in 1 .. n /\ a < Place(row, rows) /\ Place(row, rows) <= c
    BY <1>1
  <2> QED BY <1>1, <2>1
<1>3. IsInjective(f)
  <2> SUFFICES ASSUME NEW x \in S, NEW y \in S, Place(x, rows) = Place(y, rows)
               PROVE  x = y
    BY DEF IsInjective
  <2>1. x \in rows /\ y \in rows /\ Place(x, rows) \in Int
    BY <1>1
  <2>2. ~ Precedes(x, y) /\ ~ Precedes(y, x)
    BY <1>1, <2>1
  <2> QED BY <2>1, <2>2, RowsOrdered
<1>4. \A i \in a + 1 .. c : \E x \in S : f[x] = i
  <2> SUFFICES ASSUME NEW i \in a + 1 .. c PROVE \E x \in S : Place(x, rows) = i
    OBVIOUS
  <2>1. i \in 1 .. n /\ a < i /\ i <= c
    BY <1>1
  <2>2. PICK x \in rows : Place(x, rows) = i
    BY <1>1, <2>1
  <2> QED BY <2>1, <2>2
<1>5. IsFiniteSet(S)
  BY FS_Subset
<1>6. Cardinality(a + 1 .. c) = Cardinality(S)
  <2>1. f \in Bijection(S, a + 1 .. c)
    BY <1>2, <1>3, <1>4 DEF Bijection, Injection, Surjection
  <2>2. ExistsBijection(S, a + 1 .. c)
    BY <2>1 DEF ExistsBijection
  <2> QED BY <1>5, <2>2, FS_Bijection
<1>7. Cardinality(a + 1 .. c) = c - a
  <2>1. a + 1 \in Int /\ c \in Int
    OBVIOUS
  <2>2. Cardinality(a + 1 .. c) = IF a + 1 > c THEN 0 ELSE c - (a + 1) + 1
    BY <2>1, FS_Interval
  <2> QED BY <2>2
<1> QED BY <1>6, <1>7

(* How many rows a bookmark has passed.                                    *)
Passed(b, rows) == IF b = Start THEN 0 ELSE Place(b, rows)

Least(m, n) == IF m < n THEN m ELSE n

(* The page behind a bookmark has the rows of the next places, as many as   *)
(* there are up to the limit, and leads to the last of them.               *)
LEMMA PageBetween ==
    ASSUME NEW rows, IsFiniteSet(rows), rows \subseteq Row, NEW b, b = Start \/ b \in rows,
           NEW limit \in Nat \ {0},
           NEW page, page = FirstOf(limit, {row \in rows : After(b, row)}),
           NEW p, p = Passed(b, rows), NEW n, n = Cardinality(rows)
    PROVE  /\ n \in Nat /\ p \in 0 .. n /\ Least(p + limit, n) \in p .. n
           /\ \A row \in rows : Place(row, rows) \in 1 .. n
           /\ page = {row \in rows : p < Place(row, rows) /\ Place(row, rows) <= p + limit}
           /\ Cardinality(page) = Least(p + limit, n) - p
           /\ IsFiniteSet(page)
           /\ \A next \in page : (\A row \in page : row = next \/ Precedes(row, next)) =>
                  Place(next, rows) = Least(p + limit, n)
<1> DEFINE behind == {row \in rows : After(b, row)}
           top    == Least(p + limit, n)
<1>1. /\ n \in Nat
      /\ \A row \in rows : Place(row, rows) \in 1 .. n
      /\ \A x, y \in rows : Precedes(x, y) <=> Place(x, rows) < Place(y, rows)
      /\ \A i \in 1 .. n : \E row \in rows : Place(row, rows) = i
  BY Places
<1>2. p \in 0 .. n /\ p \in Nat /\ top \in p .. n /\ top \in Nat /\ top <= p + limit
  BY <1>1 DEF Passed, Least
<1>3. \A row \in rows : After(b, row) <=> p < Place(row, rows)
  <2> SUFFICES ASSUME NEW row \in rows PROVE After(b, row) <=> p < Place(row, rows)
    OBVIOUS
  <2>1. CASE b = Start
    BY <1>1, <2>1 DEF After, Passed
  <2>2. CASE b # Start
    BY <1>1, <2>2 DEF After, Passed
  <2> QED BY <2>1, <2>2
<1>4. ASSUME NEW row \in rows, p < Place(row, rows)
      PROVE  Cardinality({s \in behind : Precedes(s, row)}) = Place(row, rows) - 1 - p
  <2> DEFINE c == Place(row, rows) - 1
  <2>1. Place(row, rows) \in 1 .. n /\ c \in Nat /\ c <= n /\ p <= c
    BY <1>1, <1>2, <1>4
  <2>2. {s \in behind : Precedes(s, row)} =
            {s \in rows : p < Place(s, rows) /\ Place(s, rows) <= c}
    <3> SUFFICES ASSUME NEW s \in rows
                 PROVE  After(b, s) /\ Precedes(s, row) <=>
                            p < Place(s, rows) /\ Place(s, rows) <= c
      OBVIOUS
    <3>1. Place(s, rows) \in Int /\ Place(row, rows) \in Int
      BY <1>1
    <3>2. Precedes(s, row) <=> Place(s, rows) < Place(row, rows)
      BY <1>1
    <3> QED BY <1>3, <3>1, <3>2
  <2>3. Cardinality({s \in rows : p < Place(s, rows) /\ Place(s, rows) <= c}) = c - p
    <3> HIDE DEF c
    <3> QED BY <1>2, <2>1, PlacesBetween
  <2> QED BY <2>2, <2>3
<1>5. page = {row \in rows : p < Place(row, rows) /\ Place(row, rows) <= p + limit}
  <2> SUFFICES ASSUME NEW row \in rows
               PROVE  row \in page <=> p < Place(row, rows) /\ Place(row, rows) <= p + limit
    BY DEF FirstOf
  <2>1. row \in page <=> After(b, row) /\ Cardinality({s \in behind : Precedes(s, row)}) < limit
    BY DEF FirstOf
  <2>2. Place(row, rows) \in Int
    BY <1>1
  <2> HIDE DEF behind
  <2> QED BY <1>2, <1>3, <1>4, <2>1, <2>2
<1>6. page = {row \in rows : p < Place(row, rows) /\ Place(row, rows) <= top}
  BY <1>1, <1>2, <1>5 DEF Least
<1>7. Cardinality(page) = top - p
  <2> HIDE DEF top
  <2>1. p <= top /\ top <= n
    BY <1>1, <1>2
  <2>2. Cardinality({row \in rows : p < Place(row, rows) /\ Place(row, rows) <= top}) = top - p
    BY <1>2, <2>1, PlacesBetween
  <2> QED BY <1>6, <2>2
<1>8. IsFiniteSet(page)
  BY <1>5, FS_Subset
<1>9. ASSUME NEW next \in page, \A row \in page : row = next \/ Precedes(row, next)
      PROVE  Place(next, rows) = top
  <2> HIDE DEF top
  <2>1. next \in rows /\ p < Place(next, rows) /\ Place(next, rows) <= top
        /\ Place(next, rows) \in Int
    BY <1>1, <1>6
  <2>2. top \in 1 .. n /\ p < top
    BY <1>1, <1>2, <2>1
  <2>3. PICK row \in rows : Place(row, rows) = top
    BY <1>1, <2>2
  <2>4. row \in page
    BY <1>2, <1>6, <2>2, <2>3
  <2>5. Place(row, rows) <= Place(next, rows)
    BY <1>1, <1>9, <2>1, <2>3, <2>4
  <2> QED BY <1>2, <2>1, <2>3, <2>5
<1> QED BY <1>1, <1>2, <1>5, <1>7, <1>8, <1>9

(* Division rounds up.                                                     *)
LEMMA CeilIs ==
    ASSUME NEW n \in Nat, NEW d \in Nat \ {0}, NEW c \in Nat
    PROVE  Ceil(n, d) = c <=> (n <= c * d /\ (c = 0 \/ (c - 1) * d < n))
<1> DEFINE e == Ceil(n, d)
<1>1. e \in Nat /\ e * d <= n + d - 1 /\ n + d - 1 < (e + 1) * d
  BY DEF Ceil
<1> QED BY <1>1


-----------------------------------------------------------------------------
(***************************************************************************)
(* Lists that nothing disturbs.                                            *)
(***************************************************************************)

(* The bookmarks of a list with these rows are those of its pages: each     *)
(* has passed as many full pages as there are bookmarks before it.         *)
MarksExact(q, marks, rows) ==
    /\ marks[1] = Start
    /\ \A k \in DOMAIN marks :
          /\ k > 1 => marks[k] \in rows /\ (k - 2) * Limit(q) < Cardinality(rows)
          /\ Passed(marks[k], rows) = Least((k - 1) * Limit(q), Cardinality(rows))
    /\ q.pageSize = 0 => Len(marks) = 1

(* All pages have been passed, and the index is that of the page asked for. *)
Complete(l, rows) ==
    /\ l.query.pageSize # 0 => (Len(l.bookmarks) - 1) * Limit(l.query) >= Cardinality(rows)
    /\ l.index = Clamped(l.query, l.bookmarks)

PageOf(q, b, rows) == FirstOf(Limit(q), {row \in rows : After(b, row)})

(* What QuietListIsExact says of an answer.                                *)
Exact(l, rows) ==
    LET q    == l.query
        last == Ceil(Cardinality(rows), Limit(q)) + 1
    IN  /\ q.pageSize # 0 =>
              /\ l.index = IF q.pageIndex < last THEN q.pageIndex ELSE last
              /\ l.certs = {row \in rows : Ceil(Place(row, rows), Limit(q)) = l.index}
        /\ q.pageSize = Limit(q) \/ (q.pageSize # 0 /\ Cardinality(rows) <= TotalLimit) =>
              l.count = Cardinality(rows)
        /\ q.pageSize = 0 => l.count = 0 /\ l.certs = FirstOf(TotalLimit, rows)

(* How far a handler has come in a list with these rows.                   *)
QuietList(l, rows) ==
    /\ l.pc \notin {"unsent", "done"} => l.code = 0 /\ MarksExact(l.query, l.bookmarks, rows)
    /\ l.pc \in {"page", "last", "lastButOne"} => Complete(l, rows)
    /\ l.pc \in {"last", "lastButOne"} =>
          l.certs = PageOf(l.query, l.bookmarks[l.index], rows)
    /\ l.pc = "lastButOne" => l.index \in DOMAIN l.bookmarks
    /\ l.code = 200 => Exact(l, rows)

(* What is in the chain.                                                   *)
Blocks == {chain[i] : i \in DOMAIN chain}

(* The invariant: while nothing is committed, the peers agree.             *)
QuietInv ==
    /\ chain \in Seq(Blocks)
    /\ \A r \in Readers :
          /\ lists[r].pc = "unsent" => lists[r].code = 0
          /\ calm[r] => /\ \A p \in Peers : height[p] = Len(chain)
                        /\ QuietList(lists[r], Matching(lists[r].query))

(* A query's page size, limit and page.                                    *)
LEMMA QueryFields ==
    ASSUME NEW q \in Query
    PROVE  /\ q.pageSize \in Int /\ q.pageIndex \in Int
           /\ Limit(q) \in Nat \ {0}
           /\ q.pageSize # Limit(q) => q.pageSize <= 0 \/ Limit(q) = TotalLimit
           /\ q.pageSize = 0 => Limit(q) = TotalLimit
           /\ \A b : Paginated(q, b) <=> ~ (q.pageSize = 0 /\ b = Start)
<1>1. q.pageSize \in Int /\ q.pageIndex \in Int /\ TotalLimit \in Nat \ {0}
  BY QueryAssumption DEF AnyQuery
<1> QED BY <1>1 DEF Limit, Paginated

(* The rows of a quiet list.                                               *)
LEMMA MatchingRows ==
    ASSUME chain \in Seq(Blocks), NEW q
    PROVE  IsFiniteSet(Matching(q)) /\ Matching(q) \subseteq Row
<1>1. Len(chain) \in Nat
  BY LenProperties
<1> QED BY <1>1, RowsFinite DEF Matching, RowsAt

(* A page that a peer gives then.                                          *)
LEMMA QuietPage ==
    ASSUME NEW p, height[p] = Len(chain), NEW q, NEW b
    PROVE  Page(height[p], q, b) = PageOf(q, b, Matching(q))
BY DEF Page, PageOf, Matching

(* The counts of the pages behind two bookmarks.                           *)
LEMMA MarkedPage ==
    ASSUME NEW rows, IsFiniteSet(rows), rows \subseteq Row, NEW q \in Query,
           NEW marks \in Seq(Row \cup {Start}), MarksExact(q, marks, rows), NEW k \in DOMAIN marks,
           NEW n, n = Cardinality(rows), NEW limit, limit = Limit(q),
           NEW page, page = PageOf(q, marks[k], rows)
    PROVE  /\ n \in Nat /\ Least((k - 1) * limit, n) \in 0 .. n
           /\ \A row \in rows : Place(row, rows) \in 1 .. n
           /\ page = {row \in rows : /\ Least((k - 1) * limit, n) < Place(row, rows)
                                     /\ Place(row, rows) <= Least((k - 1) * limit, n) + limit}
           /\ Cardinality(page) = Least(Least((k - 1) * limit, n) + limit, n)
                                      - Least((k - 1) * limit, n)
           /\ IsFiniteSet(page) /\ page \subseteq rows
           /\ \A next \in page : (\A row \in page : row = next \/ Precedes(row, next)) =>
                  Place(next, rows) = Least(Least((k - 1) * limit, n) + limit, n)
<1>1. /\ marks[k] = Start \/ marks[k] \in rows
      /\ Passed(marks[k], rows) = Least((k - 1) * limit, n)
  <2>1. k \in Nat /\ (k = 1 \/ k > 1)
    BY LenProperties
  <2> QED BY <2>1 DEF MarksExact
<1>2. limit \in Nat \ {0}
  BY QueryFields
<1>3. page = FirstOf(limit, {row \in rows : After(marks[k], row)})
  BY DEF PageOf
<1>4. page \subseteq rows
  BY <1>3 DEF FirstOf
<1> QED BY <1>1, <1>2, <1>3, <1>4, PageBetween


(* A turn of the loop finds the bookmark of the next page, or that there is *)
(* none.                                                                   *)
LEMMA NextMark ==
    ASSUME NEW rows, IsFiniteSet(rows), rows \subseteq Row, NEW q \in Query,
           NEW marks \in Seq(Row \cup {Start}), Len(marks) >= 1, MarksExact(q, marks, rows),
           NEW page, page = PageOf(q, LastOf(marks), rows),
           NEW next, IsBookmark(next, q, LastOf(marks), page),
           NEW n, n = PageCount(q, LastOf(marks), page)
    PROVE  /\ Continues(n, next, LastOf(marks)) => MarksExact(q, Append(marks, next), rows)
           /\ EndOfPages(n, next, LastOf(marks)) /\ q.pageSize # 0 =>
                  (Len(marks) - 1) * Limit(q) >= Cardinality(rows)
<1> DEFINE k     == Len(marks)
           limit == Limit(q)
           size  == Cardinality(rows)
           done  == (k - 1) * limit
           p     == Least(done, size)
<1>1. k \in DOMAIN marks /\ k \in Nat /\ k >= 1 /\ LastOf(marks) = marks[k]
      /\ DOMAIN marks = 1 .. k
  BY LenProperties DEF LastOf
<1>2. limit \in Nat \ {0} /\ done \in Nat /\ k * limit = done + limit
  <2>1. limit \in Nat \ {0}
    BY QueryFields
  <2> HIDE DEF limit, k
  <2> QED BY <1>1, <2>1
<1>3. /\ size \in Nat /\ p \in 0 .. size
      /\ \A row \in rows : Place(row, rows) \in 1 .. size
      /\ page = {row \in rows : p < Place(row, rows) /\ Place(row, rows) <= p + limit}
      /\ Cardinality(page) = Least(p + limit, size) - p
      /\ IsFiniteSet(page) /\ page \subseteq rows
      /\ \A x \in page : (\A row \in page : row = x \/ Precedes(row, x)) =>
             Place(x, rows) = Least(p + limit, size)
  BY <1>1, MarkedPage
<1>4. Passed(marks[k], rows) = p /\ (marks[k] = Start \/ marks[k] \in rows)
  BY <1>1 DEF MarksExact
<1>5. Paginated(q, marks[k]) <=> q.pageSize # 0
  <2>1. q.pageSize = 0 => k = 1 /\ marks[1] = Start
    BY DEF MarksExact
  <2> QED BY <2>1, QueryFields
<1> HIDE DEF k, limit, size, done
<1>6. ASSUME Continues(n, next, marks[k]) PROVE MarksExact(q, Append(marks, next), rows)
  <2>1. q.pageSize # 0 /\ n = Cardinality(page) /\ n # 0
    BY <1>1, <1>5, <1>6 DEF Continues, PageCount
  <2>2. page # {}
    BY <2>1, FS_EmptySet
  <2>3. next \in page /\ Place(next, rows) = Least(p + limit, size)
    BY <1>1, <1>3, <1>5, <2>1, <2>2 DEF IsBookmark
  <2>4. next \in rows /\ next # Start /\ Passed(next, rows) = Place(next, rows)
    BY <1>3, <2>3, QueryAssumption DEF Passed
  <2>5. done < size /\ p = done
    BY <1>2, <1>3, <2>1 DEF Least
  <2> DEFINE new == Append(marks, next)
  <2>6. /\ Len(new) = k + 1 /\ DOMAIN new = 1 .. k + 1
        /\ \A j \in 1 .. k : new[j] = marks[j]
        /\ new[k + 1] = next
    <3>1. next \in Row \cup {Start}
      BY <2>4
    <3>2. /\ new \in Seq(Row \cup {Start}) /\ Len(new) = Len(marks) + 1
          /\ \A j \in 1 .. Len(marks) : new[j] = marks[j]
          /\ new[Len(marks) + 1] = next
      BY <3>1, AppendProperties
    <3> QED BY <3>2, LenProperties DEF k
  <2> HIDE DEF new
  <2>7. new[1] = Start
    BY <1>1, <2>6 DEF MarksExact
  <2>8. ASSUME NEW j \in DOMAIN new
        PROVE  /\ j > 1 => new[j] \in rows /\ (j - 2) * limit < size
               /\ Passed(new[j], rows) = Least((j - 1) * limit, size)
    <3>1. CASE j \in 1 .. k
      <4>1. new[j] = marks[j] /\ j \in DOMAIN marks
        BY <1>1, <2>6, <3>1
      <4> QED BY <4>1 DEF MarksExact, limit, size
    <3>2. CASE j = k + 1
      <4>1. j - 2 = k - 1 /\ j - 1 = k /\ new[j] = next
        BY <1>1, <2>6, <3>2
      <4>2. (j - 2) * limit = done /\ (j - 1) * limit = done + limit
        BY <1>2, <4>1 DEF done
      <4> QED BY <2>3, <2>4, <2>5, <4>1, <4>2
    <3> QED BY <1>1, <2>6, <2>8, <3>1, <3>2
  <2> QED BY <2>1, <2>7, <2>8 DEF MarksExact, new, limit, size
<1>7. ASSUME EndOfPages(n, next, marks[k]), q.pageSize # 0 PROVE done >= size
  <2>1. n = Cardinality(page)
    BY <1>1, <1>5, <1>7 DEF PageCount
  <2>2. page = {}
    <3> SUFFICES ASSUME page # {} PROVE FALSE
      OBVIOUS
    <3>1. next \in page
      BY <1>1, <1>5, <1>7 DEF IsBookmark
    <3>2. next \in rows /\ next # Start /\ p < Place(next, rows)
      BY <1>3, <3>1, QueryAssumption
    <3>3. next # marks[k]
      BY <1>3, <1>4, <3>2 DEF Passed
    <3>4. n = 0
      BY <1>7, <3>3 DEF EndOfPages
    <3> QED BY <1>3, <2>1, <3>1, <3>4, FS_EmptySet
  <2>3. Cardinality(page) = 0
    BY <2>2, FS_EmptySet
  <2> QED BY <1>2, <1>3, <2>3 DEF Least
<1> QED BY <1>1, <1>6, <1>7 DEF k, limit, size, done

(* The page asked for, when all bookmarks have been collected.             *)
LEMMA ExactPage ==
    ASSUME NEW rows, IsFiniteSet(rows), rows \subseteq Row, NEW q \in Query, q.pageIndex >= 1,
           NEW marks \in Seq(Row \cup {Start}), Len(marks) >= 1, MarksExact(q, marks, rows),
           q.pageSize # 0, (Len(marks) - 1) * Limit(q) >= Cardinality(rows),
           NEW i, i = Clamped(q, marks)
    PROVE  /\ Ceil(Cardinality(rows), Limit(q)) + 1 = Len(marks)
           /\ PageOf(q, marks[i], rows) = {row \in rows : Ceil(Place(row, rows), Limit(q)) = i}
<1> DEFINE k     == Len(marks)
           limit == Limit(q)
           size  == Cardinality(rows)
           page  == PageOf(q, marks[i], rows)
           p     == Least((i - 1) * limit, size)
<1>1. k \in Nat /\ k >= 1 /\ DOMAIN marks = 1 .. k /\ limit \in Nat \ {0} /\ i \in 1 .. k
      /\ q.pageIndex \in Int
  <2>1. k \in Nat /\ DOMAIN marks = 1 .. k /\ limit \in Nat \ {0} /\ q.pageIndex \in Int
    BY QueryFields, LenProperties
  <2> QED BY <2>1 DEF Clamped
<1>2. /\ size \in Nat /\ p \in 0 .. size
      /\ \A row \in rows : Place(row, rows) \in 1 .. size
      /\ page = {row \in rows : p < Place(row, rows) /\ Place(row, rows) <= p + limit}
  BY <1>1, MarkedPage
<1>3. k - 1 \in Nat /\ size <= (k - 1) * limit /\ (k - 1 = 0 \/ (k - 1 - 1) * limit < size)
  <2>1. k > 1 => (k - 2) * limit < size
    <3>1. k \in DOMAIN marks
      BY <1>1
    <3> HIDE DEF k, limit, size
    <3> QED BY <3>1 DEF MarksExact, limit, size
  <2>2. k - 1 - 1 = k - 2
    BY <1>1
  <2>3. (k - 1) * limit >= size
    OBVIOUS
  <2>4. (k - 1) * limit \in Int
    BY <1>1
  <2> HIDE DEF k, limit, size
  <2> QED BY <1>1, <1>2, <2>1, <2>2, <2>3, <2>4
<1> HIDE DEF k, limit, size, page
<1>4. Ceil(size, limit) = k - 1
  BY <1>1, <1>2, <1>3, CeilIs
<1>5. ASSUME NEW row \in rows PROVE row \in page <=> Ceil(Place(row, rows), limit) = i
  <2> DEFINE place == Place(row, rows)
             done  == (i - 1) * limit
  <2>1. place \in 1 .. size /\ place \in Nat /\ i \in Nat /\ i # 0
        /\ done \in Nat /\ i * limit = done + limit
    BY <1>1, <1>2
  <2>2. row \in page <=> p < place /\ place <= p + limit
    BY <1>2
  <2>3. Ceil(place, limit) = i <=> place <= i * limit /\ done < place
    BY <1>1, <2>1, CeilIs
  <2> HIDE DEF place, done
  <2>4. p = Least(done, size)
    BY DEF done
  <2> HIDE DEF p
  <2> QED BY <1>1, <1>2, <2>1, <2>2, <2>3, <2>4 DEF Least, place
<1>6. page = {row \in rows : Ceil(Place(row, rows), limit) = i}
  BY <1>2, <1>5
<1> QED BY <1>1, <1>4, <1>6 DEF k, limit, size, page


(* The number of rows, from the pages after and before the last bookmark.   *)
LEMMA ExactCount ==
    ASSUME NEW rows, IsFiniteSet(rows), rows \subseteq Row, NEW q \in Query,
           NEW marks \in Seq(Row \cup {Start}), Len(marks) >= 1, MarksExact(q, marks, rows),
           q.pageSize # 0 => (Len(marks) - 1) * Limit(q) >= Cardinality(rows),
           NEW b, NEW n, n = PageCount(q, b, PageOf(q, b, rows))
    PROVE  /\ b = LastOf(marks) => n = 0
           /\ b = LastOf(marks) /\ Len(marks) <= 1 /\ q.pageSize # 0 => Cardinality(rows) = 0
           /\ Len(marks) > 1 /\ b = marks[Len(marks) - 1] =>
                  /\ q.pageSize # 0
                  /\ q.pageSize = Limit(q) \/ Cardinality(rows) <= TotalLimit =>
                         q.pageSize * (Len(marks) - 2) + n = Cardinality(rows)
<1> DEFINE k     == Len(marks)
           limit == Limit(q)
           size  == Cardinality(rows)
<1>1. k \in Nat /\ k >= 1 /\ DOMAIN marks = 1 .. k /\ limit \in Nat \ {0}
      /\ LastOf(marks) = marks[k] /\ size \in Nat
  BY QueryFields, LenProperties, FS_CardinalityType DEF LastOf
<1>2. /\ q.pageSize = 0 => k = 1 /\ marks[1] = Start
      /\ \A x : Paginated(q, x) <=> ~ (q.pageSize = 0 /\ x = Start)
  BY QueryFields DEF MarksExact
<1>3. q.pageSize # 0 => size <= (k - 1) * limit
  BY <1>1
<1>4. ASSUME NEW j \in DOMAIN marks, b = marks[j], q.pageSize # 0
      PROVE  n = Least(Least((j - 1) * limit, size) + limit, size) - Least((j - 1) * limit, size)
  <2>1. n = Cardinality(PageOf(q, b, rows))
    BY <1>2, <1>4 DEF PageCount
  <2> QED BY <1>4, <2>1, MarkedPage
<1> HIDE DEF k, limit, size
<1>5. ASSUME b = marks[k] PROVE n = 0
  <2>1. CASE q.pageSize = 0
    BY <1>2, <1>5, <2>1 DEF PageCount
  <2>2. CASE q.pageSize # 0
    <3> DEFINE done == (k - 1) * limit
    <3>1. done \in Nat /\ size <= done /\ k \in DOMAIN marks
      BY <1>1, <1>3, <2>2
    <3>2. n = Least(Least(done, size) + limit, size) - Least(done, size)
      BY <1>4, <1>5, <2>2, <3>1
    <3> HIDE DEF done
    <3> QED BY <1>1, <3>1, <3>2 DEF Least
  <2> QED BY <2>1, <2>2
<1>6. ASSUME k <= 1, q.pageSize # 0 PROVE size = 0
  <2>1. (k - 1) * limit = 0
    BY <1>1, <1>6
  <2> QED BY <1>1, <1>3, <1>6, <2>1
<1>7. ASSUME k > 1, b = marks[k - 1]
      PROVE  /\ q.pageSize # 0
             /\ q.pageSize = limit \/ size <= TotalLimit => q.pageSize * (k - 2) + n = size
  <2> DEFINE done == (k - 2) * limit
  <2>1. q.pageSize # 0
    BY <1>1, <1>2, <1>7
  <2>2. done < size
    <3>1. k \in DOMAIN marks
      BY <1>1
    <3> QED BY <1>7, <3>1 DEF MarksExact, limit, size
  <2>3. k - 2 \in Nat /\ done \in Nat /\ size <= done + limit
    <3>1. (k - 1) * limit = done + limit
      BY <1>1
    <3> QED BY <1>1, <1>3, <1>7, <2>1, <3>1
  <2>4. n = Least(Least(done, size) + limit, size) - Least(done, size)
    <3>1. k - 1 \in DOMAIN marks /\ k - 1 - 1 = k - 2
      BY <1>1, <1>7
    <3> QED BY <1>4, <1>7, <2>1, <3>1
  <2>5. n = size - done
    <3> HIDE DEF done
    <3> QED BY <1>1, <2>2, <2>3, <2>4 DEF Least
  <2>6. CASE q.pageSize = limit
    <3>1. q.pageSize * (k - 2) = done
      BY <1>1, <2>3, <2>6
    <3> HIDE DEF done
    <3> QED BY <1>1, <2>1, <2>3, <2>5, <3>1
  <2>7. CASE q.pageSize # limit /\ size <= TotalLimit
    <3>1. q.pageSize \in Int /\ (q.pageSize <= 0 \/ limit = TotalLimit)
      BY <2>7, QueryFields DEF limit
    <3>2. size <= limit
      BY <2>7, <3>1, QueryAssumption DEF Limit, limit
    <3>3. k - 2 = 0
      <4>1. k - 2 >= 1 => done >= limit
        BY <1>1, <2>3
      <4> HIDE DEF done
      <4> QED BY <1>1, <2>2, <2>3, <3>2, <4>1
    <3>4. done = 0 /\ q.pageSize * (k - 2) = 0
      BY <1>1, <3>1, <3>3
    <3> QED BY <1>1, <2>1, <2>5, <3>4
  <2> QED BY <2>1, <2>6, <2>7
<1> QED BY <1>1, <1>5, <1>6, <1>7 DEF k, limit, size


(* A step of one handler keeps the invariant if it stays exact.            *)
LEMMA OneQuiet ==
    ASSUME ListInv, QuietInv, NEW r \in Readers, NEW l,
           lists' = [lists EXCEPT ![r] = l], UNCHANGED ledgerVars,
           l.pc = "unsent" => l.code = 0,
           \A s \in Readers \ {r} : calm'[s] = calm[s],
           calm'[r] => (\A p \in Peers : height[p] = Len(chain)) /\ QuietList(l, Matching(l.query))
    PROVE  QuietInv'
<1>1. (chain \in Seq(Blocks))'
  BY DEF QuietInv, Blocks, ledgerVars
<1>2. lists'[r] = l /\ \A s \in Readers \ {r} : lists'[s] = lists[s]
  BY DEF ListInv, TypeOK
<1>3. chain' = chain /\ height' = height /\ \A q : Matching(q)' = Matching(q)
  BY DEF ledgerVars, Matching, RowsAt
<1>4. ASSUME NEW s \in Readers, calm'[s]
      PROVE  /\ \A p \in Peers : height'[p] = Len(chain')
             /\ QuietList(lists'[s], RowsAt(Len(chain), lists'[s].query))
  <2>1. CASE s = r
    BY <1>2, <1>3, <1>4, <2>1 DEF Matching
  <2>2. CASE s # r
    BY <1>2, <1>3, <1>4, <2>2 DEF QuietInv, Matching
  <2> QED BY <2>1, <2>2
<1>5. \A s \in Readers : QuietList(lists[s], Matching(lists[s].query))' <=>
          QuietList(lists'[s], RowsAt(Len(chain), lists'[s].query))
  BY <1>3 DEF Matching, RowsAt
<1>6. \A s \in Readers : lists'[s].pc = "unsent" => lists'[s].code = 0
  BY <1>2 DEF QuietInv
<1> QED BY <1>1, <1>4, <1>5, <1>6 DEF QuietInv

(* A request that is refused has no list.                                  *)
LEMMA RefusedQuiet ==
    ASSUME ListInv, QuietInv, NEW r \in Readers, NEW q, NEW code, code # 200,
           Refused(r, q, code), UNCHANGED ledgerVars,
           \A s \in Readers \ {r} : calm'[s] = calm[s],
           calm'[r] => \A p \in Peers : height[p] = Len(chain)
    PROVE  QuietInv'
<1> DEFINE l == Fresh("done", q, <<>>, code)
<1>1. l.pc = "done" /\ l.code # 200
  BY DEF Fresh
<1>2. lists' = [lists EXCEPT ![r] = l]
  BY DEF Refused
<1> HIDE DEF l
<1>3. QuietList(l, Matching(l.query))
  BY <1>1 DEF QuietList
<1>4. l.pc = "unsent" => l.code = 0
  BY <1>1
<1>5. calm'[r] => (\A p \in Peers : height[p] = Len(chain)) /\ QuietList(l, Matching(l.query))
  BY <1>3
<1>6. /\ ListInv /\ QuietInv /\ UNCHANGED ledgerVars
      /\ \A s \in Readers \ {r} : calm'[s] = calm[s]
  OBVIOUS
<1> QED BY <1>2, <1>4, <1>5, <1>6, OneQuiet

(* A request begins with the bookmark of the first page.                   *)
LEMMA ReceiveQuiet ==
    ASSUME ListInv, QuietInv, NEW r \in Readers, NEW q \in Query, Receive(r, q)
    PROVE  QuietInv'
<1>1. /\ UNCHANGED ledgerVars
      /\ \A s \in Readers \ {r} : calm'[s] = calm[s]
      /\ calm'[r] => \A p \in Peers : height[p] = Len(chain)
  BY DEF Receive, ListInv, TypeOK
<1>2. CASE Refused(r, q, 401) \/ Refused(r, q, 400)
  BY <1>1, <1>2, RefusedQuiet
<1>3. CASE lists' = [lists EXCEPT ![r] = Fresh("collect", q, <<Start>>, 0)]
  <2> DEFINE l     == Fresh("collect", q, <<Start>>, 0)
             rows  == Matching(q)
             marks == <<Start>>
             size  == Cardinality(rows)
             done(k) == (k - 1) * Limit(q)
  <2>1. l.pc = "collect" /\ l.code = 0 /\ l.query = q /\ l.bookmarks = marks
    BY DEF Fresh
  <2>2. lists' = [lists EXCEPT ![r] = l]
    BY <1>3
  <2>3. size \in Nat
    BY MatchingRows, FS_CardinalityType DEF QuietInv
  <2>4. DOMAIN marks = {1} /\ marks[1] = Start /\ Len(marks) = 1
    OBVIOUS
  <2>5. done(1) = 0
    BY QueryFields
  <2> HIDE DEF l, rows, marks, size
  <2>6. Passed(marks[1], rows) = Least((1 - 1) * Limit(q), Cardinality(rows))
    <3>1. Least(done(1), size) = 0
      <4> HIDE DEF done
      <4> QED BY <2>3, <2>5 DEF Least
    <3> QED BY <2>4, <3>1 DEF Passed, size
  <2>7. MarksExact(q, marks, rows)
    <3>1. ~ (1 > 1)
      OBVIOUS
    <3> QED BY <2>4, <2>6, <3>1 DEF MarksExact
  <2>8. QuietList(l, Matching(l.query))
    BY <2>1, <2>7 DEF QuietList, rows
  <2> QED BY <1>1, <2>1, <2>2, <2>8, OneQuiet
<1> QED BY <1>2, <1>3 DEF Receive

(* What a handler knows of a quiet list.                                   *)
LEMMA QuietFields ==
    ASSUME ListInv, QuietInv, NEW r \in Readers, lists[r].pc \notin {"unsent", "done"}, calm[r],
           NEW rows, rows = Matching(lists[r].query)
    PROVE  /\ IsFiniteSet(rows) /\ rows \subseteq Row
           /\ lists[r] \in List /\ lists[r].query \in Query /\ lists[r].query.pageIndex >= 1
           /\ lists[r].bookmarks \in Seq(Row \cup {Start}) /\ Len(lists[r].bookmarks) >= 1
           /\ MarksExact(lists[r].query, lists[r].bookmarks, rows)
           /\ QuietList(lists[r], rows) /\ lists[r].code = 0
           /\ \A p \in Peers : \A b : Page(height[p], lists[r].query, b) =
                                          PageOf(lists[r].query, b, rows)
           /\ \A p \in Peers : height[p] = Len(chain)
<1>1. /\ QuietList(lists[r], rows) /\ \A p \in Peers : height[p] = Len(chain)
      /\ chain \in Seq(Blocks)
  BY DEF QuietInv
<1>2. GoodList(lists[r])
  BY GoodLists
<1>3. lists[r] \in List /\ lists[r].bookmarks \in Seq(Row \cup {Start})
  BY <1>2 DEF GoodList, List
<1>4. IsFiniteSet(rows) /\ rows \subseteq Row
  BY <1>1, MatchingRows
<1>5. \A p \in Peers : \A b : Page(height[p], lists[r].query, b) =
                                  PageOf(lists[r].query, b, rows)
  BY <1>1, QuietPage
<1> QED BY <1>1, <1>2, <1>3, <1>4, <1>5 DEF GoodList, QuietList


(* A step of one handler, between two steps of the ledger.                 *)
LEMMA HandlerQuiet ==
    ASSUME ListInv, QuietInv, NEW r \in Readers, NEW l,
           lists' = [lists EXCEPT ![r] = l], UNCHANGED <<ledgerVars, calm>>, l.pc # "unsent",
           calm[r] => QuietList(l, Matching(l.query))
    PROVE  QuietInv'
<1>1. UNCHANGED ledgerVars /\ \A s \in Readers : calm'[s] = calm[s]
  OBVIOUS
<1>2. calm'[r] => (\A p \in Peers : height[p] = Len(chain)) /\ QuietList(l, Matching(l.query))
  BY DEF QuietInv
<1> QED BY <1>1, <1>2, OneQuiet

(* The bookmarks are collected (certificateIO.go:453-466).                  *)
LEMMA CollectQuiet ==
    ASSUME ListInv, QuietInv, NEW r \in Readers, Collect(r)
    PROVE  QuietInv'
<1> DEFINE marks == lists[r].bookmarks
           b     == LastOf(marks)
           q     == lists[r].query
           rows  == Matching(q)
           count(p) == PageCount(q, b, Page(height[p], q, b))
<1>1. lists[r] \in List /\ lists[r].pc = "collect" /\ UNCHANGED <<ledgerVars, calm>>
  BY GoodLists DEF Collect, CollectFrom, GoodList
<1>2. PICK p \in Peers : \E next \in Page(height[p], q, b) \cup {b} :
        /\ IsBookmark(next, q, b, Page(height[p], q, b))
        /\ \/ /\ Continues(count(p), next, b)
              /\ lists' = [lists EXCEPT ![r].bookmarks = Append(@, next)]
           \/ /\ EndOfPages(count(p), next, b)
              /\ lists' = [lists EXCEPT ![r].pc = "page", ![r].index = Clamped(q, marks)]
  BY DEF Collect, CollectFrom
<1>3. PICK next \in Page(height[p], q, b) \cup {b} :
        /\ IsBookmark(next, q, b, Page(height[p], q, b))
        /\ \/ /\ Continues(count(p), next, b)
              /\ lists' = [lists EXCEPT ![r].bookmarks = Append(@, next)]
           \/ /\ EndOfPages(count(p), next, b)
              /\ lists' = [lists EXCEPT ![r].pc = "page", ![r].index = Clamped(q, marks)]
  BY <1>2
<1>4. ASSUME calm[r]
      PROVE  /\ lists[r].code = 0 /\ MarksExact(q, marks, rows)
             /\ Continues(count(p), next, b) => MarksExact(q, Append(marks, next), rows)
             /\ EndOfPages(count(p), next, b) /\ q.pageSize # 0 =>
                    (Len(marks) - 1) * Limit(q) >= Cardinality(rows)
  <2>1. /\ IsFiniteSet(rows) /\ rows \subseteq Row /\ q \in Query
        /\ marks \in Seq(Row \cup {Start}) /\ Len(marks) >= 1
        /\ MarksExact(q, marks, rows) /\ lists[r].code = 0
        /\ Page(height[p], q, b) = PageOf(q, b, rows)
    BY <1>1, <1>4, QuietFields
  <2> QED BY <1>3, <2>1, NextMark
<1>5. CASE Continues(count(p), next, b) /\ lists' = [lists EXCEPT ![r].bookmarks = Append(@, next)]
  <2> DEFINE new == Append(marks, next)
             l   == [lists[r] EXCEPT !.bookmarks = new]
  <2>1. /\ l.pc = "collect" /\ l.query = q /\ l.bookmarks = new
        /\ l.code = lists[r].code
    BY <1>1 DEF List
  <2>2. lists' = [lists EXCEPT ![r] = l]
    BY <1>5
  <2> HIDE DEF l, new
  <2>3. calm[r] => QuietList(l, Matching(l.query))
    BY <1>4, <1>5, <2>1 DEF QuietList, new
  <2> QED BY <1>1, <2>1, <2>2, <2>3, HandlerQuiet
<1>6. CASE /\ EndOfPages(count(p), next, b)
           /\ lists' = [lists EXCEPT ![r].pc = "page", ![r].index = Clamped(q, marks)]
  <2> DEFINE l == [lists[r] EXCEPT !.pc = "page", !.index = Clamped(q, marks)]
  <2>1. /\ l.pc = "page" /\ l.query = q /\ l.bookmarks = marks
        /\ l.code = lists[r].code /\ l.index = Clamped(q, marks)
    BY <1>1 DEF List
  <2>2. lists' = [lists EXCEPT ![r] = l]
    BY <1>6
  <2> HIDE DEF l
  <2>3. calm[r] => QuietList(l, Matching(l.query))
    BY <1>4, <1>6, <2>1 DEF QuietList, Complete
  <2> QED BY <1>1, <2>1, <2>2, <2>3, HandlerQuiet
<1> QED BY <1>3, <1>5, <1>6

(* The page asked for is read (certificateIO.go:468-476).                   *)
LEMMA FetchPageQuiet ==
    ASSUME ListInv, QuietInv, NEW r \in Readers, FetchPage(r)
    PROVE  QuietInv'
<1> DEFINE marks == lists[r].bookmarks
           i     == lists[r].index
           q     == lists[r].query
           rows  == Matching(q)
<1>1. lists[r] \in List /\ lists[r].pc = "page" /\ UNCHANGED <<ledgerVars, calm>>
  BY GoodLists DEF FetchPage, GoodList
<1>2. PICK p \in Peers : lists' = [lists EXCEPT ![r].pc = "last",
                                                ![r].certs = Page(height[p], q, marks[i])]
  BY DEF FetchPage
<1> DEFINE page == Page(height[p], q, marks[i])
           l    == [lists[r] EXCEPT !.pc = "last", !.certs = page]
<1>3. /\ l.pc = "last" /\ l.query = q /\ l.bookmarks = marks
      /\ l.code = lists[r].code /\ l.index = i /\ l.certs = page
  BY <1>1 DEF List
<1>4. lists' = [lists EXCEPT ![r] = l]
  BY <1>2
<1>5. ASSUME calm[r]
      PROVE  /\ lists[r].code = 0 /\ MarksExact(q, marks, rows)
             /\ Complete(lists[r], rows) /\ page = PageOf(q, marks[i], rows)
  <2>1. /\ QuietList(lists[r], rows) /\ lists[r].code = 0 /\ MarksExact(q, marks, rows)
        /\ Page(height[p], q, marks[i]) = PageOf(q, marks[i], rows)
    BY <1>1, <1>5, QuietFields
  <2>2. Complete(lists[r], rows)
    BY <1>1, <2>1 DEF QuietList
  <2> QED BY <2>1, <2>2
<1> HIDE DEF l, page
<1>6. calm[r] => QuietList(l, Matching(l.query))
  BY <1>3, <1>5 DEF QuietList, Complete
<1> QED BY <1>1, <1>3, <1>4, <1>6, HandlerQuiet


(* The answer, given its count.                                            *)
LEMMA ExactAnswer ==
    ASSUME NEW rows, IsFiniteSet(rows), rows \subseteq Row,
           NEW k, k.query \in Query, k.query.pageIndex >= 1,
           k.bookmarks \in Seq(Row \cup {Start}), Len(k.bookmarks) >= 1,
           MarksExact(k.query, k.bookmarks, rows), Complete(k, rows),
           k.certs = PageOf(k.query, k.bookmarks[k.index], rows),
           NEW l, l.query = k.query, l.index = k.index, l.certs = k.certs,
           k.query.pageSize = 0 => l.count = 0,
           /\ k.query.pageSize # 0
           /\ k.query.pageSize = Limit(k.query) \/ Cardinality(rows) <= TotalLimit
           => l.count = Cardinality(rows)
    PROVE  Exact(l, rows)
<1> DEFINE q     == k.query
           marks == k.bookmarks
           last  == Ceil(Cardinality(rows), Limit(q)) + 1
<1>1. /\ q.pageIndex \in Int /\ Limit(q) \in Nat \ {0} /\ Len(marks) \in Nat
      /\ q.pageSize = 0 => Limit(q) = TotalLimit
  BY QueryFields, LenProperties
<1>2. k.index = Clamped(q, marks)
  BY DEF Complete
<1>3. ASSUME q.pageSize # 0
      PROVE  /\ l.index = IF q.pageIndex < last THEN q.pageIndex ELSE last
             /\ l.certs = {row \in rows : Ceil(Place(row, rows), Limit(q)) = l.index}
  <2>1. (Len(marks) - 1) * Limit(q) >= Cardinality(rows)
    BY <1>3 DEF Complete
  <2>2. last = Len(marks)
        /\ PageOf(q, marks[k.index], rows) = {row \in rows : Ceil(Place(row, rows), Limit(q)) = k.index}
    BY <1>2, <1>3, <2>1, ExactPage
  <2>3. k.index = IF q.pageIndex < Len(marks) THEN q.pageIndex ELSE Len(marks)
    BY <1>1, <1>2 DEF Clamped
  <2> QED BY <2>2, <2>3
<1>4. ASSUME q.pageSize = 0 PROVE l.certs = FirstOf(TotalLimit, rows)
  <2>1. Len(marks) = 1 /\ marks[1] = Start
    BY <1>4 DEF MarksExact
  <2>2. k.index = 1
    BY <1>1, <1>2, <2>1 DEF Clamped
  <2>3. {row \in rows : After(Start, row)} = rows
    BY DEF After
  <2> QED BY <1>1, <1>4, <2>1, <2>2, <2>3 DEF PageOf
<1>5. q.pageSize = Limit(q) => q.pageSize # 0
  BY <1>1
<1> QED BY <1>3, <1>4, <1>5 DEF Exact

(* The answer keeps the invariant (certificateIO.go:486-499).               *)
LEMMA ReplyQuiet ==
    ASSUME ListInv, QuietInv, NEW r \in Readers, lists[r].pc \in {"last", "lastButOne"},
           UNCHANGED <<ledgerVars, calm>>, NEW full, NEW n, Reply(r, full, n),
           NEW q, q = lists[r].query, NEW rows, rows = Matching(q),
           calm[r] => /\ q.pageSize = 0 => q.pageSize * full + n = 0
                      /\ /\ q.pageSize # 0
                         /\ q.pageSize = Limit(q) \/ Cardinality(rows) <= TotalLimit
                         => q.pageSize * full + n = Cardinality(rows)
    PROVE  QuietInv'
<1> DEFINE count == q.pageSize * full + n
           l == [lists[r] EXCEPT !.pc = "done", !.code = 200, !.count = count]
<1>1. lists[r] \in List
  BY GoodLists DEF GoodList
<1>2. /\ l.pc = "done" /\ l.query = q /\ l.index = lists[r].index
      /\ l.certs = lists[r].certs /\ l.count = count
  BY <1>1 DEF List
<1>3. lists' = [lists EXCEPT ![r] = l]
  BY DEF Reply
<1>4. ASSUME calm[r] PROVE Exact(l, rows)
  <2>1. /\ IsFiniteSet(rows) /\ rows \subseteq Row /\ q \in Query /\ q.pageIndex >= 1
        /\ lists[r].bookmarks \in Seq(Row \cup {Start}) /\ Len(lists[r].bookmarks) >= 1
        /\ MarksExact(q, lists[r].bookmarks, rows) /\ QuietList(lists[r], rows)
    BY <1>4, QuietFields
  <2>2. Complete(lists[r], rows)
        /\ lists[r].certs = PageOf(q, lists[r].bookmarks[lists[r].index], rows)
    BY <2>1 DEF QuietList
  <2>3. /\ q.pageSize = 0 => count = 0
        /\ /\ q.pageSize # 0
           /\ q.pageSize = Limit(q) \/ Cardinality(rows) <= TotalLimit
           => count = Cardinality(rows)
    BY <1>4
  <2> HIDE DEF l, count
  <2> QED BY <1>2, <2>1, <2>2, <2>3, ExactAnswer
<1> HIDE DEF l, count
<1>5. calm[r] => QuietList(l, Matching(l.query))
  BY <1>2, <1>4 DEF QuietList
<1> QED BY <1>2, <1>3, <1>5, HandlerQuiet

(* No rows are behind the last bookmark (certificateIO.go:478-486).         *)
LEMMA FetchLastQuiet ==
    ASSUME ListInv, QuietInv, NEW r \in Readers, FetchLast(r)
    PROVE  QuietInv'
<1> DEFINE marks == lists[r].bookmarks
           q     == lists[r].query
           b     == LastOf(marks)
           rows  == Matching(q)
           count(p) == PageCount(q, b, Page(height[p], q, b))
<1>1. /\ lists[r] \in List /\ lists[r].pc = "last" /\ UNCHANGED <<ledgerVars, calm>>
      /\ lists[r].index \in DOMAIN marks /\ Len(marks) \in Nat /\ Len(marks) >= 1
  BY GoodLists DEF FetchLast, GoodList, List
<1>2. PICK p \in Peers :
        \/ /\ count(p) = 0 /\ Len(marks) > 1
           /\ lists' = [lists EXCEPT ![r].pc = "lastButOne"]
        \/ /\ count(p) # 0 \/ Len(marks) <= 1
           /\ Reply(r, Len(marks) - 1, count(p))
  BY DEF FetchLast
<1>3. ASSUME calm[r]
      PROVE  /\ lists[r].code = 0 /\ MarksExact(q, marks, rows) /\ QuietList(lists[r], rows)
             /\ q.pageSize \in Int /\ count(p) = 0
             /\ Len(marks) <= 1 /\ q.pageSize # 0 => Cardinality(rows) = 0
  <2>1. /\ IsFiniteSet(rows) /\ rows \subseteq Row /\ q \in Query
        /\ marks \in Seq(Row \cup {Start}) /\ Len(marks) >= 1
        /\ MarksExact(q, marks, rows) /\ QuietList(lists[r], rows) /\ lists[r].code = 0
        /\ Page(height[p], q, b) = PageOf(q, b, rows)
    BY <1>1, <1>3, QuietFields
  <2>2. q.pageSize # 0 => (Len(marks) - 1) * Limit(q) >= Cardinality(rows)
    BY <1>1, <2>1 DEF QuietList, Complete
  <2>3. q.pageSize \in Int
    BY <2>1, QueryFields
  <2> QED BY <2>1, <2>2, <2>3, ExactCount
<1>4. CASE lists' = [lists EXCEPT ![r].pc = "lastButOne"]
  <2> DEFINE l == [lists[r] EXCEPT !.pc = "lastButOne"]
  <2>1. /\ l.pc = "lastButOne" /\ l.query = q /\ l.bookmarks = marks
        /\ l.code = lists[r].code /\ l.index = lists[r].index /\ l.certs = lists[r].certs
    BY <1>1 DEF List
  <2>2. lists' = [lists EXCEPT ![r] = l]
    BY <1>4
  <2> HIDE DEF l
  <2>3. calm[r] => QuietList(l, Matching(l.query))
    BY <1>1, <1>3, <2>1 DEF QuietList, Complete
  <2> QED BY <1>1, <2>1, <2>2, <2>3, HandlerQuiet
<1>5. CASE (count(p) # 0 \/ Len(marks) <= 1) /\ Reply(r, Len(marks) - 1, count(p))
  <2>1. ASSUME calm[r]
        PROVE  /\ q.pageSize = 0 => q.pageSize * (Len(marks) - 1) + count(p) = 0
               /\ q.pageSize # 0 => q.pageSize * (Len(marks) - 1) + count(p) = Cardinality(rows)
    <3> DEFINE m    == Len(marks) - 1
               c    == count(p)
               s    == q.pageSize
               size == Cardinality(rows)
    <3>1. c = 0 /\ s \in Int /\ (Len(marks) <= 1 /\ s # 0 => size = 0)
      BY <1>3, <2>1
    <3>2. Len(marks) <= 1
      BY <1>5, <3>1
    <3>3. m = 0
      <4> DEFINE len == Len(marks)
      <4>1. len \in Nat /\ len >= 1 /\ len <= 1
        BY <1>1, <3>2
      <4> HIDE DEF len
      <4>2. len - 1 = 0
        BY <4>1
      <4> QED BY <4>2 DEF len
    <3> HIDE DEF m, c, s, size
    <3>4. s * m + c = 0
      BY <3>1, <3>3
    <3>5. /\ s = 0 => s * m + c = 0
          /\ s # 0 => s * m + c = size
      BY <3>1, <3>2, <3>4
    <3> QED BY <3>5 DEF m, c, s, size
  <2> QED BY <1>1, <1>5, <2>1, ReplyQuiet
<1> QED BY <1>2, <1>4, <1>5

(* The rows of the last page are counted (certificateIO.go:487-493).        *)
LEMMA FetchLastButOneQuiet ==
    ASSUME ListInv, QuietInv, NEW r \in Readers, FetchLastButOne(r)
    PROVE  QuietInv'
<1> DEFINE marks == lists[r].bookmarks
           q     == lists[r].query
           b     == marks[Len(marks) - 1]
           rows  == Matching(q)
           count(p) == PageCount(q, b, Page(height[p], q, b))
<1>1. /\ lists[r] \in List /\ lists[r].pc = "lastButOne" /\ UNCHANGED <<ledgerVars, calm>>
      /\ Len(marks) \in Nat /\ Len(marks) > 1
  BY GoodLists DEF FetchLastButOne, GoodList, List
<1>2. PICK p \in Peers : Reply(r, Len(marks) - 2, count(p))
  BY DEF FetchLastButOne
<1>3. ASSUME calm[r]
      PROVE  /\ q.pageSize # 0
             /\ q.pageSize = Limit(q) \/ Cardinality(rows) <= TotalLimit =>
                    q.pageSize * (Len(marks) - 2) + count(p) = Cardinality(rows)
  <2>1. /\ IsFiniteSet(rows) /\ rows \subseteq Row /\ q \in Query
        /\ marks \in Seq(Row \cup {Start}) /\ Len(marks) >= 1
        /\ MarksExact(q, marks, rows) /\ QuietList(lists[r], rows)
        /\ Page(height[p], q, b) = PageOf(q, b, rows)
    BY <1>1, <1>3, QuietFields
  <2>2. q.pageSize # 0 => (Len(marks) - 1) * Limit(q) >= Cardinality(rows)
    BY <1>1, <2>1 DEF QuietList, Complete
  <2> QED BY <1>1, <2>1, <2>2, ExactCount
<1> QED BY <1>1, <1>2, <1>3, ReplyQuiet


-----------------------------------------------------------------------------
(* Nothing is quiet before a request comes.                                *)
LEMMA QuietInit == Init => QuietInv
<1> SUFFICES ASSUME Init PROVE QuietInv
  OBVIOUS
<1>1. chain \in Seq(Blocks)
  BY DEF Init, Blocks
<1>2. \A r \in Readers : lists[r].code = 0 /\ ~ calm[r]
  BY DEF Init, Unsent, Fresh
<1> QED BY <1>1, <1>2 DEF QuietInv

(* A new block disturbs every list that is being read.                     *)
LEMMA OrderQuiet ==
    ASSUME QuietInv, OrderWrite
    PROVE  QuietInv'
<1>1. PICK block : chain' = Append(chain, block)
  BY DEF OrderWrite, Order
<1>2. (chain \in Seq(Blocks))'
  <2> DEFINE S == Blocks \cup {block}
  <2>1. chain \in Seq(S)
    BY DEF QuietInv
  <2>2. /\ chain' \in Seq(S) /\ Len(chain') = Len(chain) + 1 /\ Len(chain') \in Nat
        /\ DOMAIN chain' = 1 .. Len(chain')
    BY <1>1, <2>1, AppendProperties, LenProperties
  <2>3. \A i \in 1 .. Len(chain') : chain'[i] \in Blocks'
    BY <2>2 DEF Blocks
  <2> QED BY <2>2, <2>3, SeqDef
<1>3. UNCHANGED lists /\ \A r \in Readers : ~ calm'[r]
  BY DEF OrderWrite
<1> QED BY <1>2, <1>3 DEF QuietInv

(* A peer commits a block only while it lags, so that no list is quiet.    *)
LEMMA CommitQuiet ==
    ASSUME ListInv, QuietInv, NEW p \in Peers, Commit(p)
    PROVE  QuietInv'
<1>1. UNCHANGED <<chain, lists, calm>> /\ height[p] < Len(chain)
  BY DEF Commit, PeerCommit
<1>2. \A r \in Readers : ~ calm[r]
  <2>1. Len(chain) \in Nat /\ height[p] \in Nat
    BY LenProperties DEF QuietInv, ListInv
  <2>2. height[p] # Len(chain)
    BY <1>1, <2>1
  <2> QED BY <2>2 DEF QuietInv
<1>3. (chain \in Seq(Blocks))'
  BY <1>1 DEF QuietInv, Blocks
<1> QED BY <1>1, <1>2, <1>3 DEF QuietInv

(* Every step keeps the invariant.                                         *)
LEMMA QuietStep == ListInv /\ QuietInv /\ [Next]_vars => QuietInv'
<1> SUFFICES ASSUME ListInv, QuietInv, [Next]_vars PROVE QuietInv'
  OBVIOUS
<1>1. ASSUME NEW r \in Readers, NEW q \in Query, Receive(r, q) PROVE QuietInv'
  BY <1>1, ReceiveQuiet
<1>2. ASSUME NEW r \in Readers, ReceiveUndecodable(r) PROVE QuietInv'
  BY <1>2, RefusedQuiet DEF ReceiveUndecodable, QuietInv
<1>3. ASSUME NEW r \in Readers, HandlerStep(r) PROVE QuietInv'
  BY <1>3, CollectQuiet, FetchPageQuiet, FetchLastQuiet, FetchLastButOneQuiet DEF HandlerStep
<1>4. ASSUME NEW r \in Readers, QueryFails(r) PROVE QuietInv'
  BY <1>4, RefusedQuiet DEF QueryFails, QuietInv
<1>5. CASE OrderWrite
  BY <1>5, OrderQuiet
<1>6. ASSUME NEW p \in Peers, Commit(p) PROVE QuietInv'
  BY <1>6, CommitQuiet
<1>7. CASE UNCHANGED vars
  <2>1. /\ UNCHANGED <<chain, height, lists, calm>>
        /\ \A q : Matching(q)' = Matching(q)
    BY <1>7 DEF vars, ledgerVars, Matching, RowsAt
  <2>2. (chain \in Seq(Blocks))'
    BY <2>1 DEF QuietInv, Blocks
  <2>3. \A r \in Readers : QuietList(lists[r], Matching(lists[r].query))' <=>
                               QuietList(lists[r], Matching(lists[r].query))
    BY <2>1 DEF Matching, RowsAt
  <2> QED BY <2>1, <2>2, <2>3 DEF QuietInv
<1> QED BY <1>1, <1>2, <1>3, <1>4, <1>5, <1>6, <1>7 DEF Next

(* The invariant of quiet lists.                                           *)
THEOREM QuietInvariant == Spec => []QuietInv
<1>1. Init => ListInv /\ QuietInv
  BY ListInitInv, QuietInit
<1>2. (ListInv /\ QuietInv) /\ [Next]_vars => (ListInv /\ QuietInv)'
  BY ListStep, QuietStep
<1> QED BY <1>1, <1>2, PTL DEF Spec

(* A list read while nothing is committed is the list, its page the page    *)
(* asked for and its count the number of certificates selected, for any     *)
(* number of certificates, any page size and any page                      *)
(* (certificateIO.go:437-499, chaincode/main.go:206-264).                   *)
THEOREM QuietListsAreExact == Spec => []QuietListIsExact
<1>1. QuietInv => QuietListIsExact
  BY DEF QuietInv, QuietList, Exact, QuietListIsExact
<1> QED BY <1>1, QuietInvariant, PTL
=============================================================================
