--------------------------- MODULE SessionProofs ---------------------------
(***************************************************************************)
(* Sessions: the map and the list agree, the list is ordered the way the   *)
(* collector relies on, a session in use stays, and what a login stores is *)
(* what the browser's next request finds.                                  *)
(***************************************************************************)
EXTENDS Session, SequenceTheorems, TLAPS

(* Which request a goroutine at each place is serving.                     *)
PlaceOK(g) ==
    /\ g.pc = "idle" => g.cookie = NoCookie
    /\ g.pc \in {"idle", "start"} => g.sess = NoObj /\ g.setCookie = Unset
    /\ g.pc = "start" => g.op \in {"login", "badLogin", "logout", "guarded"}
    /\ g.pc = "refuse" => g.op = "badLogin"
    /\ g.pc \in {"write", "setUpdate"} => g.op \in {"login", "logout"}
    /\ g.pc \in {"destroy", "check"} => g.op = "logout"
    /\ g.pc \in {"getUpdate", "read"} => g.op \in {"logout", "guarded"}

(* A goroutine's session has the id of its cookie, the one received or the *)
(* one it is going to send; after SessionDestroy it takes the cookie back.  *)
CookieOK(g, sid) ==
    g.pc \notin {"idle", "start"} =>
        IF g.cookie = NoCookie THEN g.setCookie = QueryEscape(sid)
        ELSE /\ g.cookie = QueryEscape(sid)
             /\ g.setCookie \in {Unset, NoCookie}
             /\ g.setCookie = NoCookie <=>
                    g.op = "logout" /\ g.pc \in {"check", "getUpdate", "read"}

GoroutineOK(g) ==
    /\ g \in Goroutine /\ PlaceOK(g)
    /\ g.pc # "idle" => g.client \in Clients
    /\ g.pc \notin {"idle", "start"} => g.sess \in Objects

HandlersOK ==
    /\ handler \in [Handlers -> Goroutine]
    /\ jar \in [Clients -> Cookies \cup {NoCookie}]
    /\ \A h \in Handlers : GoroutineOK(handler[h])
    /\ \A h \in Handlers : CookieOK(handler[h], heap[handler[h].sess].sid)

(* Only its maker knows a cookie that has not been sent yet.               *)
CookiesSecret ==
    \A h \in Handlers :
        LET cookie == handler[h].setCookie
        IN  cookie \in Cookies =>
                /\ \A c \in Clients : jar[c] # cookie
                /\ \A g \in Handlers : /\ handler[g].cookie # cookie
                                       /\ g # h => handler[g].setCookie # cookie

(* A cookie that has been sent is that of one browser.                     *)
CookiesOwned ==
    /\ \A c, d \in Clients : jar[c] \in Cookies /\ jar[c] = jar[d] => c = d
    /\ \A h \in Handlers, c \in Clients :
          handler[h].cookie \in Cookies /\ jar[c] = handler[h].cookie => handler[h].client = c
    /\ \A g, h \in Handlers :
          handler[h].cookie \in Cookies /\ handler[g].cookie = handler[h].cookie =>
              handler[g].client = handler[h].client

(* What a login has stored is there until a logout deletes it; once that   *)
(* has been answered the browser does not have the cookie any more.        *)
Stored(h) ==
    handler[h].pc = "setUpdate" /\ handler[h].op = "login" =>
        \/ heap[handler[h].sess].username
        \/ /\ handler[h].cookie # NoCookie
           /\ \/ jar[handler[h].client] # handler[h].cookie
              \/ \E g \in Handlers : /\ handler[g].pc # "idle" /\ handler[g].op = "logout"
                                     /\ handler[g].cookie = handler[h].cookie

LoginsStored == \A h \in Handlers : Stored(h)


-----------------------------------------------------------------------------
(***************************************************************************)
(* The store: the map, the list and the objects.                           *)
(***************************************************************************)

StoreTypes ==
    /\ sessions \in [Sids -> Objects \cup {NoObj}]
    /\ list \in Seq(Objects)
    /\ heap \in [Objects -> Store]

StoreInv == StoreTypes /\ MapMatchesList /\ ListOrdered

(* A list's elements are objects, at places from 1 to its length.          *)
LEMMA ListPlaces ==
    ASSUME StoreTypes
    PROVE  /\ Len(list) \in Nat /\ DOMAIN list = 1 .. Len(list)
           /\ \A i \in DOMAIN list : list[i] \in Objects
           /\ Listed \subseteq Objects
<1>1. Len(list) \in Nat /\ DOMAIN list = 1 .. Len(list)
  BY LenProperties DEF StoreTypes
<1>2. \A i \in DOMAIN list : list[i] \in Objects
  BY <1>1, ElementOfSeq DEF StoreTypes
<1> QED BY <1>1, <1>2 DEF Listed

(* A session in the map is listed, and under its own id.                   *)
LEMMA MappedIsListed ==
    ASSUME StoreInv
    PROVE  /\ \A s \in Sids : sessions[s] # NoObj =>
                 sessions[s] \in Listed /\ heap[sessions[s]].sid = s
           /\ \A o \in Listed : o \in Objects /\ heap[o].sid \in Sids
                                /\ sessions[heap[o].sid] = o
<1>1. \A s \in Sids : sessions[s] # NoObj =>
          sessions[s] \in Listed /\ heap[sessions[s]].sid = s
  BY DEF StoreInv, MapMatchesList
<1>2. ASSUME NEW o \in Listed
      PROVE  o \in Objects /\ heap[o].sid \in Sids /\ sessions[heap[o].sid] = o
  <2>1. PICK s \in Sids : sessions[s] = o /\ o # NoObj
    BY DEF StoreInv, MapMatchesList
  <2> QED BY <1>1, <2>1, ListPlaces DEF StoreInv
<1> QED BY <1>1, <1>2

(* MoveToFront puts one element first and keeps the order of the others:   *)
(* the place that each element comes from.                                 *)
LEMMA MoveToFrontMoves ==
    ASSUME StoreInv, NEW o \in Listed
    PROVE  /\ MoveToFront(o) \in Seq(Objects)
           /\ DOMAIN MoveToFront(o) = DOMAIN list
           /\ \A i \in DOMAIN list : MoveToFront(o)[i] \in Listed
           /\ \A m \in DOMAIN list : \E i \in DOMAIN list : MoveToFront(o)[i] = list[m]
           /\ MoveToFront(o)[1] = o
           /\ \E from \in [DOMAIN list -> DOMAIN list] :
                 /\ \A i \in DOMAIN list : MoveToFront(o)[i] = list[from[i]]
                 /\ \A i, j \in DOMAIN list : i < j =>
                       from[i] # from[j] /\ (i # 1 => from[i] < from[j])
<1> DEFINE n    == Len(list)
           k    == Position(o)
           new  == MoveToFront(o)
           from == [i \in 1 .. n |-> IF i = 1 THEN k ELSE IF i <= k THEN i - 1 ELSE i]
<1>1. n \in Nat /\ DOMAIN list = 1 .. n /\ \A i \in 1 .. n : list[i] \in Objects
  BY ListPlaces DEF StoreInv
<1>2. k \in 1 .. n /\ list[k] = o
  <2>1. \E i \in DOMAIN list : list[i] = o
    BY DEF Listed
  <2> QED BY <1>1, <2>1 DEF Position
<1>3. new = [i \in 1 .. n |-> IF i = 1 THEN o ELSE IF i <= k THEN list[i - 1] ELSE list[i]]
  BY <1>1 DEF MoveToFront
<1> HIDE DEF n, k, new
<1>4. from \in [1 .. n -> 1 .. n]
  BY <1>1, <1>2
<1>5. \A i \in 1 .. n : new[i] = list[from[i]]
  BY <1>1, <1>2, <1>3
<1>6. \A i, j \in 1 .. n : i < j => from[i] # from[j] /\ (i # 1 => from[i] < from[j])
  BY <1>1, <1>2
<1>7. new \in Seq(Objects) /\ DOMAIN new = 1 .. n
  <2>1. \A i \in 1 .. n : new[i] \in Objects
    BY <1>1, <1>4, <1>5
  <2> QED BY <1>1, <1>3, <2>1, SeqDef
<1>8. \A i \in 1 .. n : new[i] \in Listed
  BY <1>1, <1>4, <1>5 DEF Listed
<1>9. ASSUME NEW m \in 1 .. n PROVE \E i \in 1 .. n : new[i] = list[m]
  <2>1. CASE m = k
    BY <1>1, <1>2, <1>3, <2>1
  <2>2. CASE m < k
    <3>1. m + 1 \in 1 .. n /\ new[m + 1] = list[m]
      BY <1>1, <1>2, <1>3, <2>2
    <3> QED BY <3>1
  <2>3. CASE m > k
    BY <1>1, <1>2, <1>3, <2>3
  <2> QED BY <1>1, <1>2, <2>1, <2>2, <2>3
<1>10. new[1] = o
  BY <1>1, <1>2, <1>3
<1> HIDE DEF from
<1> QED BY <1>1, <1>4, <1>5, <1>6, <1>7, <1>8, <1>9, <1>10 DEF new

(* Nothing changes if nothing is changed.                                  *)
LEMMA SameStore ==
    ASSUME StoreInv, UNCHANGED <<sessions, list, heap>>
    PROVE  StoreInv' /\ Listed' = Listed
<1>1. Listed' = Listed
  BY DEF Listed
<1>2. StoreTypes'
  BY DEF StoreInv, StoreTypes
<1>3. MapMatchesList'
  BY <1>1 DEF StoreInv, MapMatchesList
<1>4. ListOrdered'
  BY DEF StoreInv, ListOrdered
<1> QED BY <1>1, <1>2, <1>3, <1>4 DEF StoreInv

(* A refreshed session keeps its id and its value.                         *)
LEMMA RefreshedStore ==
    ASSUME NEW store \in Store
    PROVE  LET fresh == [store EXCEPT !.age = 0, !.touched = TRUE]
           IN  /\ fresh \in Store /\ fresh.age = 0 /\ fresh.touched
               /\ fresh.sid = store.sid /\ fresh.username = store.username
<1>1. MaxLife \in Nat /\ 0 \in 0 .. MaxLife + 1
  BY SessionAssumption
<1>2. PICK ages : ages = 0 .. MaxLife + 1
  OBVIOUS
<1>3. store \in [sid : Sids, age : ages, username : BOOLEAN, touched : BOOLEAN] /\ 0 \in ages
  BY <1>1, <1>2 DEF Store
<1> QED BY <1>2, <1>3 DEF Store

(* SessionUpdate refreshes a session of the list and moves it to the front *)
(* (sessionProvider.go:61-70).                                             *)
LEMMA UpdateKeepsStore ==
    ASSUME StoreInv, NEW o \in Objects, SessionUpdate(o), UNCHANGED sessions
    PROVE  /\ StoreInv' /\ Listed' = Listed
           /\ \A x \in Objects : /\ heap'[x].sid = heap[x].sid
                                 /\ heap'[x].username = heap[x].username
                                 /\ x \in Listed \/ heap'[x] = heap[x]
           /\ o \in Listed => heap'[o].age = 0
<1> DEFINE current == sessions[heap[o].sid]
<1>1. CASE current = NoObj
  <2>1. UNCHANGED <<sessions, list, heap>>
    BY <1>1 DEF SessionUpdate
  <2>2. o \notin Listed
    BY <1>1, MappedIsListed DEF StoreInv, StoreTypes, MapMatchesList
  <2>3. StoreInv' /\ Listed' = Listed
    BY <2>1, SameStore
  <2> QED BY <2>1, <2>2, <2>3
<1>2. CASE current # NoObj
  <2>1. heap[o].sid \in Sids
    BY DEF StoreInv, StoreTypes, Store
  <2>2. current \in Listed /\ current \in Objects
    BY <1>2, <2>1, MappedIsListed
  <2>3. /\ list' = MoveToFront(current)
        /\ heap' = [heap EXCEPT ![current].age = 0, ![current].touched = TRUE]
    BY <1>2 DEF SessionUpdate
  <2>4. o \in Listed => current = o
    BY MappedIsListed
  <2> HIDE DEF current
  <2>5. /\ heap' \in [Objects -> Store]
        /\ heap'[current].age = 0 /\ heap'[current].touched
        /\ \A x \in Objects : /\ heap'[x].sid = heap[x].sid
                              /\ heap'[x].username = heap[x].username
                              /\ x # current => heap'[x] = heap[x]
    <3>1. heap \in [Objects -> Store] /\ MaxLife \in Nat
      BY SessionAssumption DEF StoreInv, StoreTypes
    <3> DEFINE fresh == [heap[current] EXCEPT !.age = 0, !.touched = TRUE]
    <3>2. heap' = [heap EXCEPT ![current] = fresh]
      BY <2>2, <2>3, <3>1
    <3>3. heap[current] \in Store
      BY <2>2, <3>1
    <3>4. /\ fresh \in Store /\ fresh.age = 0 /\ fresh.touched
          /\ fresh.sid = heap[current].sid /\ fresh.username = heap[current].username
      BY <3>3, RefreshedStore
    <3> HIDE DEF fresh
    <3> QED BY <2>2, <3>1, <3>2, <3>4
  <2> DEFINE new == MoveToFront(current)
  <2>13. /\ new \in Seq(Objects)
         /\ DOMAIN new = DOMAIN list
         /\ \A i \in DOMAIN list : new[i] \in Listed
         /\ \A m \in DOMAIN list : \E i \in DOMAIN list : new[i] = list[m]
         /\ new[1] = current
         /\ \E from \in [DOMAIN list -> DOMAIN list] :
               /\ \A i \in DOMAIN list : new[i] = list[from[i]]
               /\ \A i, j \in DOMAIN list : i < j =>
                     from[i] # from[j] /\ (i # 1 => from[i] < from[j])
    BY <2>2, MoveToFrontMoves
  <2>14. list' = new
    BY <2>3
  <2> HIDE DEF new
  <2>6. PICK from \in [DOMAIN list -> DOMAIN list] :
              /\ \A i \in DOMAIN list : list'[i] = list[from[i]]
              /\ \A i, j \in DOMAIN list : i < j =>
                    from[i] # from[j] /\ (i # 1 => from[i] < from[j])
    BY <2>13, <2>14
  <2>7. /\ list' \in Seq(Objects) /\ DOMAIN list' = DOMAIN list
        /\ Listed' = Listed /\ list'[1] = current
    <3>1. list' \in Seq(Objects) /\ DOMAIN list' = DOMAIN list /\ list'[1] = current
      BY <2>13, <2>14
    <3>2. \A x \in Listed' : x \in Listed
      BY <2>13, <2>14 DEF Listed
    <3>3. \A x \in Listed : x \in Listed'
      BY <2>13, <2>14 DEF Listed
    <3> QED BY <3>1, <3>2, <3>3
  <2>8. Len(list) \in Nat /\ DOMAIN list = 1 .. Len(list)
        /\ \A i \in DOMAIN list : list[i] \in Objects
    BY ListPlaces DEF StoreInv
  <2>9. \A i, j \in DOMAIN list' : i < j => list'[i] # list'[j]
    BY <2>6, <2>7 DEF StoreInv, MapMatchesList
  <2>10. MapMatchesList'
    <3>1. \A i, j \in DOMAIN list' : list'[i] = list'[j] => i = j
      BY <2>7, <2>8, <2>9
    <3>2. \A s \in Sids : sessions'[s] # NoObj => heap'[sessions'[s]].sid = s
      BY <2>5, ListPlaces DEF StoreInv, StoreTypes, MapMatchesList
    <3> QED BY <2>7, <3>1, <3>2 DEF StoreInv, MapMatchesList
  <2>11. ListOrdered'
    <3> SUFFICES ASSUME NEW i \in DOMAIN list, NEW j \in DOMAIN list, i < j
                 PROVE  /\ heap'[list'[i]].touched /\ heap'[list'[j]].touched =>
                              heap'[list'[i]].age <= heap'[list'[j]].age
                        /\ ~ heap'[list'[i]].touched =>
                              /\ ~ heap'[list'[j]].touched
                              /\ heap'[list'[i]].age >= heap'[list'[j]].age
      BY <2>7 DEF ListOrdered
    <3>1. list'[j] \in Objects /\ heap'[list'[j]].age \in Nat
      <4>1. list'[j] \in Objects
        BY <2>6, <2>8
      <4> QED BY <2>5, <4>1, SessionAssumption DEF Store
    <3>2. CASE i = 1
      BY <2>5, <2>7, <3>1, <3>2
    <3>3. CASE i # 1
      <4>1. list'[i] # current /\ list'[j] # current
        BY <2>7, <2>8, <2>9, <3>3
      <4>2. /\ heap'[list'[i]] = heap[list[from[i]]] /\ heap'[list'[j]] = heap[list[from[j]]]
            /\ from[i] < from[j] /\ from[i] \in DOMAIN list /\ from[j] \in DOMAIN list
        BY <2>5, <2>6, <2>8, <3>3, <4>1
      <4> QED BY <4>2 DEF StoreInv, ListOrdered
    <3> QED BY <3>2, <3>3
  <2>12. StoreTypes'
    BY <2>5, <2>7 DEF StoreInv, StoreTypes
  <2> QED BY <2>2, <2>4, <2>5, <2>7, <2>10, <2>11, <2>12 DEF StoreInv
<1> QED BY <1>1, <1>2


(* SessionInit puts a new object at the back, where the new belong         *)
(* (sessionProvider.go:15-23).                                             *)
LEMMA InitKeepsStore ==
    ASSUME StoreInv, NEW o \in Objects, NEW sid \in Sids,
           o \notin Listed, sessions[sid] = NoObj, SessionInit(o, sid)
    PROVE  /\ StoreInv' /\ Listed' = Listed \cup {o}
           /\ heap'[o] = NewStore(sid)
           /\ \A x \in Objects \ {o} : heap'[x] = heap[x]
<1> DEFINE n == Len(list)
<1>1. n \in Nat /\ DOMAIN list = 1 .. n /\ \A i \in 1 .. n : list[i] \in Objects
  BY ListPlaces DEF StoreInv
<1>2. /\ sessions' = [sessions EXCEPT ![sid] = o]
      /\ list' = Append(list, o)
      /\ heap' = [heap EXCEPT ![o] = NewStore(sid)]
  BY DEF SessionInit
<1>3. /\ list' \in Seq(Objects) /\ Len(list') = n + 1
      /\ \A i \in 1 .. n : list'[i] = list[i]
      /\ list'[n + 1] = o
  BY <1>2, AppendProperties DEF StoreInv, StoreTypes
<1>4. DOMAIN list' = 1 .. n + 1
  BY <1>3, LenProperties
<1> HIDE DEF n
<1>5. \A i \in 1 .. n : list[i] # o /\ list[i] \in Listed
  BY <1>1 DEF Listed
<1>6. Listed' = Listed \cup {o}
  <2>1. \A x \in Listed' : x \in Listed \cup {o}
    BY <1>1, <1>3, <1>4, <1>5 DEF Listed
  <2>2. \A x \in Listed : x \in Listed'
    BY <1>1, <1>3, <1>4 DEF Listed
  <2>3. o \in Listed'
    BY <1>1, <1>3, <1>4 DEF Listed
  <2> QED BY <2>1, <2>2, <2>3
<1>7. NewStore(sid) \in Store /\ heap \in [Objects -> Store]
  <2>1. 0 \in 0 .. MaxLife + 1
    BY SessionAssumption
  <2> QED BY <2>1 DEF NewStore, Store, StoreInv, StoreTypes
<1>8. /\ heap' \in [Objects -> Store] /\ heap'[o] = NewStore(sid)
      /\ \A x \in Objects \ {o} : heap'[x] = heap[x]
  BY <1>2, <1>7
<1>9. /\ sessions' \in [Sids -> Objects \cup {NoObj}] /\ sessions'[sid] = o
      /\ \A s \in Sids \ {sid} : sessions'[s] = sessions[s]
  BY <1>2 DEF StoreInv, StoreTypes
<1>10. StoreTypes'
  BY <1>3, <1>8, <1>9 DEF StoreTypes
<1>11. MapMatchesList'
  <2>1. \A i, j \in DOMAIN list' : list'[i] = list'[j] => i = j
    BY <1>1, <1>3, <1>4, <1>5 DEF StoreInv, MapMatchesList
  <2>2. Listed' = {sessions'[s] : s \in Sids} \ {NoObj}
    <3>1. \A x \in Listed \cup {o} : x # NoObj /\ \E s \in Sids : sessions'[s] = x
      <4>1. ASSUME NEW x \in Listed PROVE x # NoObj /\ \E s \in Sids : sessions'[s] = x
        BY <1>9 DEF StoreInv, MapMatchesList
      <4> QED BY <1>9, <4>1, SessionAssumption
    <3>2. \A s \in Sids : sessions'[s] # NoObj => sessions'[s] \in Listed \cup {o}
      BY <1>9, MappedIsListed
    <3> QED BY <1>6, <3>1, <3>2
  <2>3. ASSUME NEW s \in Sids, sessions'[s] # NoObj PROVE heap'[sessions'[s]].sid = s
    <3>1. CASE s = sid
      BY <1>8, <1>9, <3>1 DEF NewStore
    <3>2. CASE s # sid
      <4>1. sessions[s] \in Listed /\ heap[sessions[s]].sid = s /\ sessions[s] \in Objects
        BY <1>9, <2>3, <3>2, MappedIsListed
      <4> QED BY <1>8, <1>9, <3>2, <4>1
    <3> QED BY <3>1, <3>2
  <2> QED BY <2>1, <2>2, <2>3 DEF MapMatchesList
<1>12. ListOrdered'
  <2> SUFFICES ASSUME NEW i \in 1 .. n + 1, NEW j \in 1 .. n + 1, i < j
               PROVE  /\ heap'[list'[i]].touched /\ heap'[list'[j]].touched =>
                            heap'[list'[i]].age <= heap'[list'[j]].age
                      /\ ~ heap'[list'[i]].touched =>
                            /\ ~ heap'[list'[j]].touched
                            /\ heap'[list'[i]].age >= heap'[list'[j]].age
    BY <1>4 DEF ListOrdered
  <2>1. i \in 1 .. n /\ heap'[list'[i]] = heap[list[i]] /\ list[i] \in Objects
    BY <1>1, <1>3, <1>5, <1>8
  <2>2. CASE j = n + 1
    <3>1. ~ heap'[list'[j]].touched /\ heap'[list'[j]].age = 0
      BY <1>3, <1>8, <2>2 DEF NewStore
    <3>2. heap[list[i]].age \in Nat
      BY <1>7, <2>1, SessionAssumption DEF Store
    <3> QED BY <2>1, <3>1, <3>2
  <2>3. CASE j # n + 1
    <3>1. j \in 1 .. n /\ heap'[list'[j]] = heap[list[j]]
      BY <1>1, <1>3, <1>5, <1>8, <2>3
    <3> QED BY <1>1, <2>1, <3>1 DEF StoreInv, ListOrdered
  <2> QED BY <2>2, <2>3
<1> QED BY <1>6, <1>8, <1>10, <1>11, <1>12 DEF StoreInv

(* A collection takes the end of the list, expired sessions all, and the   *)
(* same sessions from the map (sessionProvider.go:47-58).                  *)
LEMMA CollectKeepsStore ==
    ASSUME StoreInv, SessionGC
    PROVE  /\ StoreInv' /\ heap' = heap
           /\ Listed' \subseteq Listed
           /\ \A o \in Listed \ Listed' : Expired(o)
<1>1. PICK n \in 0 .. Len(list) :
         /\ Kept(n)
         /\ list' = SubSeq(list, 1, n)
         /\ sessions' = [s \in Sids |->
                           IF \E i \in DOMAIN list : i > n /\ heap[list[i]].sid = s
                           THEN NoObj ELSE sessions[s]]
  BY DEF SessionGC
<1>2. heap' = heap
  BY DEF SessionGC
<1>3. /\ Len(list) \in Nat /\ n \in Nat /\ DOMAIN list = 1 .. Len(list)
      /\ \A i \in DOMAIN list : list[i] \in Objects
  BY ListPlaces DEF StoreInv
<1>4. /\ list' \in Seq(Objects) /\ DOMAIN list' = 1 .. n
      /\ \A i \in 1 .. n : i \in DOMAIN list /\ list'[i] = list[i]
  BY <1>1, <1>3, SubSeqProperties, LenProperties DEF StoreInv, StoreTypes
<1>5. Listed' \subseteq Listed
  BY <1>4 DEF Listed
<1>6. ASSUME NEW i \in DOMAIN list
      PROVE  IF i > n THEN Expired(list[i]) /\ list[i] \notin Listed' ELSE list[i] \in Listed'
  <2>1. CASE i > n
    <3>1. \A j \in 1 .. n : list[j] # list[i]
      BY <1>3, <1>4, <2>1 DEF StoreInv, MapMatchesList
    <3> QED BY <1>1, <1>4, <2>1, <3>1 DEF Kept, Listed
  <2>2. CASE ~ (i > n)
    <3>1. i \in 1 .. n
      BY <1>3, <2>2
    <3> QED BY <1>4, <2>2, <3>1 DEF Listed
  <2> QED BY <2>1, <2>2
<1>7. \A o \in Listed \ Listed' : Expired(o)
  BY <1>6 DEF Listed
<1>8. \A s \in Sids : sessions'[s] = IF sessions[s] \in Listed' THEN sessions[s] ELSE NoObj
  <2> SUFFICES ASSUME NEW s \in Sids
               PROVE  sessions'[s] = IF sessions[s] \in Listed' THEN sessions[s] ELSE NoObj
    OBVIOUS
  <2>1. ASSUME NEW i \in DOMAIN list, i > n, heap[list[i]].sid = s
        PROVE  sessions[s] \notin Listed'
    <3>1. list[i] \in Listed
      BY DEF Listed
    <3>2. sessions[s] = list[i]
      BY <2>1, <3>1, MappedIsListed
    <3> QED BY <1>6, <2>1, <3>2
  <2>2. ASSUME sessions[s] # NoObj, sessions[s] \notin Listed'
        PROVE  \E i \in DOMAIN list : i > n /\ heap[list[i]].sid = s
    <3>1. sessions[s] \in Listed /\ heap[sessions[s]].sid = s
      BY <2>2, MappedIsListed
    <3>2. PICK i \in DOMAIN list : list[i] = sessions[s]
      BY <3>1 DEF Listed
    <3> QED BY <1>6, <2>2, <3>1, <3>2
  <2>3. NoObj \notin Listed'
    BY <1>5, ListPlaces, SessionAssumption DEF StoreInv
  <2> QED BY <1>1, <2>1, <2>2, <2>3
<1>9. StoreTypes'
  <2>1. sessions' \in [Sids -> Objects \cup {NoObj}]
    <3>1. DOMAIN sessions' = Sids /\ sessions' = [s \in Sids |-> sessions'[s]]
      BY <1>1
    <3>2. \A s \in Sids : sessions'[s] \in Objects \cup {NoObj}
      BY <1>8 DEF StoreInv, StoreTypes
    <3> QED BY <3>1, <3>2
  <2> QED BY <1>2, <1>4, <2>1 DEF StoreInv, StoreTypes
<1>10. MapMatchesList'
  <2>1. \A i, j \in DOMAIN list' : list'[i] = list'[j] => i = j
    BY <1>4 DEF StoreInv, MapMatchesList
  <2>2. Listed' = {sessions'[s] : s \in Sids} \ {NoObj}
    <3>1. \A o \in Listed' : \E s \in Sids : sessions'[s] = o
      BY <1>5, <1>8, MappedIsListed
    <3>2. NoObj \notin Listed'
      BY <1>5, ListPlaces, SessionAssumption DEF StoreInv
    <3> QED BY <1>8, <3>1, <3>2
  <2>3. \A s \in Sids : sessions'[s] # NoObj => heap'[sessions'[s]].sid = s
    BY <1>2, <1>8, MappedIsListed
  <2> QED BY <2>1, <2>2, <2>3 DEF MapMatchesList
<1>11. ListOrdered'
  BY <1>2, <1>3, <1>4 DEF StoreInv, ListOrdered
<1> QED BY <1>2, <1>5, <1>7, <1>9, <1>10, <1>11 DEF StoreInv

(* What only touches values and lets sessions age leaves the order.        *)
LEMMA SameList ==
    ASSUME StoreInv, UNCHANGED <<sessions, list>>, heap' \in [Objects -> Store],
           \A x \in Objects : heap'[x].sid = heap[x].sid /\ heap'[x].touched = heap[x].touched,
           \A x, y \in Objects : heap[x].age <= heap[y].age => heap'[x].age <= heap'[y].age
    PROVE  StoreInv' /\ Listed' = Listed
<1>1. Listed' = Listed
  BY DEF Listed
<1>2. StoreTypes'
  BY DEF StoreInv, StoreTypes
<1>3. MapMatchesList'
  <2>1. \A s \in Sids : sessions[s] # NoObj => sessions[s] \in Objects
    BY DEF StoreInv, StoreTypes
  <2> QED BY <1>1, <2>1 DEF StoreInv, MapMatchesList
<1>4. ListOrdered'
  <2>1. \A i \in DOMAIN list : list[i] \in Objects
    BY ListPlaces DEF StoreInv
  <2>2. \A x \in Objects : heap[x].age \in Nat /\ heap'[x].age \in Nat
    BY SessionAssumption DEF StoreInv, StoreTypes, Store
  <2> QED BY <2>1, <2>2 DEF StoreInv, ListOrdered
<1> QED BY <1>1, <1>2, <1>3, <1>4 DEF StoreInv

(* Time ages every session alike.                                          *)
LEMMA TickKeepsStore ==
    ASSUME StoreInv, Tick
    PROVE  /\ StoreInv' /\ Listed' = Listed
           /\ \A x \in Objects : /\ heap'[x].sid = heap[x].sid
                                 /\ heap'[x].username = heap[x].username
                                 /\ heap'[x].age >= heap[x].age
<1>1. heap' = [x \in Objects |->
                 [heap[x] EXCEPT !.age = IF @ > MaxLife THEN @ ELSE @ + 1]]
      /\ UNCHANGED <<sessions, list>>
  BY DEF Tick
<1>2. MaxLife \in Nat /\ heap \in [Objects -> Store]
  BY SessionAssumption DEF StoreInv, StoreTypes
<1>3. ASSUME NEW x \in Objects
      PROVE  /\ heap'[x] \in Store
             /\ heap'[x].sid = heap[x].sid /\ heap'[x].touched = heap[x].touched
             /\ heap'[x].username = heap[x].username
             /\ heap[x].age \in Nat
             /\ heap'[x].age = IF heap[x].age > MaxLife THEN heap[x].age ELSE heap[x].age + 1
  <2>1. heap[x] \in Store /\ heap[x].age \in 0 .. MaxLife + 1
    BY <1>2 DEF Store
  <2> DEFINE age == IF heap[x].age > MaxLife THEN heap[x].age ELSE heap[x].age + 1
  <2>2. age \in 0 .. MaxLife + 1 /\ heap[x].age \in Nat
    BY <1>2, <2>1
  <2>3. heap'[x] = [heap[x] EXCEPT !.age = age]
    BY <1>1
  <2> HIDE DEF age
  <2>4. /\ heap'[x] \in Store /\ heap'[x].age = age
        /\ heap'[x].sid = heap[x].sid /\ heap'[x].touched = heap[x].touched
        /\ heap'[x].username = heap[x].username
    BY <2>1, <2>2, <2>3 DEF Store
  <2> QED BY <2>2, <2>4 DEF age
<1>4. heap' \in [Objects -> Store]
  <2>1. DOMAIN heap' = Objects /\ heap' = [x \in Objects |-> heap'[x]]
    BY <1>1
  <2> QED BY <1>3, <2>1
<1>5. \A x, y \in Objects : heap[x].age <= heap[y].age => heap'[x].age <= heap'[y].age
  BY <1>2, <1>3
<1>6. StoreInv' /\ Listed' = Listed
  BY <1>1, <1>3, <1>4, <1>5, SameList
<1> QED BY <1>2, <1>3, <1>6

(* A value that is set or deleted moves nothing.                           *)
LEMMA WriteKeepsStore ==
    ASSUME StoreInv, NEW o \in Objects, NEW value \in BOOLEAN,
           heap' = [heap EXCEPT ![o].username = value], UNCHANGED <<sessions, list>>
    PROVE  /\ StoreInv' /\ Listed' = Listed
           /\ heap'[o].username = value
           /\ \A x \in Objects : /\ heap'[x].sid = heap[x].sid /\ heap'[x].age = heap[x].age
                                 /\ x # o => heap'[x] = heap[x]
<1>1. heap \in [Objects -> Store] /\ heap[o] \in Store
  BY DEF StoreInv, StoreTypes
<1> DEFINE store == [heap[o] EXCEPT !.username = value]
<1>2. heap' = [heap EXCEPT ![o] = store]
  BY <1>1
<1>3. /\ store \in Store /\ store.sid = heap[o].sid /\ store.age = heap[o].age
      /\ store.touched = heap[o].touched /\ store.username = value
  BY <1>1 DEF Store
<1> HIDE DEF store
<1>4. /\ heap' \in [Objects -> Store]
      /\ \A x \in Objects : /\ heap'[x].sid = heap[x].sid /\ heap'[x].age = heap[x].age
                            /\ heap'[x].touched = heap[x].touched
                            /\ x # o => heap'[x] = heap[x]
  BY <1>1, <1>2, <1>3
<1>5. StoreInv' /\ Listed' = Listed
  BY <1>4, SameList
<1> QED BY <1>1, <1>2, <1>3, <1>4, <1>5

(* A restart forgets every session.                                        *)
LEMMA EmptyStore ==
    ASSUME sessions = [s \in Sids |-> NoObj], list = <<>>, heap \in [Objects -> Store]
    PROVE  StoreInv /\ Listed = {}
<1>1. DOMAIN list = {} /\ list \in Seq(Objects)
  BY EmptySeq
<1>2. Listed = {}
  BY <1>1 DEF Listed
<1>3. \A s \in Sids : sessions[s] = NoObj
  OBVIOUS
<1> QED BY <1>1, <1>2, <1>3 DEF StoreInv, StoreTypes, MapMatchesList, ListOrdered


-----------------------------------------------------------------------------
(***************************************************************************)
(* The goroutines and the sessions they hold.                              *)
(***************************************************************************)

InUse(o)     == ~ Expired(o) => o \in Listed
StaysUsed(o) == ~ (heap'[o].age > MaxLife) => o \in Listed'

(* InUseStays, with the store and the goroutines it depends on.            *)
SessionInv == StoreInv /\ HandlersOK /\ InUseStays

(* Escaping a session id loses nothing.                                    *)
LEMMA Escapes ==
    /\ \A s \in Sids : QueryEscape(s) \in Cookies /\ QueryUnescape(QueryEscape(s)) = s
    /\ \A cookie \in Cookies :
          QueryUnescape(cookie) \in Sids /\ cookie = QueryEscape(QueryUnescape(cookie))
BY DEF Cookies, QueryEscape, QueryUnescape

(* The types of a goroutine's fields.                                      *)
LEMMA GoroutineFields ==
    ASSUME SessionInv, NEW h \in Handlers
    PROVE  /\ handler[h] \in Goroutine /\ GoroutineOK(handler[h])
           /\ handler[h].cookie \in Cookies \cup {NoCookie}
           /\ handler[h].setCookie \in Cookies \cup {NoCookie, Unset}
           /\ handler[h].sess # NoObj => /\ handler[h].sess \in Objects
                                         /\ handler[h].pc \notin {"idle", "start"}
                                         /\ InUse(handler[h].sess)
           /\ CookieOK(handler[h], heap[handler[h].sess].sid)
<1>1. handler[h] \in Goroutine /\ GoroutineOK(handler[h])
      /\ CookieOK(handler[h], heap[handler[h].sess].sid)
  BY DEF SessionInv, HandlersOK
<1>2. ASSUME handler[h].sess # NoObj
      PROVE  /\ handler[h].sess \in Objects /\ handler[h].pc \notin {"idle", "start"}
             /\ InUse(handler[h].sess)
  BY <1>1, <1>2 DEF GoroutineOK, PlaceOK, SessionInv, InUseStays, InUse
<1> QED BY <1>1, <1>2 DEF Goroutine

(* A step of one goroutine, when the sessions that the others hold stay.   *)
LEMMA OneGoroutine ==
    ASSUME SessionInv, NEW h \in Handlers, NEW g,
           handler' = [handler EXCEPT ![h] = g],
           StoreInv', jar' \in [Clients -> Cookies \cup {NoCookie}], GoroutineOK(g),
           \A q \in Handlers \ {h} : handler[q].sess # NoObj =>
               /\ heap'[handler[q].sess].sid = heap[handler[q].sess].sid
               /\ StaysUsed(handler[q].sess),
           g.sess # NoObj => StaysUsed(g.sess) /\ CookieOK(g, heap'[g.sess].sid)
    PROVE  SessionInv'
<1>1. handler \in [Handlers -> Goroutine] /\ g \in Goroutine
  BY DEF SessionInv, HandlersOK, GoroutineOK
<1>2. handler' \in [Handlers -> Goroutine] /\ handler'[h] = g
      /\ \A q \in Handlers \ {h} : handler'[q] = handler[q]
  BY <1>1
<1>3. \A q \in Handlers : GoroutineOK(handler'[q])
  BY <1>2 DEF SessionInv, HandlersOK
<1>4. ASSUME NEW q \in Handlers
      PROVE  /\ CookieOK(handler'[q], heap'[handler'[q].sess].sid)
             /\ handler'[q].sess # NoObj => StaysUsed(handler'[q].sess)
  <2>1. CASE q = h
    <3>1. g.sess = NoObj => g.pc \in {"idle", "start"}
      BY SessionAssumption DEF GoroutineOK
    <3> QED BY <1>2, <2>1, <3>1 DEF CookieOK
  <2>2. CASE q # h
    <3>1. CookieOK(handler[q], heap[handler[q].sess].sid) /\ handler'[q] = handler[q]
      BY <1>2, <2>2, GoroutineFields
    <3>2. CASE handler[q].sess = NoObj
      <4>1. handler[q].pc \in {"idle", "start"}
        BY <3>2, GoroutineFields, SessionAssumption DEF GoroutineOK
      <4> QED BY <3>1, <3>2, <4>1 DEF CookieOK
    <3>3. CASE handler[q].sess # NoObj
      BY <2>2, <3>1, <3>3
    <3> QED BY <3>2, <3>3
  <2> QED BY <2>1, <2>2
<1>5. HandlersOK'
  BY <1>2, <1>3, <1>4 DEF HandlersOK, GoroutineOK, Goroutine, PlaceOK, CookieOK
<1>6. InUseStays'
  BY <1>4 DEF InUseStays, StaysUsed, Expired
<1> QED BY <1>5, <1>6 DEF SessionInv

(* What a change of the store does to a session somebody holds.            *)
LEMMA HeldStays ==
    ASSUME SessionInv, NEW q \in Handlers, handler[q].sess # NoObj,
           heap'[handler[q].sess].sid = heap[handler[q].sess].sid,
           heap'[handler[q].sess].age >= heap[handler[q].sess].age
               \/ handler[q].sess \in Listed',
           heap'[handler[q].sess].age \in Nat,
           \A o \in Listed \ Listed' : Expired(o)
    PROVE  /\ heap'[handler[q].sess].sid = heap[handler[q].sess].sid
           /\ StaysUsed(handler[q].sess)
<1>1. PICK o \in Objects : o = handler[q].sess
  BY GoroutineFields
<1>2. InUse(o) /\ heap[o].age \in Nat /\ MaxLife \in Nat
  BY <1>1, GoroutineFields, SessionAssumption DEF SessionInv, StoreInv, StoreTypes, Store
<1>3. StaysUsed(o)
  BY <1>1, <1>2 DEF InUse, StaysUsed, Expired
<1> QED BY <1>1, <1>3


(* The sessions that goroutines hold are unharmed, values included.        *)
HeldUnharmed ==
    \A q \in Handlers : handler[q].sess # NoObj =>
        /\ heap'[handler[q].sess].sid = heap[handler[q].sess].sid
        /\ StaysUsed(handler[q].sess)
        /\ heap'[handler[q].sess].username = heap[handler[q].sess].username

(* A step that leaves the store alone.                                     *)
LEMMA SameHeld ==
    ASSUME SessionInv, UNCHANGED <<sessions, list, heap>>
    PROVE  StoreInv' /\ HeldUnharmed
<1>1. StoreInv' /\ Listed' = Listed
  BY SameStore DEF SessionInv
<1>2. ASSUME NEW q \in Handlers, handler[q].sess # NoObj PROVE StaysUsed(handler[q].sess)
  BY <1>1, <1>2, GoroutineFields DEF InUse, StaysUsed, Expired
<1> QED BY <1>1, <1>2 DEF HeldUnharmed

(* SessionUpdate, of whichever session.                                    *)
LEMMA UpdateHeld ==
    ASSUME SessionInv, NEW o \in Objects, SessionUpdate(o), UNCHANGED sessions
    PROVE  StoreInv' /\ HeldUnharmed
<1>1. /\ StoreInv' /\ Listed' = Listed
      /\ \A x \in Objects : /\ heap'[x].sid = heap[x].sid
                            /\ heap'[x].username = heap[x].username
                            /\ x \in Listed \/ heap'[x] = heap[x]
  BY UpdateKeepsStore DEF SessionInv
<1>2. ASSUME NEW q \in Handlers, handler[q].sess # NoObj PROVE StaysUsed(handler[q].sess)
  <2>1. handler[q].sess \in Objects /\ InUse(handler[q].sess)
    BY <1>2, GoroutineFields
  <2> QED BY <1>1, <2>1 DEF InUse, StaysUsed, Expired
<1> QED BY <1>1, <1>2, GoroutineFields DEF HeldUnharmed

(* SessionInit at a place that nobody can reach.                           *)
LEMMA InitHeld ==
    ASSUME SessionInv, NEW o \in Objects, NEW sid \in Sids, sessions[sid] = NoObj,
           SessionInit(o, sid)
    PROVE  /\ StoreInv' /\ HeldUnharmed
           /\ heap'[o].sid = sid /\ o \in Listed'
<1>1. o \notin Listed /\ \A q \in Handlers : handler[q].sess # o
  BY DEF SessionInit, Unreachable
<1>2. /\ StoreInv' /\ Listed' = Listed \cup {o}
      /\ heap'[o] = NewStore(sid)
      /\ \A x \in Objects \ {o} : heap'[x] = heap[x]
  BY <1>1, InitKeepsStore DEF SessionInv
<1>3. ASSUME NEW q \in Handlers, handler[q].sess # NoObj
      PROVE  heap'[handler[q].sess] = heap[handler[q].sess] /\ StaysUsed(handler[q].sess)
  <2>1. handler[q].sess \in Objects \ {o} /\ InUse(handler[q].sess)
    BY <1>1, <1>3, GoroutineFields
  <2> QED BY <1>2, <2>1 DEF InUse, StaysUsed, Expired
<1>4. HeldUnharmed
  BY <1>3 DEF HeldUnharmed
<1> QED BY <1>2, <1>4 DEF NewStore

(* A goroutine that goes on elsewhere, perhaps with another session.       *)
LEMMA GoesOn ==
    ASSUME SessionInv, StoreInv', HeldUnharmed, UNCHANGED jar, NEW h \in Handlers, NEW g,
           handler' = [handler EXCEPT ![h] = g], GoroutineOK(g), g.sess \in Objects,
           StaysUsed(g.sess), CookieOK(g, heap'[g.sess].sid)
    PROVE  SessionInv'
BY OneGoroutine DEF HeldUnharmed, SessionInv, HandlersOK

(* The ranges of a goroutine's fields, named.                              *)
AnswerCodes == {200, 400, 401, 403}
OpRange     == Ops \cup {Unset}
ClientRange == Clients \cup {Unset}
CookieRange == Cookies \cup {NoCookie}
SessRange   == Objects \cup {NoObj}
SentRange   == Cookies \cup {NoCookie, Unset}
AnswerRange == {200, 400, 401, 403, Unset}

GoroutineSet == [pc : PCs, op : OpRange, client : ClientRange, cookie : CookieRange,
                 sess : SessRange, setCookie : SentRange, answer : AnswerRange]

(* A goroutine's record has fields in these ranges.                        *)
LEMMA GoroutineRecord == Goroutine = GoroutineSet
BY ZenonT(60) DEF Goroutine, GoroutineSet, OpRange, ClientRange, CookieRange, SessRange,
             SentRange, AnswerRange

(* Going on keeps a goroutine a goroutine.                                 *)
LEMMA GoroutineSteps ==
    ASSUME NEW r \in Goroutine, NEW pc \in PCs, NEW o \in Objects \cup {NoObj},
           NEW cookie \in Cookies \cup {NoCookie, Unset}
    PROVE  /\ [r EXCEPT !.pc = pc] \in Goroutine
           /\ [r EXCEPT !.pc = pc, !.setCookie = cookie] \in Goroutine
           /\ [r EXCEPT !.pc = pc, !.sess = o] \in Goroutine
           /\ [r EXCEPT !.pc = pc, !.sess = o, !.setCookie = cookie] \in Goroutine
<1>1. r \in GoroutineSet /\ pc \in PCs /\ o \in SessRange /\ cookie \in SentRange
  BY GoroutineRecord DEF SessRange, SentRange
<1>2. [r EXCEPT !.pc = pc] \in GoroutineSet
  BY <1>1 DEF GoroutineSet
<1>3. [r EXCEPT !.pc = pc, !.setCookie = cookie] \in GoroutineSet
  BY <1>1 DEF GoroutineSet
<1>4. [r EXCEPT !.pc = pc, !.sess = o] \in GoroutineSet
  BY <1>1 DEF GoroutineSet
<1>5. [r EXCEPT !.pc = pc, !.sess = o, !.setCookie = cookie] \in GoroutineSet
  BY <1>1 DEF GoroutineSet
<1> QED BY <1>2, <1>3, <1>4, <1>5, GoroutineRecord

(* A goroutine that rests is one.                                          *)
LEMMA RestingType ==
    /\ Resting \in Goroutine
    /\ Resting.pc = "idle" /\ Resting.cookie = NoCookie /\ Resting.setCookie = Unset
    /\ Resting.sess = NoObj
<1>1. Unset \in AnswerRange
  BY ZenonT(60) DEF AnswerRange
<1>2. /\ "idle" \in PCs /\ Unset \in OpRange /\ Unset \in ClientRange
      /\ NoCookie \in CookieRange /\ NoObj \in SessRange /\ Unset \in SentRange
  BY DEF PCs, OpRange, ClientRange, CookieRange, SessRange, SentRange
<1>3. Resting \in GoroutineSet
  BY <1>1, <1>2 DEF Resting, GoroutineSet
<1> QED BY <1>3, GoroutineRecord DEF Resting

(* So is one that has just answered.                                       *)
LEMMA AnsweringType ==
    ASSUME NEW op \in Ops \cup {Unset}, NEW code \in AnswerCodes
    PROVE  LET g == [Resting EXCEPT !.op = op, !.answer = code]
           IN  /\ g \in Goroutine /\ g.answer = code
               /\ g.pc = "idle" /\ g.cookie = NoCookie /\ g.setCookie = Unset /\ g.sess = NoObj
<1>1. AnswerCodes \subseteq AnswerRange
  BY ZenonT(60) DEF AnswerRange, AnswerCodes
<1>2. Resting \in GoroutineSet /\ op \in OpRange /\ code \in AnswerRange
  BY <1>1, RestingType, GoroutineRecord DEF OpRange
<1> DEFINE g == [Resting EXCEPT !.op = op, !.answer = code]
<1>3. /\ g \in GoroutineSet /\ g.answer = code /\ g.pc = Resting.pc
      /\ g.cookie = Resting.cookie /\ g.setCookie = Resting.setCookie /\ g.sess = Resting.sess
  BY <1>2 DEF GoroutineSet
<1> QED BY <1>3, RestingType, GoroutineRecord

(* A goroutine as Begin leaves it.                                         *)
Beginning(c, op, cookie) ==
    [Resting EXCEPT !.pc = "start", !.op = op, !.client = c, !.cookie = cookie]

(* And so is one that begins to serve a request.                           *)
LEMMA BeginningType ==
    ASSUME NEW c \in Clients, NEW op \in Ops, NEW cookie \in Cookies \cup {NoCookie}
    PROVE  LET g == Beginning(c, op, cookie)
           IN  /\ g \in Goroutine /\ g.pc = "start" /\ g.op = op /\ g.client = c
               /\ g.cookie = cookie /\ g.setCookie = Unset /\ g.sess = NoObj
<1>1. /\ Resting \in GoroutineSet /\ op \in OpRange /\ c \in ClientRange
      /\ cookie \in CookieRange /\ "start" \in PCs
  BY RestingType, GoroutineRecord DEF OpRange, ClientRange, CookieRange, PCs
<1> DEFINE g == Beginning(c, op, cookie)
<1>2. /\ g \in GoroutineSet /\ g.pc = "start" /\ g.op = op /\ g.client = c
      /\ g.cookie = cookie /\ g.setCookie = Resting.setCookie /\ g.sess = Resting.sess
  BY <1>1 DEF GoroutineSet, Beginning
<1> QED BY <1>2, RestingType, GoroutineRecord

(* SessionStart without a cookie (sessionManager.go:66-71).                *)
LEMMA NewSessionKeeps ==
    ASSUME SessionInv, NEW h \in Handlers, handler[h].pc \in {"start", "check"},
           NewSession(h, AfterStart(h)), UNCHANGED jar
    PROVE  SessionInv'
<1>1. PICK sid \in Sids, o \in Objects :
         /\ Unused(sid) /\ SessionInit(o, sid)
         /\ handler' = [handler EXCEPT ![h].pc = AfterStart(h), ![h].sess = o,
                                       ![h].setCookie = QueryEscape(sid)]
  BY DEF NewSession
<1>2. StoreInv' /\ HeldUnharmed /\ heap'[o].sid = sid /\ StaysUsed(o)
  BY <1>1, InitHeld DEF Unused, StaysUsed
<1>3. handler[h] \in Goroutine /\ PlaceOK(handler[h]) /\ handler[h].client \in Clients
      /\ handler[h].cookie = NoCookie
  BY GoroutineFields DEF GoroutineOK, NewSession
<1> DEFINE g == [handler[h] EXCEPT !.pc = AfterStart(h), !.sess = o,
                                   !.setCookie = QueryEscape(sid)]
<1>4. handler' = [handler EXCEPT ![h] = g]
  BY <1>1 DEF SessionInv, HandlersOK
<1>5. /\ g.pc = AfterStart(h) /\ g.sess = o /\ g.setCookie = QueryEscape(sid)
      /\ g.op = handler[h].op /\ g.client = handler[h].client /\ g.cookie = handler[h].cookie
  BY <1>3 DEF Goroutine
<1>6. AfterStart(h) \in PCs
  BY DEF AfterStart, PCs
<1>7. g \in Goroutine
  BY <1>3, <1>6, Escapes, GoroutineSteps
<1> HIDE DEF g
<1>8. PlaceOK(g)
  BY <1>3, <1>5 DEF PlaceOK, AfterStart
<1>9. GoroutineOK(g) /\ CookieOK(g, sid)
  BY <1>3, <1>5, <1>7, <1>8 DEF GoroutineOK, CookieOK
<1> QED BY <1>2, <1>4, <1>5, <1>9, GoesOn

(* SessionStart with one (sessionManager.go:72-75, sessionProvider.go:25). *)
LEMMA SessionReadKeeps ==
    ASSUME SessionInv, NEW h \in Handlers, handler[h].pc \in {"start", "check"},
           SessionRead(h, AfterStart(h)), UNCHANGED jar
    PROVE  SessionInv'
<1> DEFINE sid == QueryUnescape(handler[h].cookie)
<1>1. handler[h] \in Goroutine /\ PlaceOK(handler[h]) /\ handler[h].client \in Clients
      /\ handler[h].cookie \in Cookies /\ sid \in Sids /\ handler[h].cookie = QueryEscape(sid)
  <2>1. handler[h].cookie \in Cookies
    BY GoroutineFields DEF SessionRead
  <2> QED BY <2>1, GoroutineFields, Escapes DEF GoroutineOK
<1>2. \E o \in Objects : /\ StoreInv' /\ HeldUnharmed /\ heap'[o].sid = sid /\ StaysUsed(o)
                         /\ handler' = [handler EXCEPT ![h].pc = AfterStart(h), ![h].sess = o]
  <2>1. CASE sessions[sid] # NoObj
    <3>1. /\ handler' = [handler EXCEPT ![h].pc = AfterStart(h), ![h].sess = sessions[sid]]
          /\ UNCHANGED <<sessions, list, heap>>
      BY <2>1 DEF SessionRead
    <3>2. StoreInv' /\ HeldUnharmed /\ Listed' = Listed
      BY <3>1, SameHeld, SameStore DEF SessionInv
    <3>3. sessions[sid] \in Objects /\ sessions[sid] \in Listed /\ heap'[sessions[sid]].sid = sid
      BY <1>1, <2>1, <3>1, MappedIsListed DEF SessionInv
    <3> QED BY <3>1, <3>2, <3>3 DEF StaysUsed
  <2>2. CASE sessions[sid] = NoObj
    <3>1. PICK o \in Objects :
             /\ SessionInit(o, sid)
             /\ handler' = [handler EXCEPT ![h].pc = AfterStart(h), ![h].sess = o]
      BY <2>2 DEF SessionRead
    <3> QED BY <1>1, <2>2, <3>1, InitHeld DEF StaysUsed
  <2> QED BY <2>1, <2>2
<1>3. PICK o \in Objects :
         /\ StoreInv' /\ HeldUnharmed /\ heap'[o].sid = sid /\ StaysUsed(o)
         /\ handler' = [handler EXCEPT ![h].pc = AfterStart(h), ![h].sess = o]
  BY <1>2
<1> DEFINE g == [handler[h] EXCEPT !.pc = AfterStart(h), !.sess = o]
<1>4. handler' = [handler EXCEPT ![h] = g]
  BY <1>3 DEF SessionInv, HandlersOK
<1>5. /\ g.pc = AfterStart(h) /\ g.sess = o /\ g.setCookie = handler[h].setCookie
      /\ g.op = handler[h].op /\ g.client = handler[h].client /\ g.cookie = handler[h].cookie
  BY <1>1 DEF Goroutine
<1>6. AfterStart(h) \in PCs
  BY DEF AfterStart, PCs
<1>7. g \in Goroutine
  BY <1>1, <1>6, GoroutineSteps
<1> HIDE DEF g
<1>8. PlaceOK(g)
  BY <1>1, <1>5 DEF PlaceOK, AfterStart
<1>9. CookieOK(g, sid)
  <2>1. handler[h].cookie # NoCookie /\ Unset # NoCookie
    BY <1>1, CookieAssumption
  <2>2. CASE handler[h].pc = "start"
    <3>1. handler[h].setCookie = Unset
      BY <1>1, <2>2 DEF PlaceOK
    <3>2. ~ (g.op = "logout" /\ g.pc \in {"check", "getUpdate", "read"})
      BY <1>5, <2>2 DEF AfterStart
    <3> QED BY <1>1, <1>5, <2>1, <3>1, <3>2 DEF CookieOK
  <2>3. CASE handler[h].pc = "check"
    <3>1. handler[h].op = "logout" /\ handler[h].setCookie = NoCookie
      BY <1>1, <2>1, <2>3, GoroutineFields DEF PlaceOK, CookieOK
    <3>2. g.op = "logout" /\ g.pc = "getUpdate"
      BY <1>5, <2>3, <3>1 DEF AfterStart
    <3> QED BY <1>1, <1>5, <2>1, <3>1, <3>2 DEF CookieOK
  <2> QED BY <2>2, <2>3
<1>10. GoroutineOK(g)
  BY <1>1, <1>5, <1>7, <1>8 DEF GoroutineOK
<1> QED BY <1>3, <1>4, <1>5, <1>9, <1>10, GoesOn


(* A goroutine that goes on with the session it has.                       *)
LEMMA MovesOn ==
    ASSUME SessionInv, StoreInv', HeldUnharmed, UNCHANGED jar, NEW h \in Handlers,
           NEW g \in Goroutine, handler' = [handler EXCEPT ![h] = g],
           handler[h].pc \notin {"idle", "start"}, g.pc \notin {"idle", "start"},
           g.sess = handler[h].sess, g.op = handler[h].op, g.client = handler[h].client,
           g.cookie = handler[h].cookie,
           PlaceOK(g),
           g.cookie = NoCookie => g.setCookie = handler[h].setCookie,
           g.cookie # NoCookie =>
               /\ g.setCookie \in {Unset, NoCookie}
               /\ g.setCookie = NoCookie <=>
                      g.op = "logout" /\ g.pc \in {"check", "getUpdate", "read"}
    PROVE  SessionInv'
<1> DEFINE o == handler[h].sess
<1>1. /\ GoroutineOK(handler[h]) /\ o \in Objects /\ CookieOK(handler[h], heap[o].sid)
  BY GoroutineFields DEF GoroutineOK
<1>2. GoroutineOK(g)
  BY <1>1 DEF GoroutineOK
<1>3. heap'[o].sid = heap[o].sid /\ StaysUsed(o)
  BY <1>1, SessionAssumption DEF HeldUnharmed
<1>4. CookieOK(g, heap[o].sid)
  BY <1>1 DEF CookieOK
<1> HIDE DEF o
<1> QED BY <1>1, <1>2, <1>3, <1>4, GoesOn DEF o

(* What SessionDestroy is given is no session id, so that it removes       *)
(* nothing (sessionManager.go:80-94, sessionProvider.go:34-41).            *)
LEMMA DestroyKeeps ==
    ASSUME SessionInv, NEW h \in Handlers, SessionDestroy(h)
    PROVE  /\ SessionInv' /\ UNCHANGED <<sessions, list, heap, jar>>
           /\ handler' = [handler EXCEPT ![h].pc = "check",
                 ![h].setCookie = IF handler[h].cookie = NoCookie THEN @ ELSE NoCookie]
<1> DEFINE cookie == IF handler[h].cookie = NoCookie THEN handler[h].setCookie ELSE NoCookie
<1>1. handler[h].cookie \notin Sids
  BY GoroutineFields, CookieAssumption
<1>2. /\ UNCHANGED <<sessions, list, heap, jar>> /\ handler[h].pc = "destroy"
      /\ handler' = [handler EXCEPT ![h].pc = "check",
            ![h].setCookie = IF handler[h].cookie = NoCookie THEN @ ELSE NoCookie]
  BY <1>1 DEF SessionDestroy
<1> DEFINE g == [handler[h] EXCEPT !.pc = "check", !.setCookie = cookie]
<1>3. handler' = [handler EXCEPT ![h] = g]
  BY <1>2 DEF SessionInv, HandlersOK, Goroutine
<1>4. /\ cookie \in Cookies \cup {NoCookie, Unset} /\ "check" \in PCs
      /\ handler[h] \in Goroutine /\ GoroutineOK(handler[h]) /\ PlaceOK(handler[h])
      /\ handler[h].op = "logout"
      /\ handler[h].cookie # NoCookie => cookie = NoCookie
      /\ handler[h].cookie = NoCookie => cookie = handler[h].setCookie
  BY <1>2, GoroutineFields DEF GoroutineOK, PlaceOK, PCs
<1> HIDE DEF cookie
<1>5. /\ g.pc = "check" /\ g.setCookie = cookie /\ g.sess = handler[h].sess
      /\ g.op = handler[h].op /\ g.client = handler[h].client /\ g.cookie = handler[h].cookie
  BY <1>4 DEF Goroutine
<1>6. g \in Goroutine
  BY <1>4, GoroutineSteps
<1> HIDE DEF g
<1>7. StoreInv' /\ HeldUnharmed /\ PlaceOK(g)
  BY <1>2, <1>4, <1>5, SameHeld DEF PlaceOK
<1>8. SessionInv'
  BY <1>2, <1>3, <1>4, <1>5, <1>6, <1>7, MovesOn
<1> QED BY <1>2, <1>8

(* The effect of an answer.                                                *)
LEMMA ReplyEffect ==
    ASSUME SessionInv, NEW h \in Handlers, NEW code \in AnswerCodes,
           Reply(h, code), handler[h].pc # "idle"
    PROVE  /\ handler[h].client \in Clients
           /\ \A q \in Handlers \ {h} : handler'[q] = handler[q]
           /\ handler' = [handler EXCEPT ![h] = [Resting EXCEPT !.op = handler[h].op,
                                                              !.answer = code]]
           /\ handler'[h].pc = "idle" /\ handler'[h].cookie = NoCookie
           /\ handler'[h].setCookie = Unset /\ handler'[h].sess = NoObj
           /\ handler'[h].answer = code
           /\ jar' \in [Clients -> Cookies \cup {NoCookie}]
           /\ \A c \in Clients :
                 jar'[c] = IF handler[h].setCookie # Unset /\ c = handler[h].client
                           THEN handler[h].setCookie ELSE jar[c]
<1>1. handler \in [Handlers -> Goroutine] /\ jar \in [Clients -> Cookies \cup {NoCookie}]
  BY DEF SessionInv, HandlersOK
<1>2. handler[h].client \in Clients /\ handler[h].setCookie \in Cookies \cup {NoCookie, Unset}
  BY GoroutineFields DEF GoroutineOK
<1> DEFINE g == [Resting EXCEPT !.op = handler[h].op, !.answer = code]
<1>3. /\ g.pc = "idle" /\ g.cookie = NoCookie /\ g.setCookie = Unset /\ g.sess = NoObj
      /\ g.answer = code
  <2>1. handler[h].op \in Ops \cup {Unset}
    BY GoroutineFields DEF Goroutine
  <2> QED BY <2>1, AnsweringType
<1>4. handler' = [handler EXCEPT ![h] = g]
  BY DEF Reply
<1> HIDE DEF g
<1>5. handler'[h] = g /\ \A q \in Handlers \ {h} : handler'[q] = handler[q]
  BY <1>1, <1>4
<1>6. /\ jar' \in [Clients -> Cookies \cup {NoCookie}]
      /\ \A c \in Clients :
                 jar'[c] = IF handler[h].setCookie # Unset /\ c = handler[h].client
                           THEN handler[h].setCookie ELSE jar[c]
  BY <1>1, <1>2 DEF Reply
<1> QED BY <1>2, <1>3, <1>4, <1>5, <1>6 DEF g

(* An answer, when the store is what it was for the others.                *)
LEMMA ReplyKeeps ==
    ASSUME SessionInv, StoreInv', HeldUnharmed, NEW h \in Handlers,
           NEW code \in AnswerCodes, Reply(h, code), handler[h].pc # "idle"
    PROVE  SessionInv'
<1> DEFINE g == [Resting EXCEPT !.op = handler[h].op, !.answer = code]
<1>1. handler' = [handler EXCEPT ![h] = g] /\ jar' \in [Clients -> Cookies \cup {NoCookie}]
  BY ReplyEffect
<1>2. handler[h].op \in Ops \cup {Unset}
  BY GoroutineFields DEF Goroutine
<1>3. /\ g \in Goroutine
      /\ g.pc = "idle" /\ g.cookie = NoCookie /\ g.setCookie = Unset /\ g.sess = NoObj
  BY <1>2, AnsweringType
<1> HIDE DEF g
<1>4. GoroutineOK(g)
  BY <1>3 DEF GoroutineOK, PlaceOK
<1> QED BY <1>1, <1>3, <1>4, OneGoroutine DEF HeldUnharmed

(* A request begins.                                                       *)
LEMMA BeginKeeps ==
    ASSUME SessionInv, NEW h \in Handlers, NEW c \in Clients, NEW op \in Ops, Begin(h, c, op)
    PROVE  /\ SessionInv'
           /\ handler[h].pc = "idle"
           /\ \A q \in Handlers \ {h} : handler'[q] = handler[q]
           /\ handler'[h].pc = "start" /\ handler'[h].client = c
           /\ handler'[h].cookie = jar[c] /\ handler'[h].setCookie = Unset
<1> DEFINE g == Beginning(c, op, jar[c])
<1>1. /\ handler' = [handler EXCEPT ![h] = g] /\ handler[h].pc = "idle"
      /\ UNCHANGED <<sessions, list, heap, jar>>
  BY DEF Begin, Beginning
<1>3. jar \in [Clients -> Cookies \cup {NoCookie}] /\ handler \in [Handlers -> Goroutine]
  BY DEF SessionInv, HandlersOK
<1>5. /\ g \in Goroutine
      /\ g.pc = "start" /\ g.client = c /\ g.cookie = jar[c] /\ g.setCookie = Unset
      /\ g.sess = NoObj /\ g.op = op
  <2>1. jar[c] \in Cookies \cup {NoCookie}
    BY <1>3
  <2> QED BY <2>1, BeginningType
<1> HIDE DEF g
<1>6. GoroutineOK(g)
  BY <1>5, SessionAssumption DEF GoroutineOK, PlaceOK
<1>7. StoreInv' /\ HeldUnharmed
  BY <1>1, SameHeld
<1>8. SessionInv'
  BY <1>1, <1>3, <1>5, <1>6, <1>7, OneGoroutine DEF HeldUnharmed
<1> QED BY <1>1, <1>3, <1>5, <1>8


(* A goroutine at one place goes to another, with what it has.             *)
LEMMA Steps ==
    ASSUME SessionInv, StoreInv', HeldUnharmed, UNCHANGED jar, NEW h \in Handlers,
           NEW pc \in PCs, handler' = [handler EXCEPT ![h].pc = pc],
           \/ handler[h].pc = "write" /\ pc = "setUpdate"
           \/ handler[h].pc = "setUpdate" /\ pc = "destroy" /\ handler[h].op = "logout"
           \/ handler[h].pc = "getUpdate" /\ pc = "read"
    PROVE  SessionInv'
<1> DEFINE g == [handler[h] EXCEPT !.pc = pc]
<1>1. handler' = [handler EXCEPT ![h] = g]
  BY DEF SessionInv, HandlersOK
<1>2. /\ handler[h] \in Goroutine /\ PlaceOK(handler[h])
      /\ CookieOK(handler[h], heap[handler[h].sess].sid)
      /\ handler[h].setCookie \in Cookies \cup {NoCookie, Unset}
  BY GoroutineFields DEF GoroutineOK
<1>3. /\ g.pc = pc /\ g.setCookie = handler[h].setCookie /\ g.sess = handler[h].sess
      /\ g.op = handler[h].op /\ g.client = handler[h].client /\ g.cookie = handler[h].cookie
  BY <1>2 DEF Goroutine
<1>4. g \in Goroutine
  BY <1>2, GoroutineSteps
<1> HIDE DEF g
<1>5. PlaceOK(g)
  BY <1>2, <1>3 DEF PlaceOK
<1>6. g.cookie # NoCookie =>
               /\ g.setCookie \in {Unset, NoCookie}
               /\ g.setCookie = NoCookie <=>
                      g.op = "logout" /\ g.pc \in {"check", "getUpdate", "read"}
  BY <1>2, <1>3 DEF CookieOK
<1>7. handler[h].pc \notin {"idle", "start"} /\ g.pc \notin {"idle", "start"}
  BY <1>3
<1> QED BY <1>1, <1>3, <1>4, <1>5, <1>6, <1>7, MovesOn

(* Store.Set and Store.Delete change the value (sessionStore.go:13-31).    *)
LEMMA WriteKeeps ==
    ASSUME SessionInv, NEW h \in Handlers, WriteValue(h)
    PROVE  /\ SessionInv'
           /\ handler[h].sess \in Objects
           /\ heap'[handler[h].sess].username = (handler[h].op = "login")
           /\ \A x \in Objects \ {handler[h].sess} : heap'[x] = heap[x]
<1> DEFINE o == handler[h].sess
<1>1. /\ handler[h].pc = "write" /\ UNCHANGED <<sessions, list, jar>>
      /\ heap' = [heap EXCEPT ![o].username = (handler[h].op = "login")]
      /\ handler' = [handler EXCEPT ![h].pc = "setUpdate"]
  BY DEF WriteValue
<1>2. o \in Objects
  BY <1>1, GoroutineFields DEF GoroutineOK
<1> HIDE DEF o
<1>3. /\ StoreInv' /\ Listed' = Listed
      /\ heap'[o].username = (handler[h].op = "login")
      /\ \A x \in Objects : /\ heap'[x].sid = heap[x].sid /\ heap'[x].age = heap[x].age
                            /\ x # o => heap'[x] = heap[x]
  <2>1. PICK value \in BOOLEAN : value = (handler[h].op = "login")
    OBVIOUS
  <2> QED BY <1>1, <1>2, <2>1, WriteKeepsStore DEF SessionInv
<1>4. \A q \in Handlers : handler[q].sess # NoObj =>
          /\ heap'[handler[q].sess].sid = heap[handler[q].sess].sid
          /\ StaysUsed(handler[q].sess)
  <2> SUFFICES ASSUME NEW q \in Handlers, handler[q].sess # NoObj
               PROVE  /\ heap'[handler[q].sess].sid = heap[handler[q].sess].sid
                      /\ StaysUsed(handler[q].sess)
    OBVIOUS
  <2>1. handler[q].sess \in Objects /\ InUse(handler[q].sess)
    BY GoroutineFields
  <2> QED BY <1>3, <2>1 DEF InUse, StaysUsed, Expired
<1> DEFINE g == [handler[h] EXCEPT !.pc = "setUpdate"]
<1>5. handler' = [handler EXCEPT ![h] = g]
  BY <1>1 DEF SessionInv, HandlersOK
<1>6. /\ handler[h] \in Goroutine /\ GoroutineOK(handler[h]) /\ PlaceOK(handler[h])
      /\ CookieOK(handler[h], heap[handler[h].sess].sid) /\ "setUpdate" \in PCs
      /\ handler[h].sess # NoObj /\ handler[h].client \in Clients
  BY <1>1, <1>2, GoroutineFields, SessionAssumption DEF GoroutineOK, PCs, o
<1>7. /\ g.pc = "setUpdate" /\ g.setCookie = handler[h].setCookie /\ g.sess = handler[h].sess
      /\ g.op = handler[h].op /\ g.client = handler[h].client /\ g.cookie = handler[h].cookie
  BY <1>6 DEF Goroutine
<1>8. g \in Goroutine
  BY <1>6, GoroutineSteps
<1> HIDE DEF g
<1>9. GoroutineOK(g) /\ CookieOK(g, heap[handler[h].sess].sid)
  BY <1>1, <1>2, <1>6, <1>7, <1>8 DEF GoroutineOK, PlaceOK, CookieOK, o
<1>10. g.sess # NoObj => StaysUsed(g.sess) /\ CookieOK(g, heap'[g.sess].sid)
  BY <1>4, <1>6, <1>7, <1>9
<1>11. jar' \in [Clients -> Cookies \cup {NoCookie}]
  BY <1>1 DEF SessionInv, HandlersOK
<1>12. SessionInv'
  BY <1>3, <1>4, <1>5, <1>9, <1>10, <1>11, OneGoroutine
<1> QED BY <1>2, <1>3, <1>12 DEF o

(* SessionUpdate of a handler's session, and what follows it.              *)
LEMMA SetUpdatesKeeps ==
    ASSUME SessionInv, NEW h \in Handlers, SetUpdates(h)
    PROVE  SessionInv' /\ HeldUnharmed
<1>1. handler[h].pc = "setUpdate" /\ SessionUpdate(handler[h].sess) /\ UNCHANGED sessions
  BY DEF SetUpdates
<1>2. handler[h].sess \in Objects
  BY <1>1, GoroutineFields DEF GoroutineOK
<1>3. StoreInv' /\ HeldUnharmed
  BY <1>1, <1>2, UpdateHeld
<1>4. CASE handler[h].op = "login" /\ Reply(h, 200)
  <2>1. 200 \in AnswerCodes
    BY DEF AnswerCodes
  <2> QED BY <1>1, <1>3, <1>4, <2>1, ReplyKeeps
<1>5. CASE /\ handler[h].op = "logout" /\ UNCHANGED jar
           /\ handler' = [handler EXCEPT ![h].pc = "destroy"]
  <2>1. "destroy" \in PCs
    BY DEF PCs
  <2> QED BY <1>1, <1>3, <1>5, <2>1, Steps
<1> QED BY <1>3, <1>4, <1>5 DEF SetUpdates

(* SessionUpdate in Store.Get, before the value is read.                   *)
LEMMA GetUpdatesKeeps ==
    ASSUME SessionInv, NEW h \in Handlers, GetUpdates(h)
    PROVE  SessionInv' /\ HeldUnharmed
<1>1. /\ handler[h].pc = "getUpdate" /\ SessionUpdate(handler[h].sess)
      /\ UNCHANGED <<sessions, jar>> /\ handler' = [handler EXCEPT ![h].pc = "read"]
  BY DEF GetUpdates
<1>2. handler[h].sess \in Objects
  BY <1>1, GoroutineFields DEF GoroutineOK
<1>3. StoreInv' /\ HeldUnharmed
  BY <1>1, <1>2, UpdateHeld
<1>4. "read" \in PCs
  BY DEF PCs
<1> QED BY <1>1, <1>3, <1>4, Steps

(* The answers of a refused login and of isLogin.                          *)
LEMMA AnswerKeeps ==
    ASSUME SessionInv, NEW h \in Handlers, Refuse(h) \/ ReadValue(h)
    PROVE  /\ SessionInv' /\ HeldUnharmed
           /\ handler[h].pc \in {"refuse", "read"} /\ UNCHANGED <<sessions, list, heap>>
           /\ \E code \in AnswerCodes : Reply(h, code)
<1>1. handler[h].pc \in {"refuse", "read"} /\ UNCHANGED <<sessions, list, heap>>
  BY DEF Refuse, ReadValue
<1>2. PICK code \in AnswerCodes : Reply(h, code)
  <2>1. CASE Refuse(h)
    BY <2>1 DEF Refuse, AnswerCodes
  <2>2. CASE ReadValue(h)
    <3>1. handler[h].op \in {"logout", "guarded"}
      BY <2>2, GoroutineFields DEF GoroutineOK, PlaceOK, ReadValue
    <3> QED BY <2>2, <3>1 DEF ReadValue, AnswerCodes
  <2> QED BY <2>1, <2>2
<1>3. StoreInv' /\ HeldUnharmed
  BY <1>1, SameHeld
<1>4. SessionInv'
  BY <1>1, <1>2, <1>3, ReplyKeeps
<1> QED BY <1>1, <1>2, <1>3, <1>4

(* Steps that no goroutine takes part in: collection and time.             *)
LEMMA ElsewhereKeeps ==
    ASSUME SessionInv, UNCHANGED <<handler, jar>>, StoreInv',
           \A x \in Objects : /\ heap'[x].sid = heap[x].sid
                              /\ heap'[x].username = heap[x].username
                              /\ heap'[x].age >= heap[x].age,
           \A o \in Listed \ Listed' : Expired(o)
    PROVE  SessionInv' /\ HeldUnharmed
<1>1. \A x \in Objects : heap'[x].age \in Nat
  BY SessionAssumption DEF StoreInv, StoreTypes, Store
<1>2. ASSUME NEW q \in Handlers, handler[q].sess # NoObj
      PROVE  /\ handler[q].sess \in Objects
             /\ heap'[handler[q].sess].sid = heap[handler[q].sess].sid
             /\ heap'[handler[q].sess].username = heap[handler[q].sess].username
             /\ StaysUsed(handler[q].sess)
  <2>1. handler[q].sess \in Objects
    BY <1>2, GoroutineFields
  <2> QED BY <1>1, <1>2, <2>1, HeldStays
<1>3. HandlersOK'
  <2>1. ASSUME NEW q \in Handlers
        PROVE  CookieOK(handler[q], heap'[handler[q].sess].sid)
    <3>1. CASE handler[q].sess = NoObj
      <4>1. handler[q].pc \in {"idle", "start"}
        BY <3>1, GoroutineFields, SessionAssumption DEF GoroutineOK
      <4> QED BY <4>1 DEF CookieOK
    <3>2. CASE handler[q].sess # NoObj
      BY <1>2, <3>2, GoroutineFields
    <3> QED BY <3>1, <3>2
  <2>2. UNCHANGED <<handler, jar>>
    OBVIOUS
  <2>3. \A q \in Handlers : GoroutineOK(handler[q])
    BY DEF SessionInv, HandlersOK
  <2> QED BY <2>1, <2>2, <2>3
          DEF SessionInv, HandlersOK, GoroutineOK, Goroutine, PlaceOK, CookieOK
<1>4. InUseStays'
  BY <1>2 DEF InUseStays, StaysUsed, Expired
<1> QED BY <1>2, <1>3, <1>4 DEF SessionInv, HeldUnharmed

(* The collector leaves what is in use; time harms no session.             *)
LEMMA CollectKeeps ==
    ASSUME SessionInv, SessionGC
    PROVE  SessionInv' /\ HeldUnharmed
<1>1. StoreInv' /\ heap' = heap /\ \A o \in Listed \ Listed' : Expired(o)
  BY CollectKeepsStore DEF SessionInv
<1>2. \A x \in Objects : heap'[x].age >= heap[x].age
  BY <1>1, SessionAssumption DEF SessionInv, StoreInv, StoreTypes, Store
<1> QED BY <1>1, <1>2, ElsewhereKeeps DEF SessionGC

(* Time passing removes nothing and ages what is listed.                   *)
LEMMA TickKeeps ==
    ASSUME SessionInv, Tick
    PROVE  SessionInv' /\ HeldUnharmed
<1>1. /\ StoreInv' /\ Listed' = Listed
      /\ \A x \in Objects : /\ heap'[x].sid = heap[x].sid
                            /\ heap'[x].username = heap[x].username
                            /\ heap'[x].age >= heap[x].age
  BY TickKeepsStore DEF SessionInv
<1> QED BY <1>1, ElsewhereKeeps DEF Tick

(* A process that has just been started, with the jars of before.          *)
JustStarted ==
    /\ sessions = [s \in Sids |-> NoObj] /\ list = <<>> /\ heap \in [Objects -> Store]
    /\ handler = [h \in Handlers |-> Resting]
    /\ jar \in [Clients -> Cookies \cup {NoCookie}]

(* It holds no session, and nobody works.                                  *)
LEMMA NothingHeld == JustStarted => SessionInv
<1> SUFFICES ASSUME JustStarted PROVE SessionInv
  OBVIOUS
<1>1. StoreInv
  BY EmptyStore DEF JustStarted
<1>2. \A h \in Handlers : handler[h] = Resting
  BY DEF JustStarted
<1>3. GoroutineOK(Resting) /\ \A sid : CookieOK(Resting, sid)
  BY RestingType DEF GoroutineOK, PlaceOK, CookieOK
<1>4. handler \in [Handlers -> Goroutine]
  BY RestingType DEF JustStarted
<1>5. HandlersOK
  BY <1>2, <1>3, <1>4 DEF HandlersOK, JustStarted
<1>6. InUseStays
  BY <1>2, RestingType DEF InUseStays
<1> QED BY <1>1, <1>5, <1>6 DEF SessionInv

(* Every step keeps the invariant.                                         *)
LEMMA NextSession ==
    ASSUME SessionInv, [SessionNext]_sessionVars
    PROVE  SessionInv'
<1>1. ASSUME NEW h \in Handlers, HandlerStep(h) PROVE SessionInv'
  <2>1. CASE SessionStart(h)
    BY <2>1, NewSessionKeeps, SessionReadKeeps DEF SessionStart
  <2>2. CASE SessionDestroy(h)
    BY <2>2, DestroyKeeps
  <2>3. CASE Refuse(h) \/ ReadValue(h)
    BY <2>3, AnswerKeeps
  <2>4. CASE WriteValue(h)
    BY <2>4, WriteKeeps
  <2>5. CASE SetUpdates(h)
    BY <2>5, SetUpdatesKeeps
  <2>6. CASE GetUpdates(h)
    BY <2>6, GetUpdatesKeeps
  <2> QED BY <1>1, <2>1, <2>2, <2>3, <2>4, <2>5, <2>6 DEF HandlerStep
<1>2. ASSUME NEW h \in Handlers, NEW c \in Clients, NEW op \in Ops, Begin(h, c, op)
      PROVE  SessionInv'
  BY <1>2, BeginKeeps
<1>3. CASE SessionGC
  BY <1>3, CollectKeeps
<1>4. CASE Tick
  BY <1>4, TickKeeps
<1>5. CASE Restart
  <2>1. JustStarted'
    BY <1>5 DEF JustStarted, Restart, SessionInv, StoreInv, StoreTypes, HandlersOK
  <2> QED BY <2>1, NothingHeld, PTL
<1>6. CASE UNCHANGED sessionVars
  <2>1. StoreInv'
    BY <1>6, SameStore DEF SessionInv, sessionVars
  <2>2. \A x \in Objects : heap[x].age >= heap[x].age
    BY SessionAssumption DEF SessionInv, StoreInv, StoreTypes, Store
  <2>3. Listed' = Listed
    BY <1>6 DEF Listed, sessionVars
  <2> QED BY <1>6, <2>1, <2>2, <2>3, ElsewhereKeeps DEF sessionVars
<1> QED BY <1>1, <1>2, <1>3, <1>4, <1>5, <1>6 DEF SessionNext


-----------------------------------------------------------------------------
(***************************************************************************)
(* The cookies.                                                            *)
(***************************************************************************)

CookieInv == SessionInv /\ CookiesSecret /\ CookiesOwned

(* No cookie is learned when none is sent and none is made.                *)
LEMMA NoCookieLearned ==
    ASSUME CookieInv, UNCHANGED jar,
           \A q \in Handlers :
               /\ handler'[q].cookie = handler[q].cookie
               /\ handler'[q].client = handler[q].client
               /\ handler'[q].setCookie = handler[q].setCookie \/ handler'[q].setCookie \notin Cookies
    PROVE  CookiesSecret' /\ CookiesOwned'
<1>1. CookiesSecret'
  <2> SUFFICES ASSUME NEW h \in Handlers, handler'[h].setCookie \in Cookies
               PROVE  /\ \A c \in Clients : jar'[c] # handler'[h].setCookie
                      /\ \A g \in Handlers :
                            /\ handler'[g].cookie # handler'[h].setCookie
                            /\ g # h => handler'[g].setCookie # handler'[h].setCookie
    BY DEF CookiesSecret
  <2>1. handler'[h].setCookie = handler[h].setCookie
    OBVIOUS
  <2> QED BY <2>1 DEF CookieInv, CookiesSecret
<1>2. CookiesOwned'
  BY DEF CookieInv, CookiesOwned
<1> QED BY <1>1, <1>2

(* A new session's cookie is one that nobody knows.                        *)
LEMMA NewCookieSecret ==
    ASSUME CookieInv, NEW h \in Handlers, NEW pc, NewSession(h, pc), UNCHANGED jar
    PROVE  CookiesSecret' /\ CookiesOwned'
<1>1. PICK sid \in Sids, o \in Objects :
         /\ Unused(sid)
         /\ handler' = [handler EXCEPT ![h].pc = pc, ![h].sess = o,
                                       ![h].setCookie = QueryEscape(sid)]
  BY DEF NewSession
<1> DEFINE new == QueryEscape(sid)
<1>2. /\ \A c \in Clients : jar[c] # new
      /\ \A q \in Handlers : handler[q].cookie # new /\ handler[q].setCookie # new
  BY <1>1 DEF Unused
<1>3. /\ \A q \in Handlers : /\ handler'[q].cookie = handler[q].cookie
                             /\ handler'[q].client = handler[q].client
                             /\ q # h => handler'[q].setCookie = handler[q].setCookie
      /\ handler'[h].setCookie = new
  <2>1. handler[h] \in Goroutine /\ handler \in [Handlers -> Goroutine]
    BY DEF CookieInv, SessionInv, HandlersOK
  <2> HIDE DEF new
  <2> QED BY <1>1, <2>1 DEF Goroutine, new
<1> HIDE DEF new
<1>4. CookiesSecret'
  <2> SUFFICES ASSUME NEW q \in Handlers, handler'[q].setCookie \in Cookies
               PROVE  /\ \A c \in Clients : jar'[c] # handler'[q].setCookie
                      /\ \A g \in Handlers :
                            /\ handler'[g].cookie # handler'[q].setCookie
                            /\ g # q => handler'[g].setCookie # handler'[q].setCookie
    BY DEF CookiesSecret
  <2>1. CASE q = h
    BY <1>2, <1>3, <2>1
  <2>2. CASE q # h
    BY <1>2, <1>3, <2>2 DEF CookieInv, CookiesSecret
  <2> QED BY <2>1, <2>2
<1>5. CookiesOwned'
  BY <1>3 DEF CookieInv, CookiesOwned
<1> QED BY <1>4, <1>5

(* A browser sends the cookie it owns.                                     *)
LEMMA BeginCookie ==
    ASSUME CookieInv, NEW h \in Handlers, NEW c \in Clients, NEW op \in Ops, Begin(h, c, op)
    PROVE  CookiesSecret' /\ CookiesOwned'
<1>1. /\ \A q \in Handlers \ {h} : handler'[q] = handler[q]
      /\ handler'[h].client = c /\ handler'[h].cookie = jar[c] /\ handler'[h].setCookie = Unset
      /\ UNCHANGED jar
  BY BeginKeeps DEF CookieInv, Begin
<1>2. Unset \notin Cookies
  BY CookieAssumption
<1>3. CookiesSecret'
  <2> SUFFICES ASSUME NEW q \in Handlers, handler'[q].setCookie \in Cookies
               PROVE  /\ \A d \in Clients : jar'[d] # handler'[q].setCookie
                      /\ \A g \in Handlers :
                            /\ handler'[g].cookie # handler'[q].setCookie
                            /\ g # q => handler'[g].setCookie # handler'[q].setCookie
    BY DEF CookiesSecret
  <2>1. q # h /\ handler'[q] = handler[q]
    BY <1>1, <1>2
  <2>2. ASSUME NEW g \in Handlers
        PROVE  /\ handler'[g].cookie # handler'[q].setCookie
               /\ g # q => handler'[g].setCookie # handler'[q].setCookie
    BY <1>1, <1>2, <2>1 DEF CookieInv, CookiesSecret
  <2> QED BY <1>1, <2>1, <2>2 DEF CookieInv, CookiesSecret
<1>4. CookiesOwned'
  <2>1. \A d, e \in Clients : jar'[d] \in Cookies /\ jar'[d] = jar'[e] => d = e
    BY <1>1 DEF CookieInv, CookiesOwned
  <2>2. ASSUME NEW q \in Handlers, NEW d \in Clients, handler'[q].cookie \in Cookies,
               jar'[d] = handler'[q].cookie
        PROVE  handler'[q].client = d
    <3>1. CASE q = h
      BY <1>1, <2>1, <2>2, <3>1
    <3>2. CASE q # h
      BY <1>1, <2>2, <3>2 DEF CookieInv, CookiesOwned
    <3> QED BY <3>1, <3>2
  <2>3. ASSUME NEW g \in Handlers, NEW q \in Handlers, handler'[q].cookie \in Cookies,
               handler'[g].cookie = handler'[q].cookie
        PROVE  handler'[g].client = handler'[q].client
    <3>1. CASE q = h
      BY <1>1, <2>2, <2>3, <3>1
    <3>2. CASE g = h
      BY <1>1, <2>2, <2>3, <3>2
    <3>3. CASE g # h /\ q # h
      BY <1>1, <2>3, <3>3 DEF CookieInv, CookiesOwned
    <3> QED BY <3>1, <3>2, <3>3
  <2> QED BY <2>1, <2>2, <2>3 DEF CookiesOwned
<1> QED BY <1>3, <1>4

(* An answer gives a secret cookie to the browser of the request, or takes *)
(* a cookie away from it (app.go:149, sessionManager.go:71, 84-91).        *)
LEMMA ReplyCookie ==
    ASSUME CookieInv, NEW h \in Handlers, NEW code \in AnswerCodes,
           Reply(h, code), handler[h].pc # "idle"
    PROVE  CookiesSecret' /\ CookiesOwned'
<1> DEFINE sent == handler[h].setCookie
           client == handler[h].client
<1>1. /\ client \in Clients
      /\ \A q \in Handlers \ {h} : handler'[q] = handler[q]
      /\ handler'[h].cookie = NoCookie /\ handler'[h].setCookie = Unset
      /\ \A c \in Clients : jar'[c] = IF sent # Unset /\ c = client THEN sent ELSE jar[c]
  BY ReplyEffect DEF CookieInv
<1>2. Unset \notin Cookies /\ NoCookie \notin Cookies
  BY CookieAssumption
<1>3. sent \in Cookies =>
          /\ \A c \in Clients : jar[c] # sent
          /\ \A g \in Handlers : handler[g].cookie # sent /\ (g # h => handler[g].setCookie # sent)
  BY DEF CookieInv, CookiesSecret
<1> HIDE DEF sent, client
<1>4. CookiesSecret'
  <2> SUFFICES ASSUME NEW q \in Handlers, handler'[q].setCookie \in Cookies
               PROVE  /\ \A d \in Clients : jar'[d] # handler'[q].setCookie
                      /\ \A g \in Handlers :
                            /\ handler'[g].cookie # handler'[q].setCookie
                            /\ g # q => handler'[g].setCookie # handler'[q].setCookie
    BY DEF CookiesSecret
  <2>1. q # h /\ handler'[q] = handler[q] /\ handler[q].setCookie \in Cookies
    BY <1>1, <1>2
  <2>2. \A d \in Clients : jar'[d] # handler[q].setCookie
    BY <1>1, <1>3, <2>1 DEF CookieInv, CookiesSecret
  <2>3. ASSUME NEW g \in Handlers
        PROVE  /\ handler'[g].cookie # handler[q].setCookie
               /\ g # q => handler'[g].setCookie # handler[q].setCookie
    BY <1>1, <1>2, <2>1 DEF CookieInv, CookiesSecret
  <2> QED BY <2>1, <2>2, <2>3
<1>5. CookiesOwned'
  <2>1. ASSUME NEW c \in Clients, NEW d \in Clients, jar'[c] \in Cookies, jar'[c] = jar'[d]
        PROVE  c = d
    BY <1>1, <1>3, <2>1 DEF CookieInv, CookiesOwned
  <2>2. ASSUME NEW q \in Handlers, NEW c \in Clients, handler'[q].cookie \in Cookies,
               jar'[c] = handler'[q].cookie
        PROVE  handler'[q].client = c
    <3>1. q # h /\ handler'[q] = handler[q]
      BY <1>1, <1>2, <2>2
    <3> QED BY <1>1, <1>3, <2>2, <3>1 DEF CookieInv, CookiesOwned
  <2>3. ASSUME NEW g \in Handlers, NEW q \in Handlers, handler'[q].cookie \in Cookies,
               handler'[g].cookie = handler'[q].cookie
        PROVE  handler'[g].client = handler'[q].client
    <3>1. handler'[q] = handler[q] /\ handler'[g] = handler[g]
      BY <1>1, <1>2, <2>3
    <3> QED BY <2>3, <3>1 DEF CookieInv, CookiesOwned
  <2> QED BY <2>1, <2>2, <2>3 DEF CookiesOwned
<1> QED BY <1>4, <1>5


(* An answer: which one, and of whom.                                      *)
LEMMA RepliesAre ==
    ASSUME SessionInv, NEW h \in Handlers,
           \/ Refuse(h) \/ ReadValue(h)
           \/ SetUpdates(h) /\ handler[h].op = "login"
    PROVE  /\ \E code \in AnswerCodes : Reply(h, code)
           /\ handler[h].pc \in {"refuse", "read", "setUpdate"}
           /\ handler[h].op = "logout" => handler[h].pc = "read"
<1>1. CASE Refuse(h) \/ ReadValue(h)
  <2>1. handler[h].pc \in {"refuse", "read"} /\ \E code \in AnswerCodes : Reply(h, code)
    BY <1>1, AnswerKeeps
  <2>2. handler[h].pc = "refuse" => handler[h].op = "badLogin"
    BY GoroutineFields DEF GoroutineOK, PlaceOK
  <2> QED BY <2>1, <2>2
<1>2. CASE SetUpdates(h) /\ handler[h].op = "login"
  BY <1>2 DEF SetUpdates, AnswerCodes
<1> QED BY <1>1, <1>2

(* The other steps of a handler but SessionStart without a cookie.         *)
LEMMA MoreSteps ==
    ASSUME SessionInv, NEW h \in Handlers,
           \/ SessionStart(h) /\ handler[h].cookie # NoCookie
           \/ SessionDestroy(h) \/ WriteValue(h) \/ GetUpdates(h)
           \/ SetUpdates(h) /\ handler[h].op # "login"
    PROVE  /\ UNCHANGED jar
           /\ \A q \in Handlers :
                 /\ handler'[q].cookie = handler[q].cookie
                 /\ handler'[q].client = handler[q].client
                 /\ handler'[q].op = handler[q].op
                 /\ handler'[q].setCookie \in {handler[q].setCookie, NoCookie}
                 /\ q # h => handler'[q] = handler[q]
           /\ handler[h].pc # "idle" /\ handler'[h].pc # "idle"
           /\ handler'[h].pc = "setUpdate" => WriteValue(h)
<1>0. handler \in [Handlers -> Goroutine] /\ handler[h] \in Goroutine
  BY DEF SessionInv, HandlersOK
<1>1. CASE SessionStart(h) /\ handler[h].cookie # NoCookie
  <2>1. SessionRead(h, AfterStart(h)) /\ UNCHANGED jar /\ handler[h].pc \in {"start", "check"}
    BY <1>1 DEF SessionStart, NewSession
  <2>2. PICK pc, o : /\ pc = AfterStart(h)
                     /\ handler' = [handler EXCEPT ![h].pc = pc, ![h].sess = o]
    BY <2>1 DEF SessionRead
  <2>3. pc \notin {"idle", "setUpdate"}
    BY <2>2 DEF AfterStart
  <2>4. /\ \A q \in Handlers :
                 /\ handler'[q].cookie = handler[q].cookie
                 /\ handler'[q].client = handler[q].client
                 /\ handler'[q].op = handler[q].op
                 /\ handler'[q].setCookie \in {handler[q].setCookie, NoCookie}
                 /\ q # h => handler'[q] = handler[q]
        /\ handler'[h].pc = pc
    BY <1>0, <2>2 DEF Goroutine
  <2> QED BY <2>1, <2>3, <2>4
<1>2. CASE SessionDestroy(h)
  <2>1. /\ handler[h].pc = "destroy" /\ UNCHANGED jar
        /\ handler' = [handler EXCEPT ![h].pc = "check",
                 ![h].setCookie = IF handler[h].cookie = NoCookie THEN @ ELSE NoCookie]
    BY <1>2, DestroyKeeps DEF SessionDestroy
  <2> DEFINE cookie == IF handler[h].cookie = NoCookie THEN handler[h].setCookie ELSE NoCookie
  <2>2. handler' = [handler EXCEPT ![h].pc = "check", ![h].setCookie = cookie]
    BY <2>1 DEF SessionInv, HandlersOK, Goroutine
  <2>3. cookie \in {handler[h].setCookie, NoCookie}
    OBVIOUS
  <2> HIDE DEF cookie
  <2>4. /\ \A q \in Handlers :
                 /\ handler'[q].cookie = handler[q].cookie
                 /\ handler'[q].client = handler[q].client
                 /\ handler'[q].op = handler[q].op
                 /\ handler'[q].setCookie \in {handler[q].setCookie, cookie}
                 /\ q # h => handler'[q] = handler[q]
        /\ handler'[h].pc = "check"
    BY <1>0, <2>2 DEF Goroutine
  <2> QED BY <2>1, <2>3, <2>4
<1>3. CASE WriteValue(h) \/ GetUpdates(h) \/ (SetUpdates(h) /\ handler[h].op # "login")
  <2>1. PICK pc \in {"setUpdate", "read", "destroy"} :
            /\ handler' = [handler EXCEPT ![h].pc = pc] /\ UNCHANGED jar
            /\ handler[h].pc \in {"write", "getUpdate", "setUpdate"}
            /\ pc = "setUpdate" => WriteValue(h)
    BY <1>3 DEF WriteValue, GetUpdates, SetUpdates
  <2>2. /\ \A q \in Handlers :
                 /\ handler'[q].cookie = handler[q].cookie
                 /\ handler'[q].client = handler[q].client
                 /\ handler'[q].op = handler[q].op
                 /\ handler'[q].setCookie \in {handler[q].setCookie, NoCookie}
                 /\ q # h => handler'[q] = handler[q]
        /\ handler'[h].pc = pc
    BY <1>0, <2>1 DEF Goroutine
  <2> QED BY <2>1, <2>2
<1> QED BY <1>1, <1>2, <1>3

(* Every step keeps the cookies secret and owned.                          *)
LEMMA NextCookies ==
    ASSUME CookieInv, [SessionNext]_sessionVars
    PROVE  CookiesSecret' /\ CookiesOwned'
<1>1. ASSUME NEW h \in Handlers, HandlerStep(h) PROVE CookiesSecret' /\ CookiesOwned'
  <2>1. CASE SessionStart(h) /\ handler[h].cookie = NoCookie
    BY <2>1, NewCookieSecret DEF SessionStart, SessionRead
  <2>2. CASE \/ Refuse(h) \/ ReadValue(h)
             \/ SetUpdates(h) /\ handler[h].op = "login"
    <3>1. handler[h].pc # "idle" /\ \E code \in AnswerCodes : Reply(h, code)
      BY <2>2, RepliesAre DEF CookieInv
    <3> QED BY <3>1, ReplyCookie
  <2>3. CASE \/ SessionStart(h) /\ handler[h].cookie # NoCookie
             \/ SessionDestroy(h) \/ WriteValue(h) \/ GetUpdates(h)
             \/ SetUpdates(h) /\ handler[h].op # "login"
    <3>1. /\ UNCHANGED jar
          /\ \A q \in Handlers :
                 /\ handler'[q].cookie = handler[q].cookie
                 /\ handler'[q].client = handler[q].client
                 /\ handler'[q].setCookie \in {handler[q].setCookie, NoCookie}
      BY <2>3, MoreSteps DEF CookieInv
    <3> QED BY <3>1, NoCookieLearned, CookieAssumption
  <2> QED BY <1>1, <2>1, <2>2, <2>3 DEF HandlerStep
<1>2. ASSUME NEW h \in Handlers, NEW c \in Clients, NEW op \in Ops, Begin(h, c, op)
      PROVE  CookiesSecret' /\ CookiesOwned'
  BY <1>2, BeginCookie
<1>3. CASE SessionGC \/ Tick \/ UNCHANGED sessionVars
  <2>1. UNCHANGED <<handler, jar>>
    BY <1>3 DEF SessionGC, Tick, sessionVars
  <2> QED BY <2>1, NoCookieLearned
<1>4. CASE Restart
  <2>1. UNCHANGED jar /\ \A q \in Handlers : handler'[q] = Resting
    BY <1>4 DEF Restart
  <2>2. Resting.setCookie \notin Cookies /\ Resting.cookie \notin Cookies
    BY RestingType, CookieAssumption
  <2> QED BY <2>1, <2>2 DEF CookieInv, CookiesSecret, CookiesOwned
<1> QED BY <1>1, <1>2, <1>3, <1>4 DEF SessionNext

-----------------------------------------------------------------------------
(***************************************************************************)
(* What a login stores.                                                    *)
(***************************************************************************)

LoginInv == CookieInv /\ LoginsStored

ActiveLogout(g, cookie) ==
    /\ handler[g].pc # "idle" /\ handler[g].op = "logout" /\ handler[g].cookie = cookie

(* A login that a step does not concern.                                   *)
LEMMA LoginUntouched ==
    ASSUME LoginInv, NEW q \in Handlers,
           handler'[q].pc = "setUpdate" /\ handler'[q].op = "login" =>
               /\ handler'[q] = handler[q]
               /\ heap'[handler[q].sess].username = heap[handler[q].sess].username
               /\ handler[q].cookie # NoCookie /\ jar[handler[q].client] # handler[q].cookie =>
                     jar'[handler[q].client] # handler[q].cookie
               /\ \A g \in Handlers :
                     handler[q].cookie # NoCookie /\ ActiveLogout(g, handler[q].cookie) =>
                         \/ ActiveLogout(g, handler[q].cookie)'
                         \/ jar'[handler[q].client] # handler[q].cookie
    PROVE  Stored(q)'
BY DEF LoginInv, LoginsStored, Stored, ActiveLogout

(* Store.Set stores the user; Store.Delete is a logout's, which goes on.   *)
LEMMA WriteLogins ==
    ASSUME LoginInv, NEW h \in Handlers, WriteValue(h)
    PROVE  LoginsStored'
<1> SUFFICES ASSUME NEW q \in Handlers, handler'[q].pc = "setUpdate", handler'[q].op = "login"
             PROVE  Stored(q)'
  BY DEF LoginsStored, Stored
<1>1. SessionInv /\ CookiesSecret /\ CookieInv
  BY DEF LoginInv, CookieInv
<1>2. /\ UNCHANGED jar
      /\ \A g \in Handlers :
             /\ handler'[g].cookie = handler[g].cookie
             /\ handler'[g].client = handler[g].client
             /\ handler'[g].op = handler[g].op
             /\ g # h => handler'[g] = handler[g]
      /\ handler[h].pc = "write" /\ handler'[h].pc # "idle"
  BY <1>1, MoreSteps DEF WriteValue
<1>3. handler'[h].sess = handler[h].sess /\ handler'[h].pc = "setUpdate"
  <2>1. handler[h] \in Goroutine /\ handler \in [Handlers -> Goroutine]
    BY <1>1 DEF SessionInv, HandlersOK
  <2> QED BY <2>1 DEF WriteValue, Goroutine
<1>4. /\ handler[h].sess \in Objects
      /\ heap'[handler[h].sess].username = (handler[h].op = "login")
      /\ \A x \in Objects \ {handler[h].sess} : heap'[x] = heap[x]
  BY <1>1, WriteKeeps
<1>5. handler[q].sess \in Objects /\ handler'[q].sess = handler[q].sess
      /\ handler[q].pc \in {"write", "setUpdate"} /\ handler[q].op = "login"
  <2>1. CASE q = h
    BY <1>2, <1>3, <1>4, <2>1
  <2>2. CASE q # h
    BY <1>1, <1>2, <2>2, GoroutineFields DEF GoroutineOK
  <2> QED BY <2>1, <2>2
<1>6. CASE handler[q].sess = handler[h].sess /\ handler[h].op = "login"
  BY <1>4, <1>5, <1>6 DEF Stored
<1>7. CASE handler[q].sess = handler[h].sess /\ handler[h].op # "login"
  <2> DEFINE sid == heap[handler[h].sess].sid
             cookie == QueryEscape(sid)
  <2>1. q # h
    BY <1>5, <1>7
  <2>2. cookie \in Cookies
    <3>1. sid \in Sids
      BY <1>1, <1>4 DEF SessionInv, StoreInv, StoreTypes, Store
    <3> QED BY <3>1, Escapes
  <2>3. /\ IF handler[h].cookie = NoCookie THEN handler[h].setCookie = cookie
                                           ELSE handler[h].cookie = cookie
        /\ IF handler[q].cookie = NoCookie THEN handler[q].setCookie = cookie
                                           ELSE handler[q].cookie = cookie
    BY <1>1, <1>2, <1>5, <1>7, GoroutineFields DEF CookieOK
  <2> HIDE DEF cookie
  <2>4. handler[h].cookie = cookie /\ handler[q].cookie = cookie /\ cookie # NoCookie
    BY <1>1, <2>1, <2>2, <2>3, CookieAssumption DEF CookiesSecret
  <2>5. handler[h].op = "logout"
    BY <1>1, <1>2, <1>7, GoroutineFields DEF GoroutineOK, PlaceOK
  <2> QED BY <1>2, <2>4, <2>5 DEF Stored
<1>8. CASE handler[q].sess # handler[h].sess
  <2>1. q # h /\ heap'[handler[q].sess] = heap[handler[q].sess]
    BY <1>4, <1>5, <1>8
  <2>2. \A g \in Handlers :
            ActiveLogout(g, handler[q].cookie) => ActiveLogout(g, handler[q].cookie)'
    BY <1>2 DEF ActiveLogout
  <2> QED BY <1>2, <2>1, <2>2, LoginUntouched
<1> QED BY <1>6, <1>7, <1>8

(* An answered logout has taken the cookie away from its browser.          *)
LEMMA ReplyLogins ==
    ASSUME LoginInv, HeldUnharmed, NEW h \in Handlers, NEW code \in AnswerCodes,
           Reply(h, code), handler[h].pc # "idle",
           handler[h].op = "logout" => handler[h].pc = "read"
    PROVE  LoginsStored'
<1> SUFFICES ASSUME NEW q \in Handlers, handler'[q].pc = "setUpdate", handler'[q].op = "login"
             PROVE  Stored(q)'
  BY DEF LoginsStored, Stored
<1>1. SessionInv /\ CookiesSecret /\ CookiesOwned
  BY DEF LoginInv, CookieInv
<1> DEFINE sent == handler[h].setCookie
           client == handler[h].client
<1>2. /\ \A g \in Handlers \ {h} : handler'[g] = handler[g]
      /\ handler'[h].pc = "idle"
      /\ \A c \in Clients : jar'[c] = IF sent # Unset /\ c = client THEN sent ELSE jar[c]
  BY <1>1, ReplyEffect
<1>3. /\ q # h /\ handler'[q] = handler[q] /\ handler[q].client \in Clients
      /\ handler[q].sess # NoObj /\ handler[q].cookie \in Cookies \cup {NoCookie}
      /\ heap'[handler[q].sess].username = heap[handler[q].sess].username
  <2>1. q # h /\ handler'[q] = handler[q]
    BY <1>2
  <2>2. handler[q].client \in Clients /\ handler[q].sess # NoObj
        /\ handler[q].cookie \in Cookies \cup {NoCookie}
    BY <1>1, <2>1, GoroutineFields, SessionAssumption DEF GoroutineOK
  <2> QED BY <2>1, <2>2 DEF HeldUnharmed
<1>4. sent \in Cookies \cup {NoCookie, Unset} /\ (sent \in Cookies => handler[q].cookie # sent)
  BY <1>1, GoroutineFields DEF CookiesSecret
<1>5. handler[q].cookie # NoCookie /\ jar[handler[q].client] # handler[q].cookie =>
          jar'[handler[q].client] # handler[q].cookie
  BY <1>2, <1>3, <1>4
<1>6. ASSUME NEW g \in Handlers, handler[q].cookie # NoCookie,
             ActiveLogout(g, handler[q].cookie)
      PROVE  \/ ActiveLogout(g, handler[q].cookie)'
             \/ jar'[handler[q].client] # handler[q].cookie
  <2>1. CASE g # h
    BY <1>2, <1>3, <1>6, <2>1 DEF ActiveLogout
  <2>2. CASE g = h
    <3>1. handler[h].cookie = handler[q].cookie /\ handler[h].op = "logout"
          /\ handler[h].pc = "read"
      BY <1>6, <2>2 DEF ActiveLogout
    <3>2. handler[h].client = handler[q].client
      BY <1>1, <1>3, <1>6, <3>1 DEF CookiesOwned
    <3>3. sent = NoCookie
      BY <1>1, <1>6, <3>1, GoroutineFields DEF CookieOK
    <3> QED BY <1>2, <1>3, <1>6, <3>2, <3>3, CookieAssumption
  <2> QED BY <2>1, <2>2
<1> HIDE DEF sent, client
<1> QED BY <1>3, <1>5, <1>6, LoginUntouched

(* SessionStart harms no session that somebody holds.                      *)
LEMMA StartHeld ==
    ASSUME SessionInv, NEW h \in Handlers, SessionStart(h)
    PROVE  HeldUnharmed
<1>1. CASE NewSession(h, AfterStart(h))
  BY <1>1, InitHeld DEF NewSession, Unused
<1>2. CASE SessionRead(h, AfterStart(h))
  <2> DEFINE sid == QueryUnescape(handler[h].cookie)
  <2>1. sid \in Sids
    BY <1>2, GoroutineFields, Escapes DEF SessionRead
  <2>2. CASE sessions[sid] # NoObj
    BY <1>2, <2>2, SameHeld DEF SessionRead
  <2>3. CASE sessions[sid] = NoObj
    BY <1>2, <2>1, <2>3, InitHeld DEF SessionRead
  <2> QED BY <2>2, <2>3
<1> QED BY <1>1, <1>2 DEF SessionStart

(* SessionStart without a cookie leaves the other goroutines alone.        *)
LEMMA NewFields ==
    ASSUME SessionInv, NEW h \in Handlers, SessionStart(h), handler[h].cookie = NoCookie
    PROVE  /\ UNCHANGED jar
           /\ \A q \in Handlers : /\ handler'[q].cookie = handler[q].cookie
                                  /\ handler'[q].op = handler[q].op
                                  /\ q # h => handler'[q] = handler[q]
           /\ handler'[h].pc # "idle" /\ handler'[h].pc # "setUpdate"
<1>1. NewSession(h, AfterStart(h)) /\ UNCHANGED jar
  BY DEF SessionStart, SessionRead
<1>2. PICK sid, o : handler' = [handler EXCEPT ![h].pc = AfterStart(h), ![h].sess = o,
                                               ![h].setCookie = QueryEscape(sid)]
  BY <1>1 DEF NewSession
<1>3. handler \in [Handlers -> Goroutine] /\ handler[h] \in Goroutine
  BY DEF SessionInv, HandlersOK
<1>4. AfterStart(h) \notin {"idle", "setUpdate"}
  BY DEF AfterStart
<1> QED BY <1>1, <1>2, <1>3, <1>4 DEF Goroutine

(* Every step keeps what logins have stored.                               *)
LEMMA NextLogins ==
    ASSUME LoginInv, [SessionNext]_sessionVars
    PROVE  LoginsStored'
<1>1. SessionInv
  BY DEF LoginInv, CookieInv
<1>2. ASSUME NEW h \in Handlers, HandlerStep(h) PROVE LoginsStored'
  <2>1. CASE WriteValue(h)
    BY <2>1, WriteLogins
  <2>2. CASE \/ Refuse(h) \/ ReadValue(h)
             \/ SetUpdates(h) /\ handler[h].op = "login"
    <3>1. HeldUnharmed
      BY <1>1, <2>2, AnswerKeeps, SetUpdatesKeeps
    <3>2. PICK code \in AnswerCodes : Reply(h, code)
      BY <1>1, <2>2, RepliesAre
    <3>3. handler[h].pc # "idle" /\ (handler[h].op = "logout" => handler[h].pc = "read")
      BY <1>1, <2>2, RepliesAre
    <3> QED BY <3>1, <3>2, <3>3, ReplyLogins
  <2>3. CASE \/ SessionStart(h) \/ SessionDestroy(h) \/ GetUpdates(h)
             \/ SetUpdates(h) /\ handler[h].op # "login"
    <3>1. HeldUnharmed
      <4>1. CASE SessionStart(h)
        BY <1>1, <4>1, StartHeld
      <4>2. CASE SessionDestroy(h)
        BY <1>1, <4>2, DestroyKeeps, SameHeld
      <4> QED BY <1>1, <2>3, <4>1, <4>2, GetUpdatesKeeps, SetUpdatesKeeps
    <3>2. /\ UNCHANGED jar
          /\ \A q \in Handlers : /\ handler'[q].cookie = handler[q].cookie
                                 /\ handler'[q].op = handler[q].op
                                 /\ q # h => handler'[q] = handler[q]
          /\ handler'[h].pc # "idle" /\ handler'[h].pc # "setUpdate"
      <4>1. CASE SessionStart(h) /\ handler[h].cookie = NoCookie
        BY <1>1, <4>1, NewFields
      <4>2. CASE ~ (SessionStart(h) /\ handler[h].cookie = NoCookie)
        <5>1. ~ WriteValue(h)
          BY <2>3 DEF WriteValue, SessionStart, SessionDestroy, GetUpdates, SetUpdates
        <5> QED BY <1>1, <2>3, <4>2, <5>1, MoreSteps
      <4> QED BY <4>1, <4>2
    <3>3. \A g \in Handlers, cookie \in Cookies \cup {NoCookie} :
              ActiveLogout(g, cookie) => ActiveLogout(g, cookie)'
      BY <3>2 DEF ActiveLogout
    <3> SUFFICES ASSUME NEW q \in Handlers, handler'[q].pc = "setUpdate",
                        handler'[q].op = "login"
                 PROVE  Stored(q)'
      BY DEF LoginsStored, Stored
    <3>4. handler'[q] = handler[q] /\ handler[q].sess # NoObj
          /\ handler[q].cookie \in Cookies \cup {NoCookie}
      BY <1>1, <3>2, GoroutineFields, SessionAssumption DEF GoroutineOK
    <3> QED BY <3>1, <3>2, <3>3, <3>4, LoginUntouched DEF HeldUnharmed
  <2> QED BY <1>2, <2>1, <2>2, <2>3 DEF HandlerStep
<1>3. ASSUME HeldUnharmed, UNCHANGED jar,
             \A q \in Handlers : \/ handler'[q] = handler[q]
                                 \/ handler[q].pc = "idle" /\ handler'[q].pc = "start"
      PROVE  LoginsStored'
  <2> SUFFICES ASSUME NEW q \in Handlers, handler'[q].pc = "setUpdate",
                      handler'[q].op = "login"
               PROVE  Stored(q)'
    BY DEF LoginsStored, Stored
  <2>1. handler'[q] = handler[q] /\ handler[q].sess # NoObj
    BY <1>1, <1>3, GoroutineFields, SessionAssumption DEF GoroutineOK
  <2>2. \A g \in Handlers :
            ActiveLogout(g, handler[q].cookie) => ActiveLogout(g, handler[q].cookie)'
    BY <1>3, <2>1 DEF ActiveLogout
  <2> QED BY <1>3, <2>1, <2>2, LoginUntouched DEF HeldUnharmed
<1>4. ASSUME NEW h \in Handlers, NEW c \in Clients, NEW op \in Ops, Begin(h, c, op)
      PROVE  LoginsStored'
  <2>1. HeldUnharmed /\ UNCHANGED jar
    BY <1>1, <1>4, SameHeld DEF Begin
  <2> QED BY <1>1, <1>3, <1>4, <2>1, BeginKeeps
<1>5. CASE SessionGC \/ Tick
  <2>1. UNCHANGED <<handler, jar>>
    BY <1>5 DEF SessionGC, Tick
  <2> QED BY <1>1, <1>3, <1>5, <2>1, CollectKeeps, TickKeeps
<1>6. CASE UNCHANGED sessionVars
  <2>1. HeldUnharmed
    BY <1>1, <1>6, SameHeld DEF sessionVars
  <2> QED BY <1>3, <1>6, <2>1 DEF sessionVars
<1>7. CASE Restart
  BY <1>7, RestingType DEF Restart, LoginsStored, Stored
<1> QED BY <1>2, <1>3, <1>4, <1>5, <1>6, <1>7 DEF SessionNext


-----------------------------------------------------------------------------
(***************************************************************************)
(* The properties.                                                         *)
(***************************************************************************)

(* The invariant holds of every reachable state.                           *)
LEMMA SessionInvariant == SessionSpec => []LoginInv
<1>1. SessionInitial => LoginInv
  <2> SUFFICES ASSUME SessionInitial PROVE LoginInv
    OBVIOUS
  <2>1. \A sid \in Sids : NewStore(sid) \in Store
    <3>1. 0 \in 0 .. MaxLife + 1
      BY SessionAssumption
    <3> QED BY <3>1 DEF NewStore, Store
  <2>2. JustStarted
    BY <2>1 DEF SessionInitial, JustStarted
  <2>3. SessionInv
    BY <2>2, NothingHeld
  <2>4. \A h \in Handlers : handler[h] = Resting
    BY DEF SessionInitial
  <2>5. \A c \in Clients : jar[c] \notin Cookies
    BY CookieAssumption DEF SessionInitial
  <2>6. Resting.setCookie \notin Cookies /\ Resting.cookie \notin Cookies
    BY RestingType, CookieAssumption
  <2>7. CookiesSecret /\ CookiesOwned
    BY <2>4, <2>5, <2>6 DEF CookiesSecret, CookiesOwned
  <2>8. LoginsStored
    BY <2>4, RestingType DEF LoginsStored, Stored
  <2> QED BY <2>3, <2>7, <2>8 DEF LoginInv, CookieInv
<1>2. LoginInv /\ [SessionNext]_sessionVars => LoginInv'
  BY NextSession, NextCookies, NextLogins DEF LoginInv, CookieInv
<1> QED BY <1>1, <1>2, PTL DEF SessionSpec

(* The types hold, and no handler works without a session or a client.     *)
THEOREM SessionTypesHold == SessionSpec => []SessionTypeOK
<1>1. LoginInv => SessionTypeOK
  <2> SUFFICES ASSUME LoginInv PROVE SessionTypeOK
    OBVIOUS
  <2>1. SessionInv
    BY DEF LoginInv, CookieInv
  <2>2. \A h \in Handlers :
          /\ handler[h].pc \notin {"idle", "start"} => handler[h].sess # NoObj
          /\ handler[h].pc # "idle" => handler[h].client # Unset
    BY <2>1, SessionAssumption DEF SessionInv, HandlersOK, GoroutineOK
  <2> QED BY <2>1, <2>2 DEF SessionTypeOK, SessionInv, StoreInv, StoreTypes, HandlersOK
<1> QED BY <1>1, SessionInvariant, PTL

(* The map and the list hold the same sessions, though they are changed    *)
(* under two locks (sessionManager.go:27, sessionProvider.go:10).          *)
THEOREM MapAndListAgree == SessionSpec => []MapMatchesList
<1>1. LoginInv => MapMatchesList
  BY DEF LoginInv, CookieInv, SessionInv, StoreInv
<1> QED BY <1>1, SessionInvariant, PTL

(* The list is ordered the way the collector relies on                     *)
(* (sessionProvider.go:47-58), however its updates interleave.             *)
THEOREM ListStaysOrdered == SessionSpec => []ListOrdered
<1>1. LoginInv => ListOrdered
  BY DEF LoginInv, CookieInv, SessionInv, StoreInv
<1> QED BY <1>1, SessionInvariant, PTL

(* The collector takes no session from under a handler unless it has       *)
(* expired (sessionProvider.go:43-59).                                     *)
THEOREM SessionsInUseStay == SessionSpec => []InUseStays
<1>1. LoginInv => InUseStays
  BY DEF LoginInv, CookieInv, SessionInv
<1> QED BY <1>1, SessionInvariant, PTL

(* A collection takes expired sessions only, and the expired ones it       *)
(* leaves have a session behind them that nobody has used.                 *)
LEMMA CollectionTakes ==
    ASSUME SessionInv, SessionGC
    PROVE  /\ \A o \in Listed \ Listed' : Expired(o)
           /\ \A i \in DOMAIN list' : Expired(list'[i]) =>
                 \E j \in DOMAIN list' : j > i /\ ~ heap[list'[j]].touched
<1>1. \A o \in Listed \ Listed' : Expired(o)
  BY CollectKeepsStore DEF SessionInv
<1>2. PICK n \in 0 .. Len(list) : Kept(n) /\ list' = SubSeq(list, 1, n)
  BY DEF SessionGC
<1>3. /\ Len(list) \in Nat /\ n \in Nat /\ DOMAIN list = 1 .. Len(list)
      /\ \A i \in DOMAIN list : list[i] \in Objects
  BY ListPlaces DEF SessionInv, StoreInv
<1>4. /\ DOMAIN list' = 1 .. n
      /\ \A i \in 1 .. n : i \in DOMAIN list /\ list'[i] = list[i]
  BY <1>2, <1>3, SubSeqProperties, LenProperties DEF SessionInv, StoreInv, StoreTypes
<1>5. ASSUME NEW i \in 1 .. n, Expired(list[i])
      PROVE  i < n /\ ~ heap[list[n]].touched
  <2>1. n \in 1 .. n /\ list[n] \in Objects /\ list[i] \in Objects /\ ~ Expired(list[n])
    BY <1>2, <1>3, <1>4 DEF Kept
  <2>2. i < n
    BY <1>3, <1>5, <2>1
  <2>3. heap[list[i]].age \in Nat /\ heap[list[n]].age \in Nat /\ MaxLife \in Nat
    BY <2>1, SessionAssumption DEF SessionInv, StoreInv, StoreTypes, Store
  <2>4. /\ heap[list[i]].touched /\ heap[list[n]].touched =>
              heap[list[i]].age <= heap[list[n]].age
        /\ ~ heap[list[i]].touched => ~ heap[list[n]].touched
    BY <1>4, <2>1, <2>2 DEF SessionInv, StoreInv, ListOrdered
  <2> QED BY <1>5, <2>1, <2>2, <2>3, <2>4 DEF Expired
<1>6. ASSUME NEW i \in DOMAIN list', Expired(list'[i])
      PROVE  \E j \in DOMAIN list' : j > i /\ ~ heap[list'[j]].touched
  <2>1. i \in 1 .. n /\ n \in 1 .. n /\ Expired(list[i])
    BY <1>3, <1>4, <1>6
  <2> QED BY <1>3, <1>4, <1>5, <2>1
<1> QED BY <1>1, <1>6

(* Collection takes nothing but expired sessions                           *)
(* (sessionProvider.go:47-58).                                             *)
THEOREM CollectorTakesTheExpired == SessionSpec => GCTakesTheExpired
<1>1. LoginInv /\ [SessionNext]_sessionVars =>
        [SessionGC =>
            /\ \A o \in Listed \ Listed' : Expired(o)
            /\ \A i \in DOMAIN list' : Expired(list'[i]) =>
                  \E j \in DOMAIN list' : j > i /\ ~ heap[list'[j]].touched]_sessionVars
  BY CollectionTakes DEF LoginInv, CookieInv
<1> QED BY <1>1, SessionInvariant, PTL DEF SessionSpec, GCTakesTheExpired

(* What a step of a request does to the map: it fills a free place.        *)
LEMMA MapFilled ==
    ASSUME SessionInv, SessionNext,
           ~ SessionGC, ~ Restart, \A h \in Handlers : ~ SessionDestroy(h)
    PROVE  \A s \in Sids : sessions[s] # NoObj => sessions'[s] = sessions[s]
<1>1. sessions \in [Sids -> Objects \cup {NoObj}]
  BY DEF SessionInv, StoreInv, StoreTypes
<1>2. ASSUME NEW h \in Handlers, SessionStart(h)
      PROVE  \A s \in Sids : sessions[s] # NoObj => sessions'[s] = sessions[s]
  <2>1. CASE NewSession(h, AfterStart(h))
    BY <1>1, <2>1 DEF NewSession, Unused, SessionInit
  <2>2. CASE SessionRead(h, AfterStart(h))
    BY <1>1, <2>2 DEF SessionRead, SessionInit
  <2> QED BY <1>2, <2>1, <2>2 DEF SessionStart
<1>3. ASSUME NEW h \in Handlers,
             \/ Refuse(h) \/ WriteValue(h) \/ SetUpdates(h) \/ GetUpdates(h) \/ ReadValue(h)
             \/ \E c \in Clients, op \in Ops : Begin(h, c, op)
      PROVE  UNCHANGED sessions
  BY <1>3 DEF Refuse, WriteValue, SetUpdates, GetUpdates, ReadValue, Begin
<1> QED BY <1>2, <1>3 DEF SessionNext, HandlerStep, Tick

(* Requests that race with one cookie share one session                    *)
(* (sessionManager.go:63-77).                                              *)
THEOREM RacersShareASession == SessionSpec => RacingRequestsShare
<1>1. LoginInv /\ [SessionNext]_sessionVars =>
        [\/ SessionGC \/ Restart \/ \E h \in Handlers : SessionDestroy(h)
         \/ \A s \in Sids : sessions[s] # NoObj => sessions'[s] = sessions[s]]_sessionVars
  BY MapFilled DEF LoginInv, CookieInv
<1> QED BY <1>1, SessionInvariant, PTL DEF SessionSpec, RacingRequestsShare

(* The answer of a login, and the session its browser has the cookie of.   *)
LEMMA LoginAnswer ==
    ASSUME LoginInv, NEW h \in Handlers, handler[h].op = "login", SetUpdates(h),
           ~ Expired(handler[h].sess), jar[handler[h].client] = handler[h].cookie,
           \A g \in Handlers : handler[g].pc # "idle" => handler[g].op # "logout"
    PROVE  LET o == handler[h].sess
               next == jar'[handler[h].client]
           IN  /\ next # NoCookie
               /\ sessions'[QueryUnescape(next)] = o
               /\ heap'[o].username /\ heap'[o].age = 0
<1> DEFINE o    == handler[h].sess
           next == jar'[handler[h].client]
           sid  == heap[o].sid
<1>1. SessionInv /\ StoreInv /\ Stored(h)
  BY DEF LoginInv, CookieInv, SessionInv, LoginsStored
<1>2. handler[h].pc = "setUpdate" /\ SessionUpdate(o) /\ UNCHANGED sessions /\ Reply(h, 200)
  BY DEF SetUpdates
<1>3. o \in Objects /\ o \in Listed /\ handler[h].client \in Clients
      /\ CookieOK(handler[h], sid)
  <2>1. GoroutineOK(handler[h]) /\ CookieOK(handler[h], sid)
    BY <1>1, GoroutineFields
  <2>2. o \in Objects /\ handler[h].client \in Clients
    BY <1>2, <2>1 DEF GoroutineOK
  <2>3. InUse(o)
    BY <1>1, <2>2, GoroutineFields, SessionAssumption
  <2> QED BY <2>1, <2>2, <2>3 DEF InUse
<1>4. sid \in Sids /\ sessions[sid] = o
  BY <1>1, <1>3, MappedIsListed
<1>5. next = QueryEscape(sid)
  <2>1. PICK code \in AnswerCodes : Reply(h, code)
    BY <1>2 DEF AnswerCodes
  <2>2. next = IF handler[h].setCookie # Unset THEN handler[h].setCookie
               ELSE jar[handler[h].client]
    BY <1>1, <1>2, <1>3, <2>1, ReplyEffect
  <2>3. CASE handler[h].cookie = NoCookie
    <3>1. handler[h].setCookie = QueryEscape(sid)
      BY <1>2, <1>3, <2>3 DEF CookieOK
    <3> QED BY <1>4, <2>2, <3>1, Escapes, CookieAssumption
  <2>4. CASE handler[h].cookie # NoCookie
    <3>1. handler[h].setCookie = Unset /\ handler[h].cookie = QueryEscape(sid)
      BY <1>2, <1>3, <2>4 DEF CookieOK
    <3> QED BY <2>2, <3>1
  <2> QED BY <2>3, <2>4
<1>6. next # NoCookie /\ QueryUnescape(next) = sid
  BY <1>4, <1>5, Escapes, CookieAssumption
<1>7. heap[o].username
  BY <1>1, <1>2 DEF Stored
<1>8. heap'[o].username /\ heap'[o].age = 0
  BY <1>1, <1>2, <1>3, <1>7, UpdateKeepsStore
<1> QED BY <1>2, <1>4, <1>6, <1>8

(* What a login stores is what its browser's next request finds            *)
(* (app.go:132-161).                                                       *)
THEOREM LoginsAreKept == SessionSpec => LoginIsKept
<1>1. LoginInv /\ [SessionNext]_sessionVars =>
        [\A h \in Handlers :
          LET o == handler[h].sess
              c == handler[h].client
          IN  /\ handler[h].op = "login" /\ handler'[h].answer = 200 /\ SetUpdates(h)
              /\ ~ Expired(o)
              /\ jar[c] = handler[h].cookie
              /\ \A g \in Handlers : handler[g].pc # "idle" => handler[g].op # "logout"
              => LET next == jar'[c]
                 IN  /\ next # NoCookie
                     /\ sessions'[QueryUnescape(next)] = o
                     /\ heap'[o].username /\ heap'[o].age = 0]_sessionVars
  BY LoginAnswer
<1> QED BY <1>1, SessionInvariant, PTL DEF SessionSpec, LoginIsKept
=============================================================================
