------------------------------ MODULE Session ------------------------------
(***************************************************************************)
(* app/session, and the handlers of app.go that use it: postLogin,         *)
(* postLogout and isLogin, which guards the other handlers.                *)
(*                                                                         *)
(* Requests are goroutines.  A critical section (Manager.lock or           *)
(* SessionProvider.lock) is one step; between two of them anything may     *)
(* happen.  The value map of a session is read and written under no lock:  *)
(* two accesses at once have the effect of one order or the other, or Go's *)
(* runtime notices and ends the process (Restart).                         *)
(*                                                                         *)
(* Time is the age of a session since timeAccessed, counted up to one more *)
(* than maxLifeTime, where it has expired.                                 *)
(***************************************************************************)
EXTENDS Naturals, Sequences, FiniteSets

CONSTANTS
    Clients,        \* browsers, each with a cookie jar
    Handlers,       \* goroutines serving a request
    Sids,           \* what sessionId() draws from
    Objects,        \* places for SessionStore objects: a bound on the sessions
    Ops,            \* requests sent, among "login", "badLogin", "logout", "guarded"
    MaxLife,        \* maxLifeTime
    MayRestart,     \* whether the process may be restarted
    NoObj, NoCookie, Unset

ASSUME SessionAssumption ==
    /\ MaxLife \in Nat
    /\ MayRestart \in BOOLEAN
    /\ Ops \subseteq {"login", "badLogin", "logout", "guarded"}
    /\ NoObj \notin Objects
    /\ Unset \notin Clients

VARIABLES
    sessions,   \* the map from session id to list element
    list,       \* the list of sessions, front first
    heap,       \* the SessionStore objects
    handler,    \* the state of each goroutine
    jar         \* the "sessionid" cookie each client holds

sessionVars == <<sessions, list, heap, handler, jar>>

(* base64.URLEncoding of 32 bytes always ends in "=", which QueryEscape    *)
(* turns into "%3D": an escaped session id is never a session id.          *)
QueryEscape(sid)      == [escaped |-> sid]
QueryUnescape(cookie) == cookie.escaped
Cookies == {QueryEscape(sid) : sid \in Sids}

ASSUME CookieAssumption ==
    /\ Cookies \cap Sids = {}
    /\ NoCookie \notin Cookies \cup Sids
    /\ Unset \notin Cookies \cup {NoCookie}

(* "touched" remembers whether SessionUpdate has been called on a session. *)
Store == [sid : Sids, age : 0 .. MaxLife + 1, username : BOOLEAN, touched : BOOLEAN]

PCs == {"idle", "start", "refuse", "write", "setUpdate", "destroy", "check",
        "getUpdate", "read"}

Goroutine == [pc        : PCs,
              op        : Ops \cup {Unset},
              client    : Clients \cup {Unset},
              cookie    : Cookies \cup {NoCookie},
              sess      : Objects \cup {NoObj},
              setCookie : Cookies \cup {NoCookie, Unset},
              answer    : {200, 400, 401, 403, Unset}]

SessionTypeOK ==
    /\ sessions \in [Sids -> Objects \cup {NoObj}]
    /\ list \in Seq(Objects)
    /\ heap \in [Objects -> Store]
    /\ handler \in [Handlers -> Goroutine]
    /\ jar \in [Clients -> Cookies \cup {NoCookie}]
    /\ \A h \in Handlers :
          /\ handler[h].pc \notin {"idle", "start"} => handler[h].sess # NoObj
          /\ handler[h].pc # "idle" => handler[h].client # Unset

Resting == [pc |-> "idle", op |-> Unset, client |-> Unset, cookie |-> NoCookie,
            sess |-> NoObj, setCookie |-> Unset, answer |-> Unset]

NewStore(sid) == [sid |-> sid, age |-> 0, username |-> FALSE, touched |-> FALSE]

SessionInitial ==
    /\ sessions = [s \in Sids |-> NoObj]
    /\ list = <<>>
    /\ heap \in {[o \in Objects |-> NewStore(sid)] : sid \in Sids}
    /\ handler = [h \in Handlers |-> Resting]
    /\ jar = [c \in Clients |-> NoCookie]

-----------------------------------------------------------------------------
(* The provider.                                                           *)

Expired(o)   == heap[o].age > MaxLife
Listed       == {list[i] : i \in DOMAIN list}

(* List.Remove and List.MoveToFront of the element that holds o.           *)
Position(o) == CHOOSE i \in DOMAIN list : list[i] = o

Remove(o) ==
    [i \in 1 .. Len(list) - 1 |-> IF i < Position(o) THEN list[i] ELSE list[i + 1]]

MoveToFront(o) ==
    [i \in DOMAIN list |-> IF i = 1 THEN o
                           ELSE IF i <= Position(o) THEN list[i - 1] ELSE list[i]]

(* A place that holds nothing anybody can reach: Go has reclaimed it.      *)
Unreachable(o) == o \notin Listed /\ \A h \in Handlers : handler[h].sess # o

(* SessionInit: a new session goes to the back of the list.                *)
SessionInit(o, sid) ==
    /\ Unreachable(o)
    /\ sessions' = [sessions EXCEPT ![sid] = o]
    /\ list' = Append(list, o)
    /\ heap' = [heap EXCEPT ![o] = NewStore(sid)]

(* Definitions named Mut... are variants that the checks put in the place  *)
(* of the definition after them, to see the properties fail.               *)

(* SessionUpdate: a session still in the map goes to the front, refreshed. *)
MutUpdateInPlace(o) ==
    LET current == sessions[heap[o].sid]
    IN  IF current = NoObj
        THEN UNCHANGED <<list, heap>>
        ELSE /\ heap' = [heap EXCEPT ![current].age = 0, ![current].touched = TRUE]
             /\ UNCHANGED list

MutUpdateHeld(o) ==
    /\ list' = IF sessions[heap[o].sid] = o THEN MoveToFront(o) ELSE list
    /\ heap' = [heap EXCEPT ![o].age = 0, ![o].touched = TRUE]

SessionUpdate(o) ==
    LET current == sessions[heap[o].sid]
    IN  IF current = NoObj
        THEN UNCHANGED <<list, heap>>
        ELSE /\ list' = MoveToFront(current)
             /\ heap' = [heap EXCEPT ![current].age = 0, ![current].touched = TRUE]

(* SessionGC: from the back, up to the first session that has not expired. *)
(* Only the first n sessions are left when its loop ends.                  *)
MutKept(n) ==
    /\ n > 0 => heap[list[n]].age < MaxLife
    /\ \A i \in DOMAIN list : i > n => heap[list[i]].age >= MaxLife

MutKeptHead(n) ==
    /\ n = 0 => list = <<>>
    /\ n > 1 => ~ Expired(list[n])
    /\ \A i \in DOMAIN list : i > n => Expired(list[i])

Kept(n) ==
    /\ n > 0 => ~ Expired(list[n])
    /\ \A i \in DOMAIN list : i > n => Expired(list[i])

SessionGC ==
    /\ \E n \in 0 .. Len(list) :
          /\ Kept(n)
          /\ list' = SubSeq(list, 1, n)
          /\ sessions' = [s \in Sids |->
                             IF \E i \in DOMAIN list : i > n /\ heap[list[i]].sid = s
                             THEN NoObj ELSE sessions[s]]
    /\ UNCHANGED <<heap, handler, jar>>

-----------------------------------------------------------------------------
(* The manager.                                                            *)

(* A session id that nobody has heard of, as 32 random bytes are.          *)
Unused(sid) ==
    /\ sessions[sid] = NoObj
    /\ \A c \in Clients : jar[c] # QueryEscape(sid)
    /\ \A h \in Handlers : QueryEscape(sid) \notin {handler[h].cookie, handler[h].setCookie}

(* SessionStart: a session for the cookie of the request, made if there is *)
(* none; without a cookie, a new session and a cookie for it.              *)
NewSession(h, pc) ==
    /\ handler[h].cookie = NoCookie
    /\ \E sid \in Sids, o \in Objects :
          /\ Unused(sid)
          /\ SessionInit(o, sid)
          /\ handler' = [handler EXCEPT ![h].pc = pc, ![h].sess = o,
                                        ![h].setCookie = QueryEscape(sid)]

MutReadAnew(h, pc) ==
    /\ handler[h].cookie # NoCookie
    /\ \E o \in Objects :
          /\ SessionInit(o, QueryUnescape(handler[h].cookie))
          /\ handler' = [handler EXCEPT ![h].pc = pc, ![h].sess = o]

MutReadOnly(h, pc) ==
    /\ handler[h].cookie # NoCookie
    /\ handler' = [handler EXCEPT ![h].pc = pc,
                       ![h].sess = sessions[QueryUnescape(handler[h].cookie)]]
    /\ UNCHANGED <<sessions, list, heap>>

SessionRead(h, pc) ==
    LET sid == QueryUnescape(handler[h].cookie)
    IN  /\ handler[h].cookie # NoCookie
        /\ IF sessions[sid] # NoObj
           THEN /\ handler' = [handler EXCEPT ![h].pc = pc, ![h].sess = sessions[sid]]
                /\ UNCHANGED <<sessions, list, heap>>
           ELSE \E o \in Objects :
                   /\ SessionInit(o, sid)
                   /\ handler' = [handler EXCEPT ![h].pc = pc, ![h].sess = o]

(* postLogin, postLogout and isLogin open with it; postLogin with the      *)
(* wrong password ends there, the session it made untouched at the back.   *)
AfterStart(h) ==
    IF handler[h].pc = "start" /\ handler[h].op \in {"login", "logout"} THEN "write"
    ELSE IF handler[h].op = "badLogin" THEN "refuse"
    ELSE "getUpdate"

SessionStart(h) ==
    /\ handler[h].pc \in {"start", "check"}
    /\ NewSession(h, AfterStart(h)) \/ SessionRead(h, AfterStart(h))
    /\ UNCHANGED jar

(* SessionDestroy looks the cookie up as it came, still escaped; a cookie  *)
(* that asks the client to forget it is set either way.                    *)
SessionDestroy(h) ==
    LET key == handler[h].cookie
    IN  /\ handler[h].pc = "destroy"
        /\ IF key \in Sids /\ sessions[key] # NoObj
           THEN /\ sessions' = [sessions EXCEPT ![key] = NoObj]
                /\ list' = Remove(sessions[key])
           ELSE UNCHANGED <<sessions, list>>
        /\ handler' = [handler EXCEPT ![h].pc = "check",
                          ![h].setCookie = IF key = NoCookie THEN @ ELSE NoCookie]
        /\ UNCHANGED <<heap, jar>>

-----------------------------------------------------------------------------
(* The handlers.                                                           *)

Reply(h, code) ==
    /\ handler' = [handler EXCEPT ![h] = [Resting EXCEPT !.op = handler[h].op, !.answer = code]]
    /\ jar' = IF handler[h].setCookie = Unset THEN jar
              ELSE [jar EXCEPT ![handler[h].client] = handler[h].setCookie]

Begin(h, c, op) ==
    /\ handler[h].pc = "idle"
    /\ handler' = [handler EXCEPT ![h] = [Resting EXCEPT
                      !.pc = "start", !.op = op, !.client = c, !.cookie = jar[c]]]
    /\ UNCHANGED <<sessions, list, heap, jar>>

Refuse(h) ==
    /\ handler[h].pc = "refuse"
    /\ \E code \in {400, 403} : Reply(h, code)
    /\ UNCHANGED <<sessions, list, heap>>

(* Store.Set of postLogin and Store.Delete of postLogout: the map, then    *)
(* SessionUpdate.                                                          *)
WriteValue(h) ==
    /\ handler[h].pc = "write"
    /\ heap' = [heap EXCEPT ![handler[h].sess].username = (handler[h].op = "login")]
    /\ handler' = [handler EXCEPT ![h].pc = "setUpdate"]
    /\ UNCHANGED <<sessions, list, jar>>

SetUpdates(h) ==
    /\ handler[h].pc = "setUpdate"
    /\ SessionUpdate(handler[h].sess)
    /\ \/ handler[h].op = "login" /\ Reply(h, 200)
       \/ /\ handler[h].op = "logout"
          /\ handler' = [handler EXCEPT ![h].pc = "destroy"]
          /\ UNCHANGED jar
    /\ UNCHANGED sessions

(* Store.Get of isLogin: SessionUpdate, then the map.  postLogout answers  *)
(* 400 if it still finds a user, the guarded handlers 401 if they do not.  *)
GetUpdates(h) ==
    /\ handler[h].pc = "getUpdate"
    /\ SessionUpdate(handler[h].sess)
    /\ handler' = [handler EXCEPT ![h].pc = "read"]
    /\ UNCHANGED <<sessions, jar>>

ReadValue(h) ==
    LET isLogin == heap[handler[h].sess].username
    IN  /\ handler[h].pc = "read"
        /\ Reply(h, CASE handler[h].op = "logout"  -> IF isLogin THEN 400 ELSE 200
                      [] handler[h].op = "guarded" -> IF isLogin THEN 200 ELSE 401)
        /\ UNCHANGED <<sessions, list, heap>>

HandlerStep(h) ==
    \/ SessionStart(h) \/ SessionDestroy(h) \/ Refuse(h)
    \/ WriteValue(h) \/ SetUpdates(h)
    \/ GetUpdates(h) \/ ReadValue(h)

Tick ==
    /\ heap' = [o \in Objects |->
                   [heap[o] EXCEPT !.age = IF @ > MaxLife THEN @ ELSE @ + 1]]
    /\ UNCHANGED <<sessions, list, handler, jar>>

(* The process is restarted (after a crash, or as Go's runtime ends it     *)
(* when it notices a concurrent access of a map): only the jars survive.   *)
Restart ==
    /\ MayRestart
    /\ sessions' = [s \in Sids |-> NoObj]
    /\ list' = <<>>
    /\ handler' = [h \in Handlers |-> Resting]
    /\ UNCHANGED <<heap, jar>>

SessionNext ==
    \/ \E h \in Handlers :
          \/ HandlerStep(h)
          \/ \E c \in Clients, op \in Ops : Begin(h, c, op)
    \/ SessionGC
    \/ Tick
    \/ Restart

(* Goroutines run, time passes and the timer of GC fires again and again;  *)
(* nothing makes a client send another request.                            *)
SessionFairness ==
    /\ \A h \in Handlers : WF_sessionVars(HandlerStep(h))
    /\ WF_sessionVars(Tick)
    /\ WF_sessionVars(SessionGC)

SessionSpec == SessionInitial /\ [][SessionNext]_sessionVars /\ SessionFairness

-----------------------------------------------------------------------------
(***************************************************************************)
(* Properties.                                                             *)
(***************************************************************************)

(* The map and the list hold the same sessions, each once and under its    *)
(* own id, although they are changed under two different locks             *)
(* (sessionManager.go:27, sessionProvider.go:10).                          *)
MapMatchesList ==
    /\ \A i, j \in DOMAIN list : list[i] = list[j] => i = j
    /\ Listed = {sessions[s] : s \in Sids} \ {NoObj}
    /\ \A s \in Sids : sessions[s] # NoObj => heap[sessions[s]].sid = s

(* The order that collecting from the back relies on                       *)
(* (sessionProvider.go:47-58): first the sessions somebody has used, the   *)
(* latest first; behind them the ones nobody has, the oldest first.        *)
ListOrdered ==
    \A i, j \in DOMAIN list : i < j =>
        LET front == heap[list[i]]
            back  == heap[list[j]]
        IN  /\ front.touched /\ back.touched => front.age <= back.age
            /\ ~ front.touched => ~ back.touched /\ front.age >= back.age

(* A session that has not expired stays in the map while a handler holds   *)
(* it: what postLogin stores is there for the next request, however long   *)
(* the handler is delayed (sessionStore.go:13-16, sessionProvider.go:64).  *)
InUseStays ==
    \A h \in Handlers :
        LET o == handler[h].sess
        IN  o # NoObj /\ ~ Expired(o) => o \in Listed

(* What a login answered with 200 has stored is what the next request of    *)
(* that browser finds, if no logout of the browser came in between and the  *)
(* session had not expired while the login held it (app.go:132-161). Without *)
(* the last condition it fails: SessionRead hands out expired sessions that *)
(* the collector may take before Set (sessionManager.go:74).               *)
LoginIsKept ==
    [][\A h \in Handlers :
          LET o == handler[h].sess
              c == handler[h].client
          IN  /\ handler[h].op = "login" /\ handler'[h].answer = 200 /\ SetUpdates(h)
              /\ ~ Expired(o)
              /\ jar[c] = handler[h].cookie
              /\ \A g \in Handlers : handler[g].pc # "idle" => handler[g].op # "logout"
              => LET next == jar'[c]
                 IN  /\ next # NoCookie
                     /\ sessions'[QueryUnescape(next)] = o
                     /\ heap'[o].username /\ heap'[o].age = 0]_sessionVars

(* The collector takes nothing but expired sessions, and what expired      *)
(* session it leaves has one behind it that nobody has used yet            *)
(* (sessionProvider.go:47-58): it stops at the first that has not expired. *)
GCTakesTheExpired ==
    [][SessionGC =>
        /\ \A o \in Listed \ Listed' : Expired(o)
        /\ \A i \in DOMAIN list' : Expired(list'[i]) =>
              \E j \in DOMAIN list' : j > i /\ ~ heap[list'[j]].touched]_sessionVars

(* Requests that race with one cookie share one session: none of them puts *)
(* another in the place of one that is in the map, and a session leaves it *)
(* only by a collection, a logout or a restart (sessionManager.go:63-77).  *)
RacingRequestsShare ==
    [][\/ SessionGC \/ Restart \/ \E h \in Handlers : SessionDestroy(h)
       \/ \A s \in Sids : sessions[s] # NoObj => sessions'[s] = sessions[s]]_sessionVars

(* Once no request is served any more, every session is collected, the     *)
(* logged out and the abandoned ones too (sessionProvider.go:12, 43-59).   *)
QuietServerForgets ==
    <>[](\A h \in Handlers : handler[h].pc = "idle") => <>[](list = <<>>)

(* SessionDestroy removes the session of the cookie it is given            *)
(* ("Destroy sessionid", sessionManager.go:79): it does not hold, since    *)
(* SessionStart stores the id and SessionDestroy looks up its escaped form.*)
DestroyRemoves ==
    [][\A h \in Handlers :
          SessionDestroy(h) /\ handler[h].cookie # NoCookie
            => sessions'[QueryUnescape(handler[h].cookie)] = NoObj]_sessionVars

(* A logout never finds its user still logged in ("Should not be here      *)
(* default", app.go:197): it does not hold when a login with the same      *)
(* cookie comes between the Delete and the check.                          *)
LogoutNeverFails ==
    \A h \in Handlers : handler[h].op = "logout" => handler[h].answer # 400
=============================================================================
