# A TLA+ model of motcert-backend

motcert-backend is a web service that keeps calibration certificates and their
PDF files on a Hyperledger Fabric channel. These modules model the calls it
makes to the ledger, the handlers that write certificates and files, its lists,
its temporary files, the sessions of its users and the commands that start it. TLC checks them on small instances and TLAPS
proves the most important invariants for instances of any size. `PROJECT.json`
maps every definition to the lines it models and lists runs, findings, hazards
and theorems.

Paths below are relative to `src/app`; SDK paths to
`src/app/vendor/github.com/hyperledger/fabric-sdk-go/pkg`.

## 1. Inventory

| Part | State | Operations | Interacts with |
|---|---|---|---|
| Chaincode, `chaincode/main.go` | world state: a certificate under `("certId", id)`, a file under `("certFile", id)` | `postCertificate`, `postUploadFile` put a value without reading and set an event; `getCertificate`, `getDownloadFile`, `queryList` read | run by the peers |
| Orderer and peers (external) | the chain, how far each peer has applied it | order, commit | hand blocks to the SDK's event service, answer queries |
| Fabric client, `fabricClient/execute.go`, `query.go` | a registration, a notifier and a timer in each running call | `Execute`, `Query` | SDK: channel client, event client |
| SDK (vendored): `client/channel/invoke/txnhandler.go`, `fab/events/service/dispatcher` | registrations for transactions and chaincode events, last block | register, unregister, publish a block, wait for a status | one dispatcher shared by all calls |
| Certificate handlers, `business/certificateIO.go` | local variables of a request | `CertificateIn`, `CertificateOut`, `UploadFile`, `DownloadFile`, `ChangeStatus`, three list queries | `Execute`, `Query`, temporary files |
| REST layer, `app.go` | none | ten routes; `isLogin` guards the writing ones | sessions, certificate handlers |
| Sessions, `session/` | a map and a list of sessions, one value map in each, a cookie in each browser | `SessionStart`, `SessionDestroy`, `Set`, `Get`, `Delete`, `GC` | every guarded request, a timer |
| Start-up, `server.go`, `fabricClient/setup.go` | the SDK's clients | `start`, `update`, `upgrade` | once per process |
| Temporary files, `certificateIO.go` 155-291, 528-556 | two directories, one path for each certificate number | remove, create, copy, read back | uploads and downloads |
| `benchmark.go`, `version.go`, fixtures, swagger | none | none | none |

Every HTTP request is a goroutine, and nothing is locked across a handler. What
is hard about this code:

* **The ledger answers late, or not at all.** `Execute` waits twice (commit
  status, then chaincode event); each wait has a timer. An error leaves open
  whether the transaction takes effect. The process may end between two steps
  (every answer that cannot be written calls `logger.Fatalf`), while its
  transactions remain with the orderer.
* **Replicas.** A query is answered by any peer, and peers may lag.
* **Read, amend, write back.** `UploadFile` and `ChangeStatus` read a
  certificate, change a field and write all of it back; the check that an open
  certificate has a file is made before the write and elsewhere.
* **A batch goes on after errors**: `ChangeStatus` marks each status in its answer.
* **Sessions are used outside the locks** that protect the map and the list,
  expire, and are collected and made anew while handlers hold them.

What makes each part correct:

* *Execute*: success means committed; a call writes at most once; no
  registration leaks; a committed transaction is not reported as timed out; it
  always returns.
* *Certificate handlers*: an open certificate has its file, at every peer at all
  times; `hasUpload` never claims too much; answers agree with the ledger;
  status changes and uploads write nothing that nobody posted; every request ends.
* *Sessions*: map and list agree; racing requests share a session; a session in
  use stays; the collector takes the expired ones and, in the end, all of them.
* *Lists*: the loop over pages ends, although it has no bound; no index into the
  bookmarks is out of range; when nothing is committed meanwhile, page and count
  are those of the list.
* *Temporary files*: an upload that overlaps with no other of its certificate
  stores what was uploaded, a download sends what is stored; overlapping uploads
  mix nothing from elsewhere in; descriptors are closed.
* *Start-up*: a server that serves with its clients has a deployed chaincode
  behind it, whatever earlier runs left undone.

## 2. The modules

```
Ledger <-+- FabricClient <-+- FabricCalls <- MCFabricCalls
         |                 +- CertificateIO <- MCCertificateIO
         |                       | (INSTANCE)
         |                       +-> CertRegistry
         +- RichQuery <- MCRichQuery

Session <- MCSession        TempFiles <- MCTempFiles        Startup <- MCStartup
```

Proofs are in modules of their own:

```
FabricClientProofs <-+- FabricCallsProofs
                     +- CertificateIOProofs <- AnswerProofs

SessionProofs     TempFilesProofs     RichQueryProofs     StartupProofs
```

`FabricClientProofs` has the lemmas about single steps of the client, which hold
for whatever composes it; each of the other modules extends the one it is named
after (`AnswerProofs` is the second half of the proofs about `CertificateIO`).

**Ledger.** `chain` is the sequence of blocks, each with the state it leads to;
`height[p]` says how many of them peer `p` has applied; `pool` holds what the
orderer has been given. `PutState` is the effect of the two writing chaincode
functions. They never read, so their transactions have empty read sets, conflict
with nothing and are always valid. The text fields of a certificate are folded
into one opaque `body`; `isOpen`, `isCompleted`, `isDeleted` and `hasUpload` are
kept. `updateDate`, which the chaincode sets, is left out. A block holds one
transaction. Real blocks hold up to ten; then a peer never shows the states
between them, so the model shows a superset of the states that peers show.

**FabricClient.** `exec[r]` is the call of `Execute` that request `r` makes:
`register` -> `endorse` -> `commit` -> `event` -> `ok`, or `err` at any point.
`registrations` are the keys of the dispatcher's `ccRegistrations`, `seen` the
last block it has published. `Register` and `RegisterRefused` are
`RegisterChaincodeEvent`, which compiles the event name as a regular expression
(`Compiles`) and refuses a filter that is already there; `Matches` says which
filter matches whose event, both constants of the instance. `Submit`, `AckLost`
and `EndorseFails` are the outcomes of the send within `client.Execute`,
`CommitStatus` and `CommitTimeout` those of the SDK's commit handler,
`EventReceived` and `EventTimeout` the two branches of `select` in `execute.go`.
Every return past the registration goes through `Return`, the deferred
`Unregister`. `Dispatch` publishes a block: first the commit status, then the
event to every registration that matches. It does both in one step, so
`EventTimeout` needs that no event is there: in the program the event follows
the status within the time the dispatcher takes for one block, and the timer runs for
30 seconds. `Restart` loses every call and registration, keeps pool and ledger,
and subscribes at the newest block of some peer. A lost event connection is not
an action: the SDK reconnects at the block after the last one received
(`fab/events/deliverclient/deliverclient.go` 126-142).

**FabricCalls** is that client on its own, with requests that call `Execute` up
to `MaxCalls` times, one call after another.

**CertificateIO** composes the client with the handlers. `work[r]` is the local
state of a handler: its program counter, its job, the loop index, the
certificate in hand, and the marks of the answer. A handler is at `certOut` when
it is about to ask some peer for a certificate, at `certIn` when `CertificateIn`
is about to ask some peer for the file, at `execute` while a call of `Execute`
runs. `NextTurn` is the loop of `ChangeStatus`, `AfterCertificateIn` what each
caller does with the error and the code: a certificate handler answers the code,
`UploadFile` answers 200 unless there is an error, `ChangeStatus` marks the
status unless there is an error. Note `CertificateInRefused(r, uploaded, failed)`:
the refusal of `certificateIO.go:113` returns the error *of the query*, which is
nil if the query merely found nothing. `Reject` stands for all refusals before
the first step of a job (not logged in, undecodable, the temporary file, no PDF).

**CertRegistry** is the abstract specification: one map of certificates and one
of files, changed by atomic writes, each at most once, a certificate recorded as
open only if its file is there. `CertificateIO` implements it under the mapping
`certs`, `files` |-> the state after the last block, `written` |-> the ids of the
transactions on the chain (`ImplementsRegistry`).

**Session.** `sessions` and `list` are the provider's map and list, `heap` the
session objects with their age since `timeAccessed`, `handler` the goroutines,
`jar` the cookie of each browser. A section under `Manager.lock` or
`SessionProvider.lock` is one step. The value map of a session is used under no
lock; an access is one step (`WriteValue`, `ReadValue`) between the locked ones.
Two accesses at the same time either take effect in some order, which the steps
cover, or end the process when the Go runtime notices them, which `Restart`
covers. Objects matter:
after a collection the map may hold a new object under the id of an old one that
a handler still uses. `QueryEscape` is modelled by what it does: an escaped id is
never an id, because an id ends in `=`. `SessionGC` may run at any time: its
timer is set to 3600 *nanoseconds* (`sessionManager.go:100`), so collections
follow one another at once. Of the user only "there is one" is kept.

**RichQuery** is `CertificateRichQuery` and its three callers. A request first
collects bookmarks: `Collect` is a turn of the loop of `getNewBookmarks`, which
asks for the page after the last bookmark and ends when the bookmark repeats or
the page is empty. Then it fetches the page asked for (`FetchPage`, after
`pageIndex` was clamped to the bookmarks found), and, for the count, the page
after the last bookmark (`FetchLast`) and, if that is empty, the one before
(`FetchLastButOne`). Each is a query of its own, answered by any peer from its own
height, while the transactions in `Writes` are ordered and committed. `RowsAt` is
what CouchDB selects for the list's conditions, `Precedes` its sort order,
`Limit` and `Page` what the peer makes of the page size. The text and date
conditions of a query are folded into the set of contents (`bodies`) that satisfy
them. CouchDB itself, and that its bookmark resumes *behind the row it names*
even if that row has moved, are external; `calm` is a history variable.

**TempFiles** is the file system as these handlers use it. `names` maps a path to
an inode, `content` an inode to its blocks, `open` are the descriptors; a path is
shared by all requests of one kind for one certificate. `work[r]` goes through
the calls of `UploadFile` and `DownloadFile` in their order: remove, open (an
upload's `os.OpenFile` keeps the contents it finds, a download's `os.Create`
truncates them), copy, open again, `Stat` *by path*, read or send. `Ends` runs
the deferred closes; its last argument is what the code leaves open. `Execute`
stands for the rest of `UploadFile`, which is in `CertificateIO`: the file reaches
the ledger or does not, whatever the answer says. `alone` is a history variable.

**Startup** is one process after another on one network. `server.pc` goes through
`setFabricSdk`, `Initialize` and `InstallAndInstantiateCC`, one step for each call
that can fail; `channel`, `joined`, `installed` and `instantiated` outlive the
process. Calls that reach several peers may reach any set of them before they
fail. A failure is logged by `setFabricSdk`, and the service starts all the same
(`Fault` leads to `serving`). `Stop` ends the process anywhere; `faulted` is a
history variable.

Definitions named `Mut...` are variants of the definition after them, with a
plausible mistake. They are not part of any specification; each shows that a
property would notice that mistake.

## 3. The runs

| Run | Question | Bounds |
|---|---|---|
| FabricCalls | Is success a commit? Is anything written twice, or an old event taken for the new commit, when a request tries again? Are registrations exactly those of running calls? Does a committed call have its event? | 2 requests, 2 calls each, 2 certificates (the filter of one misses its own event, that of the other matches the events of both), 2 peers, restarts, lost acknowledgements, failed endorsements, symmetry |
| CertificateIO | Do answers and marks agree with the ledger? What do batches and uploads write? Do the interleaved requests implement the registry? Does every request end? | 2 requests with any of 8 jobs, batches of none and of two statuses among them (two certificates, or one twice), 2 peers, all faults |
| Session | Map and list, order of the list, sessions in use, racing requests, and that a login stays while it is used | 2 goroutines, 1 browser, 2 ids, 2 objects, `MaxLife` 1, restarts, symmetry |
| SessionDrains | What does a collection take and leave? Is everything collected when requests stop? | 1 goroutine, 3 ids, 3 objects |
| RichQuery | Do the bookmarks advance while certificates move about? Is a list that nothing disturbs exact? Does every list end? | 1 reader with any of 10 queries (page sizes -1, 0, 1, 2, 3; pages 0, 1, 2 and past the end; all three lists), 3 certificates, 4 writes in any order, one of them taking a certificate off the list, 2 peers, a limit of 2 rows |
| TempFiles | What do uploads and downloads hand on, alone and overlapping? Which descriptors stay open? | 3 requests with any of 5 jobs, 2 certificates, files of 1 and 2 blocks, one not a PDF, failures and crashes everywhere, symmetry |
| Startup | What does a serving process prove of the network? Which runs can succeed? Does every run get to serve? | 4 runs of any command, 2 peers, failures and kills everywhere |

Why the bounds suffice. Requests interact through the keys they write and the
registrations they hold; two requests give every pair of them. A certificate is
opened with its file missing only if the check of one request is overtaken by a
write of another, so two requests that make several writes, one after another, are
enough. Requests collide on one certificate; the second is there for filters that
cross and for batches. Two peers give one that is ahead and one that lags. For
sessions, one browser is the hard case, since requests of different browsers share
only the list; three objects give the list a front, a middle and a back. `MaxLife`
1 gives fresh, old and expired. In RichQuery a reader only reads, so a second one
would not disturb the first; three rows under a limit of two give full, partial
and empty pages, and the fourth write moves a row while its bookmark is in use. In
TempFiles the third request may find what two others, overlapping or broken off,
have left; a file of two blocks can be overtaken in the middle. In Startup four
runs are a start that fails, one that is refused, an update and an upgrade.
`MaxCalls`, `Jobs`, `Objects`, `Writes`, `Blocks` and `MaxRuns` are the only bounds
that are not in the code: the requests, writes and commands of an instance are
finitely many, and a new session needs a free place.

CertificateIO stops when every request is done (`AllDone`), FabricCalls when
every call is (`Finished`), TempFiles likewise; these are explicit steps, so
deadlock is checked there. RichQuery and Startup really stop, when all writes are
committed everywhere and all lists answered, or when the last command has been run
and stopped: their cfgs say `CHECK_DEADLOCK FALSE`.

### Disagreements

Five runs end in a counterexample; each states what the code or its documentation
says of itself. `PROJECT.json` quotes the lines.

* **UnmatchedFilter / ResultIsAwaited**: the event name is a regular expression
  to the SDK. With a certificate number like `12(3)` it does not match itself:
  the write commits and the request fails after 30 seconds.
* **HasUploadRace / HasUploadComplete**: a post that overlaps an upload can leave
  `hasUpload` false for a certificate with a file, both answered with success.
* **MarkedNotWritten / MarksAreWritten**: opening a certificate without a file is
  refused without an error, so `ChangeStatus` marks it as changed on the chain.
* **LogoutKeepsSession / DestroyRemoves**: `SessionDestroy` looks up the escaped
  cookie and removes nothing.
* **LogoutRace / LogoutNeverFails**: a login of the same browser between the
  `Delete` and the check of a logout reaches "Should not be here default".

## 4. Fairness

`CertificateIO` assumes weak fairness of each request's own
steps and of nothing else (`FabricCalls` assumes none: it has only invariants): Go runs every goroutine, and each wait of `Execute`
has a timer behind it (`CommitTimeout`, `EventTimeout`) that is enabled as long
as the answer has not come. Nothing is assumed of clients, orderer, peers,
dispatcher or crashes: `RequestsEnd` holds when the network
stops for good. `Session` assumes weak fairness of goroutines, of time, and of
the collector, which re-arms its timer after each collection.
`RichQuery` assumes weak fairness of each handler's queries that
succeed: if none fails and the process lives, `ListEnds` says that the unbounded
loop ends, although peers may lag for ever and nobody need write. `Startup`
assumes weak fairness of the run's own steps, since every call of the SDK has a
time limit; a kill is an answer too (`At("down")`). `TempFiles` states no fairness.
`QuietServerForgets` says something only of behaviours in which requests stop:
while failed logins keep arriving, a fresh untouched session at the back of the
list can hide every expired one (`GCTakesTheExpired` states what is left).

## 5. What is proved

For all constants that satisfy the assumptions, with any number of certificates,
peers, requests and jobs, any filters and any faults, every safety property of
the passing runs, and the refinement of the registry. An invariant that a run
checks is seldom inductive as it stands; what had to be added is what the code
relies on without saying so. TLC checked each strengthening on the instances
above before it was proved.

**The client** (`FabricCallsProofs`: `SuccessIsCommit`, `CallsWriteOnce`,
`NoRegistrationLeaks`, `EventComesWithStatus`, `ClientIsTyped`). All follow from
`ClientInv`: a transaction id is that of one call, and of one that has been made
(`IdsAreOfCalls`); a call that has not submitted has nothing in the pool or on
the chain (`SentOnce`); a status in a call's channel is that of a commit, and if
the call is waiting and its filter matches, the event came with it
(`StatusIsTrue`); registrations and waiting calls are one to one (`Held`). That no
id is used twice after a restart needs that the counter of calls is not reset (in
the program: that nonces do not repeat).

**The writing handlers** (`CertificateIOProofs`).

* `TypeCorrect`. `TypeInv` adds what the handlers rely on: a call that has begun
  has a transaction, the index is within the job, an `execute` of a file belongs
  to an upload.
* `OpenCertHasFileHolds` and `HasUploadSoundHolds`. A transaction in flight was
  checked against a state that is gone. `FilesInv` adds why that does no harm:
  every certificate in a call or in the pool is `Backed` (open only if it claims a
  file, claims a file only if one is at the *tip* of the chain), every state in the
  chain is sound, and a file in any of them is still at the tip (`FilesStay`). A
  peer's state is one of the chain's, so what `CertificateIn` sees at a lagging peer
  is also at the tip when it submits, and `Order` keeps it there.
* `ServiceClient`: the handlers use the client as `ClientInv` expects, so what is
  proved of `Execute` alone holds in the service. `ServiceInv` is the conjunction.
* `RegistryImplemented`: `Spec => ImplementsRegistry`. `Order` maps to an atomic
  write of the registry, every other step to a stutter; that the write is a new one
  comes from `ClientInv` (no id in the pool is on the chain), that it opens nothing
  without its file from `FilesInv`.

**Answers** (`AnswerProofs`, on `ServiceInv`).

* `AnswersAreTrue` and `MarksAreTrue` follow from `AnswerInv`: `Told` says for each
  place of a handler what some peer must have by then (the file of an upload that
  is past its first call, the statuses already marked), what the running call
  carries (`Carries`), and that a refusal comes before any call. With
  `SuccessMeansCommitted`, the end of a call turns what it carries into what a peer
  has. `MarksAreTrue` is about marks that close a certificate; of those that open
  one the run MarkedNotWritten shows the contrary.
* `WritesDerivedHolds`. `DerivedInv` says the same of what has not been written yet:
  the certificate in a handler's hand, in a call and in the pool has a body that an
  earlier block posted, and so has each certificate in each state of the chain,
  which is what a handler reads at a peer that lags.

**Sessions** (`SessionProofs`).

* `MapAndListAgree`, `ListStaysOrdered` and `SessionTypesHold`: `StoreInv`, with one
  lemma for each locked section. That the order survives the collector needs that it
  takes sessions from the back only.
* `SessionsInUseStay`: every handler that is past `SessionStart` holds an object that
  is listed or expired. `CollectorTakesTheExpired` and `RacersShareASession` are
  action properties, from `SessionInv`.
* `LoginsAreKept`. `LoginIsKept` speaks of a cookie in a browser, which was set by a
  handler that may have worked on an object that the map no longer had. `LoginInv` adds
  whose a cookie is: one that is about to be set is known to no browser and no other
  handler (`CookiesSecret`), one in a jar to the handlers of that browser alone
  (`CookiesOwned`); hence nobody else logs out the session of a login, and until it
  is answered its object has the user (`LoginsStored`).

**Temporary files** (`TempFilesProofs`), for any number of requests for one path, with
failures and crashes.

* `LoneUploadsAreWhole` and `LoneDownloadsAreExact`. `DiskInv` says whose an inode is: one
  under a path, or held by a request, was made by a request for that same path.
  `AloneInv` adds, for a request that has overlapped with none of its kind, that nobody
  else is running on its path (`Undisturbed`) and how far it has come (`Progress`): after
  the removal the path is free, so the inode that it opens is its own and empty, and its
  contents are the blocks copied so far. It is the *removal* that the upload rests on.
* `StoredBlocksStayOwn`: what `DiskInv` says of contents and of what is read back
  (`OwnBlocks`) holds of the ledger too. Overlapping writes start at or before the end of
  what is there, so no hole arises (`OverwrittenFields`).
* `DescriptorsStayAccounted`: every step touches its own descriptors only (`LocalStep`).
* `FileTypesHold`.

**Lists** (`RichQueryProofs`), for any certificates, writes, peers, pages and page
sizes, negative ones too.

* `ListsTyped` and `BookmarksDoAdvance`. `GoodList` is the invariant of one handler: the
  bookmarks are strictly further down the list each time, there is at least one, and the
  index is within them, because `Clamped` never exceeds their number and `Receive`
  refuses pages below 1. `FetchLast` steps back only if there are two. A page lies behind
  its bookmark in whatever state it is read (`PageRows`), so writes in between do not
  matter.
* `QuietListsAreExact`. `QuietInv` says that the peers agree while nothing is committed,
  and how far a handler has come in the list (`QuietList`): the k-th bookmark has passed
  k - 1 full pages, or all rows (`MarksExact`); when the loop ends all rows are passed
  (`Complete`). The places of the rows are a bijection onto 1 .. their number (`Places`,
  by `FS_Injection`), so a page and its count are an interval of places (`PageBetween`),
  and the rest is arithmetic (`NextMark`, `ExactPage`, `ExactCount`) without an
  induction over the rows. The count needs that the page before the last bookmark is
  not empty, which is why `MarksExact` bounds the number of bookmarks.

**Start-up** (`StartupProofs`: `StartedIsDeployed`, `StartedByTheCreator`,
`InstantiatedIsInstalled`, `StartupTyped`), for any peers and any number of runs.
`StartupInv` adds how far a run has come (`Progress`) and what it has then done to the
network (`Effects`), for instance that a start past `JoinChannel` is the one that
created the channel.

The assumptions are those of the modules: the sentinels are not values
(`SentinelsAreFresh`, `ClientAssumption`, `JobsAssumption`, `AnswerAssumption`,
`SessionAssumption`, `FilesAssumption`), jobs, calls and queries are well formed
(`CallsAssumption`, `QueryAssumption`), `Compiles` and `Matches` are over certificates,
certificate numbers are ordered, there is a peer (`StartupAssumption`), and an escaped
session id is no id (`CookieAssumption`: ids end in `=`, escaped ones in `%3D`).
TLC evaluates them in the runs.

Only model-checked:

* the liveness properties `RequestsEnd`, `QuietServerForgets`, `ListEnds` and
  `ServesInTheEnd`: TLAPS has no rules for fairness and ENABLED here. That bookmarks
  advance is the heart of `ListEnds`, but that a finite list has no infinite chain of
  them takes an induction;
* the five disagreements, which are counterexamples.

## 6. What is not modelled

* Contents and wording: JSON, text fields, dates, log lines; passwords (a login
  is right or wrong); TLS.
* `getCertificate`: one query, no state.
* The text and date conditions of lists beyond "some contents satisfy them"; the
  mango query and its index are CouchDB's.
* That `os.Remove` fails although the file is there, and a full disk beyond a call
  that fails.
* `CloseSDK`, whose receiver is nil when `main` defers it (`server.go:101`), and a
  second `Initialize` in one process, which never happens.
* The benchmark and version commands, fixtures and API description.
* Peer selection (any peer may answer, which includes what the SDK selects),
  endorsement policy, orderer failure beyond silence, invalid transactions.
* Multiple service processes on one channel: the pool and the chain would not
  tell them apart, but registrations and sessions are per process.

What the runs show of the code where no document says otherwise:

* A page size of 0 gives all rows (up to the peer's limit) and the count 0; a page
  past the end gives the empty page after the last (`QuietListIsExact`).
* Overlapping uploads of one certificate can store a mixture of their blocks, cut
  off or not, each at its place (`StoredBlocksAreOwn` is what is left).
* A download that fails after it has opened the file leaves the descriptor open
  (`DescriptorsAreAccounted` says that nothing else does).
* A start that dies between `SaveChannel` and `JoinChannel` cannot be repaired by
  another start (`OnlyTheCreatorStarts`); "Chaincode upgraded" is logged even if the
  upgrade failed, and the old chaincode serves (`ReadyMeansDeployed` promises no
  more of an upgrade than that the package is installed).
* A login answered 200 is there for the browser's next request, unless its session
  had expired while the login held it, or a logout of the browser runs
  (`LoginIsKept`; it fails without either condition, because `SessionRead` hands out
  expired sessions that the collector may take before `Set`).

## 7. Plan

Done, in this order because it is what the service is for: ledger, client, writing
handlers, registry, sessions; lists, temporary files, start-up; the proofs of section 5.
Left: `MotCert`, sessions composed with the guarded handlers, whose only link is
that a handler begins with `isLogin`: what a request may still write whose
session is logged out or collected meanwhile.
