--------------------------- MODULE CertificateIO ---------------------------
(***************************************************************************)
(* app/business/certificateIO.go, the handlers that write: CertificateIn,  *)
(* CertificateOut, UploadFile and ChangeStatus, each called by the handler *)
(* of app.go that answers the request.  Every request is a goroutine; its  *)
(* steps are the queries it makes, each answered by some peer, and the     *)
(* calls of Execute.  Nothing is locked between them.                      *)
(***************************************************************************)
EXTENDS FabricClient

(***************************************************************************)
(* What a request asks for.  ChangeStatus takes any number of statuses,    *)
(* the other two exactly one certificate or file.                          *)
(***************************************************************************)
PostItem == [certId : Certs, value : Certificate]
FileItem == [certId : Certs, value : Files]
Status   == [certId : Certs, isOpen : BOOLEAN, isCompleted : BOOLEAN,
             isDeleted : BOOLEAN, isChangedOnChain : BOOLEAN]

Job == [op : {"postCertificate"},  items : [{1} -> PostItem]] \cup
       [op : {"postUploadFile"},   items : [{1} -> FileItem]] \cup
       [op : {"postChangeStatus"}, items : Seq(Status)]

CONSTANTS
    Jobs,       \* the jobs that clients send
    NoJob,      \* the job of a request not received
    NoAnswer    \* the answer of a request not answered

ASSUME JobsAssumption == Jobs \subseteq Job /\ NoJob \notin Job

VARIABLE work       \* the state of each request's handler

vars == <<fabricVars, work>>

Codes == {200, 400, 401, 500, 501}

ASSUME AnswerAssumption == NoAnswer \notin Codes

Marks == Seq(BOOLEAN)

Handler == [pc     : {"unsent", "certOut", "certIn", "execute", "done"},
            job    : Job \cup {NoJob},
            idx    : Nat,                           \* loop variable of ChangeStatus
            hand   : Certificate \cup {NoCert},     \* argument of CertificateIn
            marks  : Marks,                         \* isChangedOnChain of each status
            answer : Codes \cup {NoAnswer}]

TypeOK ==
    /\ FabricTypeOK
    /\ work \in [Requests -> Handler]
    /\ \A r \in Requests :
          /\ work[r].pc \in {"certOut", "certIn", "execute"} => work[r].idx \in DOMAIN work[r].job.items
          /\ work[r].pc = "certIn" => work[r].hand # NoCert

Unsent == [pc |-> "unsent", job |-> NoJob, idx |-> 0, hand |-> NoCert,
           marks |-> <<>>, answer |-> NoAnswer]

Init == FabricInit /\ work = [r \in Requests |-> Unsent]

Item(r) == work[r].job.items[work[r].idx]
Op(r)   == work[r].job.op

-----------------------------------------------------------------------------
(* Ways a handler goes on.  Definitions named Mut... are variants that the  *)
(* checks put in the place of the definition after them, to see the         *)
(* properties fail.                                                         *)

Answered(w, code) == [w EXCEPT !.pc = "done", !.hand = NoCert, !.answer = code]

Reply(r, code) == work' = [work EXCEPT ![r] = Answered(@, code)]

MutNextTurn(w, marks) ==
    IF w.idx <= Len(w.job.items)
    THEN [w EXCEPT !.pc = "certOut", !.idx = @ + 1, !.hand = NoCert, !.marks = marks]
    ELSE [w EXCEPT !.pc = "done", !.hand = NoCert, !.marks = marks, !.answer = 200]

(* The next turn of the loop of ChangeStatus, with the marks so far.       *)
NextTurn(w, marks) ==
    IF w.idx < Len(w.job.items)
    THEN [w EXCEPT !.pc = "certOut", !.idx = @ + 1, !.hand = NoCert, !.marks = marks]
    ELSE [w EXCEPT !.pc = "done", !.hand = NoCert, !.marks = marks, !.answer = 200]

NextStatus(r, marks) == work' = [work EXCEPT ![r] = NextTurn(@, marks)]

(* CertificateIn has returned: with an error, or without one and the code. *)
MutAfterCertificateIn(r, failed, code) ==
    \/ Op(r) = "postCertificate" /\ Reply(r, 200)
    \/ Op(r) = "postUploadFile" /\ Reply(r, 200)
    \/ Op(r) = "postChangeStatus"
       /\ NextStatus(r, [work[r].marks EXCEPT ![work[r].idx] = TRUE])

AfterCertificateIn(r, failed, code) ==
    \/ Op(r) = "postCertificate" /\ Reply(r, code)
    \/ Op(r) = "postUploadFile" /\ Reply(r, IF failed THEN 501 ELSE 200)
    \/ Op(r) = "postChangeStatus"
       /\ NextStatus(r, [work[r].marks EXCEPT ![work[r].idx] = @ \/ ~ failed])

-----------------------------------------------------------------------------
(* A request arrives and is decoded.                                       *)

ReceiveCertificate(r, job) ==
    /\ work[r].pc = "unsent"
    /\ job.op = "postCertificate"
    /\ work' = [work EXCEPT ![r] = [Unsent EXCEPT
                   !.pc = "certIn", !.job = job, !.idx = 1, !.hand = job.items[1].value]]
    /\ UNCHANGED fabricVars

(* The statuses keep whatever mark the client sent with them.              *)
ReceiveStatuses(r, job) ==
    /\ work[r].pc = "unsent"
    /\ job.op = "postChangeStatus" /\ job.items # <<>>
    /\ work' = [work EXCEPT ![r] = [Unsent EXCEPT
                   !.pc = "certOut", !.job = job, !.idx = 1,
                   !.marks = [i \in DOMAIN job.items |-> job.items[i].isChangedOnChain]]]
    /\ UNCHANGED fabricVars

ReceiveNoStatus(r, job) ==
    /\ work[r].pc = "unsent"
    /\ job.op = "postChangeStatus" /\ job.items = <<>>
    /\ work' = [work EXCEPT ![r] = [Unsent EXCEPT !.pc = "done", !.job = job, !.answer = 200]]
    /\ UNCHANGED fabricVars

(* UploadFile: the file has been through the temporary directory and is a  *)
(* PDF; the first thing done with it is a write.                           *)
ReceiveFile(r, job) ==
    /\ work[r].pc = "unsent"
    /\ job.op = "postUploadFile"
    /\ work' = [work EXCEPT ![r] = [Unsent EXCEPT !.pc = "execute", !.job = job, !.idx = 1]]
    /\ Enter(r, "postUploadFile", job.items[1].certId, job.items[1].value)

(* Not logged in, a body that does not decode, a temporary file that       *)
(* cannot be written or read, or one that is no PDF.                       *)
Reject(r) ==
    /\ work[r].pc = "unsent"
    /\ \E code \in {400, 401, 500, 501} : Reply(r, code)
    /\ UNCHANGED fabricVars

-----------------------------------------------------------------------------
(* CertificateOut, asking peer p: an error or no value ends the turn.      *)

(* What UploadFile and ChangeStatus change in the certificate they read.   *)
Amend(r, cert) ==
    IF Op(r) = "postUploadFile" THEN [cert EXCEPT !.hasUpload = TRUE]
    ELSE [cert EXCEPT !.isOpen      = Item(r).isOpen,
                      !.isCompleted = Item(r).isCompleted,
                      !.isDeleted   = Item(r).isDeleted]

MutCertificateOut(r, p) ==
    LET cert == PeerState(p).cert[work[r].job.items[1].certId]
    IN  /\ work[r].pc = "certOut"
        /\ cert # NoCert
        /\ work' = [work EXCEPT ![r].pc = "certIn", ![r].hand = Amend(r, cert)]
        /\ UNCHANGED fabricVars

CertificateOut(r, p) ==
    LET cert == PeerState(p).cert[Item(r).certId]
    IN  /\ work[r].pc = "certOut"
        /\ cert # NoCert
        /\ work' = [work EXCEPT ![r].pc = "certIn", ![r].hand = Amend(r, cert)]
        /\ UNCHANGED fabricVars

CertificateOutNothing(r) ==
    /\ work[r].pc = "certOut"
    /\ \/ "query" \in Faults
       \/ \E p \in Peers : PeerState(p).cert[Item(r).certId] = NoCert
    /\ \/ Op(r) = "postUploadFile" /\ Reply(r, 200)
       \/ Op(r) = "postChangeStatus" /\ NextStatus(r, work[r].marks)
    /\ UNCHANGED fabricVars

-----------------------------------------------------------------------------
(* CertificateIn, asking peer p for the file.                              *)

MutCertificateIn(r, uploaded) ==
    /\ Enter(r, "postCertificate", Item(r).certId, [work[r].hand EXCEPT !.hasUpload = uploaded])
    /\ work' = [work EXCEPT ![r].pc = "execute", ![r].hand = NoCert]

CertificateIn(r, uploaded) ==
    /\ ~ work[r].hand.isOpen \/ uploaded
    /\ Enter(r, "postCertificate", Item(r).certId, [work[r].hand EXCEPT !.hasUpload = uploaded])
    /\ work' = [work EXCEPT ![r].pc = "execute", ![r].hand = NoCert]

(* An open certificate without a file is refused.  The error returned is   *)
(* that of the query: none if the query merely found no file.              *)
CertificateInRefused(r, uploaded, failed) ==
    /\ work[r].hand.isOpen /\ ~ uploaded
    /\ AfterCertificateIn(r, failed, 400)
    /\ UNCHANGED fabricVars

HasFile(r, p) == PeerState(p).file[Item(r).certId] # NoFile

QueryFile(r, p) ==
    /\ work[r].pc = "certIn"
    /\ \/ CertificateIn(r, HasFile(r, p))
       \/ CertificateInRefused(r, HasFile(r, p), FALSE)

MutQueryFileFails(r) ==
    /\ "query" \in Faults
    /\ work[r].pc = "certIn"
    /\ CertificateIn(r, TRUE)

QueryFileFails(r) ==
    /\ "query" \in Faults
    /\ work[r].pc = "certIn"
    /\ \/ CertificateIn(r, FALSE)
       \/ CertificateInRefused(r, FALSE, TRUE)

-----------------------------------------------------------------------------
(* Execute has returned.                                                   *)

FileExecuted(r) ==
    /\ work[r].pc = "execute"
    /\ exec[r].stage \in Returned /\ exec[r].tx.fcn = "postUploadFile"
    /\ IF exec[r].stage = "ok"
       THEN work' = [work EXCEPT ![r].pc = "certOut"]
       ELSE Reply(r, 501)
    /\ UNCHANGED fabricVars

CertificateExecuted(r) ==
    /\ work[r].pc = "execute"
    /\ exec[r].stage \in Returned /\ exec[r].tx.fcn = "postCertificate"
    /\ LET failed == exec[r].stage = "err"
       IN  AfterCertificateIn(r, failed, IF failed THEN 501 ELSE 200)
    /\ UNCHANGED fabricVars

(* A crash: the connections of the requests being served are cut.          *)
Crash ==
    /\ Restart
    /\ work' = [r \in Requests |->
                    IF work[r].pc = "unsent" THEN work[r]
                    ELSE [work[r] EXCEPT !.pc = "done", !.hand = NoCert]]

-----------------------------------------------------------------------------
HandlerStep(r) ==
    \/ \E p \in Peers : CertificateOut(r, p) \/ QueryFile(r, p)
    \/ CertificateOutNothing(r) \/ QueryFileFails(r)
    \/ FileExecuted(r) \/ CertificateExecuted(r)

ClientStep(r) ==
    \/ HandlerStep(r)
    \/ ExecuteStep(r) /\ UNCHANGED work

AllDone ==
    /\ \A r \in Requests : work[r].pc = "done"
    /\ UNCHANGED vars

Next ==
    \/ \E r \in Requests :
          \/ \E job \in Jobs : \/ ReceiveCertificate(r, job)
                             \/ ReceiveFile(r, job)
                             \/ ReceiveStatuses(r, job)
                             \/ ReceiveNoStatus(r, job)
          \/ Reject(r)
          \/ ClientStep(r)
    \/ (Network \/ Dispatch) /\ UNCHANGED work
    \/ Crash
    \/ AllDone

(* Goroutines run; every wait of theirs ends by its answer or its timer.   *)
Fairness == \A r \in Requests : WF_vars(ClientStep(r))

Spec == Init /\ [][Next]_vars /\ Fairness

-----------------------------------------------------------------------------
(***************************************************************************)
(* Properties.                                                             *)
(***************************************************************************)

(* Whoever reads from any peer finds a file behind every open certificate: *)
(* the check of certificateIO.go:113 happened at another time, perhaps on  *)
(* another peer, and files and certificates are written by different       *)
(* requests in any order.                                                  *)
OpenCertHasFile ==
    \A p \in Peers, c \in Certs :
        LET cert == PeerState(p).cert[c]
        IN  cert # NoCert /\ cert.isOpen => PeerState(p).file[c] # NoFile

(* hasUpload is never true without a file at the same peer, although it is *)
(* computed from one peer and stored later (certificateIO.go:95-111).      *)
HasUploadSound ==
    \A p \in Peers, c \in Certs :
        LET cert == PeerState(p).cert[c]
        IN  cert # NoCert /\ cert.hasUpload => PeerState(p).file[c] # NoFile

(* Why both hold, as an inductive invariant: a certificate on its way to   *)
(* the ledger claims a file only if the file is at the tip already (it was *)
(* at some peer when CertificateIn asked, and files are never removed);    *)
(* hence every block that records a certificate leads to a sound state.    *)
Backed(tx) ==
    tx.fcn = "postCertificate" =>
        /\ tx.value.isOpen => tx.value.hasUpload
        /\ tx.value.hasUpload => TipState.file[tx.certId] # NoFile

SoundState(db) ==
    \A c \in Certs : db.cert[c] # NoCert =>
        /\ db.cert[c].isOpen => db.cert[c].hasUpload
        /\ db.cert[c].hasUpload => db.file[c] # NoFile

FilesStay ==
    \A h \in 0 .. Len(chain), c \in Certs :
        StateAt(h).file[c] # NoFile => TipState.file[c] # NoFile

FilesInv ==
    /\ \A r \in Requests : exec[r].tx \in Tx => Backed(exec[r].tx)
    /\ \A tx \in pool : Backed(tx)
    /\ \A h \in 0 .. Len(chain) : SoundState(StateAt(h))
    /\ FilesStay

(* What the answers tell about the ledger.  200 to a certificate or a file *)
(* means a peer has committed it as sent; 400, 401 and 500 mean that       *)
(* nothing of the request is on the ledger or on its way there             *)
(* (app.go:250-257, 289-296, certificateIO.go:113-124).                    *)
Same(a, b) == [a EXCEPT !.hasUpload = FALSE] = [b EXCEPT !.hasUpload = FALSE]

Ours(r, tx) == tx.id[1] = r

AtSomePeer == UNION {{chain[i].tx : i \in 1 .. height[p]} : p \in Peers}

Everywhere == pool \cup {chain[i].tx : i \in 1 .. Len(chain)}

AnswerTellsLedger ==
    \A r \in Requests :
        /\ work[r].answer = 200 /\ Op(r) = "postCertificate" =>
              \E tx \in AtSomePeer : /\ Ours(r, tx) /\ tx.fcn = "postCertificate"
                                     /\ tx.certId = Item(r).certId
                                     /\ Same(tx.value, Item(r).value)
        /\ work[r].answer = 200 /\ Op(r) = "postUploadFile" =>
              \E tx \in AtSomePeer : /\ Ours(r, tx) /\ tx.fcn = "postUploadFile"
                                     /\ tx.certId = Item(r).certId
                                     /\ tx.value = Item(r).value
        /\ work[r].answer \in {400, 401, 500} =>
              \A tx \in Everywhere : ~ Ours(r, tx)

(* A status that asks to close a certificate is marked as changed only if  *)
(* a peer has committed the change (certificateIO.go:324-334); the request *)
(* may have carried the mark itself.                                       *)
IsChange(r, i, tx) ==
    LET status == work[r].job.items[i]
    IN  /\ Ours(r, tx)
        /\ tx.certId = status.certId
        /\ tx.value.isOpen = status.isOpen
        /\ tx.value.isCompleted = status.isCompleted
        /\ tx.value.isDeleted = status.isDeleted

Marked(r) == {i \in DOMAIN work[r].marks :
                 work[r].marks[i] /\ ~ work[r].job.items[i].isChangedOnChain}

ClosedMarksAreWritten ==
    \A r \in Requests : \A i \in Marked(r) :
        work[r].job.items[i].isOpen \/ (\E tx \in AtSomePeer : IsChange(r, i, tx))

(* The same for every status, what "isChangedOnChain" says                 *)
(* (certificateIO.go:54, swagger.yaml:310): it does not hold.              *)
MarksAreWritten ==
    \A r \in Requests : \A i \in Marked(r) : (\E tx \in AtSomePeer : IsChange(r, i, tx))

(* Status changes and uploads only write what was written before: the body *)
(* of the certificate they store is one that a posted certificate brought  *)
(* under this number, however stale the read it came from                  *)
(* (certificateIO.go:215-223, 314-330).                                    *)
WritesAreDerived ==
    \A i \in 1 .. Len(chain) :
        LET tx == chain[i].tx
        IN  tx.fcn = "postCertificate" /\ Op(tx.id[1]) # "postCertificate" =>
                \E j \in 1 .. i - 1 :
                    /\ chain[j].tx.fcn = "postCertificate"
                    /\ chain[j].tx.certId = tx.certId
                    /\ chain[j].tx.value.body = tx.value.body
                    /\ Op(chain[j].tx.id[1]) = "postCertificate"

(* When every request has been answered with success and every peer has    *)
(* every block, hasUpload says whether a PDF has been uploaded             *)
(* (certificateIO.go:40, swagger.yaml:291): it does not hold.              *)
Settled ==
    /\ \A r \in Requests : work[r].pc = "done" /\ work[r].answer \in {200, 401}
    /\ pool = {}
    /\ \A p \in Peers : height[p] = Len(chain)

HasUploadComplete ==
    Settled => \A c \in Certs :
        TipState.cert[c] # NoCert /\ TipState.file[c] # NoFile => TipState.cert[c].hasUpload

(* The tip of the chain implements the abstract registry: the interleaved  *)
(* requests, replicas and timeouts amount to atomic writes, each at most   *)
(* once, none of which opens a certificate that has no file.               *)
Registry == INSTANCE CertRegistry
    WITH certs <- TipState.cert, files <- TipState.file, written <- Committed

ImplementsRegistry == Registry!RegistrySpec

(* Every request is answered or lost in a crash, whatever the network does.*)
RequestsEnd == \A r \in Requests : work[r].pc # "unsent" ~> work[r].pc = "done"
=============================================================================
