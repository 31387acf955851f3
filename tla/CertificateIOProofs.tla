------------------------ MODULE CertificateIOProofs ------------------------
(***************************************************************************)
(* Theorems about CertificateIO: its type invariant; that no peer ever     *)
(* shows a certificate as open, or as having a file, without its file;     *)
(* that what the client promises holds under these handlers too; and that  *)
(* the tip of the chain implements the registry of CertRegistry.           *)
(***************************************************************************)
EXTENDS CertificateIO, FabricClientProofs

Active == {"certOut", "certIn", "execute"}

(* What is true of a handler, given the transaction of its last call.      *)
HandlerOK(w, tx) ==
    /\ w \in Handler
    /\ w.pc \in Active => w.job \in Job /\ w.idx \in DOMAIN w.job.items
    /\ w.pc = "certIn" => w.hand \in Certificate
    /\ w.pc = "certOut" => w.job.op # "postCertificate"
    /\ w.pc = "execute" /\ tx.fcn = "postUploadFile" => w.job.op = "postUploadFile"

(* TypeOK, strengthened to an inductive invariant.                         *)
TypeInv ==
    /\ FabricTypeOK
    /\ HasTx
    /\ work \in [Requests -> Handler]
    /\ \A r \in Requests : HandlerOK(work[r], exec[r].tx)

(* The invariant is as strong as TypeOK.                                   *)
LEMMA TypeInvImpliesTypeOK ==
    ASSUME TypeInv
    PROVE  TypeOK
<1>1. NoCert \notin Certificate
  BY SentinelsAreFresh
<1> QED BY <1>1 DEF TypeInv, HandlerOK, TypeOK, Active

(* Changing one request's handler to a sound one keeps the invariant.      *)
LEMMA OneHandler ==
    ASSUME TypeInv, FabricTypeOK', HasTx',
           NEW r \in Requests, NEW w,
           work' = [work EXCEPT ![r] = w],
           HandlerOK(w, exec'[r].tx),
           \A s \in Requests \ {r} : exec'[s].tx = exec[s].tx
    PROVE  TypeInv'
<1>1. work' \in [Requests -> Handler]
  BY DEF TypeInv, HandlerOK
<1>2. ASSUME NEW s \in Requests PROVE HandlerOK(work'[s], exec'[s].tx)
  <2>1. CASE s = r
    BY <2>1 DEF TypeInv
  <2>2. CASE s # r
    <3>1. work'[s] = work[s] /\ exec'[s].tx = exec[s].tx
      BY <2>2 DEF TypeInv
    <3> QED BY <3>1 DEF TypeInv
  <2> QED BY <2>1, <2>2
<1>3. \A s \in Requests : HandlerOK(work[s], exec[s].tx)'
  BY <1>2
<1> QED BY <1>1, <1>3 DEF TypeInv

-----------------------------------------------------------------------------
(* The handler at work on a request: its job, its item and the types of    *)
(* what it holds.                                                          *)
LEMMA ItemType ==
    ASSUME TypeInv, NEW r \in Requests, work[r].pc \in Active
    PROVE  /\ Item(r).certId \in Certs
           /\ Op(r) \in {"postCertificate", "postUploadFile", "postChangeStatus"}
           /\ Op(r) = "postChangeStatus" => /\ Item(r) \in Status
                                            /\ work[r].job.items \in Seq(Status)
<1> DEFINE job == work[r].job
           i   == work[r].idx
<1>1. job \in Job /\ i \in DOMAIN job.items
  BY DEF TypeInv, HandlerOK
<1>2. CASE job \in [op : {"postCertificate"}, items : [{1} -> PostItem]]
  <2>1. job.op = "postCertificate" /\ job.items[i] \in PostItem
    BY <1>1, <1>2
  <2> QED BY <2>1 DEF Item, Op, PostItem
<1>3. CASE job \in [op : {"postUploadFile"}, items : [{1} -> FileItem]]
  <2>1. job.op = "postUploadFile" /\ job.items[i] \in FileItem
    BY <1>1, <1>3
  <2> QED BY <2>1 DEF Item, Op, FileItem
<1>4. CASE job \in [op : {"postChangeStatus"}, items : Seq(Status)]
  <2>1. job.op = "postChangeStatus" /\ job.items \in Seq(Status)
    BY <1>4
  <2>2. job.items[i] \in Status
    BY <1>1, <2>1, ElementOfSeq, LenProperties
  <2> QED BY <2>1, <2>2 DEF Item, Op, Status
<1> QED BY <1>1, <1>2, <1>3, <1>4 DEF Job

(* A request that is answered has a sound handler.                         *)
LEMMA AnsweredOK ==
    ASSUME TypeInv, NEW r \in Requests, NEW code \in Codes, NEW tx
    PROVE  HandlerOK(Answered(work[r], code), tx)
<1>1. Answered(work[r], code) \in Handler /\ Answered(work[r], code).pc = "done"
  BY DEF TypeInv, Handler, Answered
<1> QED BY <1>1 DEF HandlerOK, Active

(* An answer (app.go:223-237, 257-270) leaves a sound handler.             *)
LEMMA ReplyType ==
    ASSUME TypeInv, NEW r \in Requests, NEW code \in Codes, Reply(r, code),
           FabricTypeOK', HasTx', exec' = exec
    PROVE  TypeInv'
<1>1. HandlerOK(Answered(work[r], code), exec'[r].tx)
  BY AnsweredOK
<1> QED BY <1>1, OneHandler DEF Reply

(* The next turn of the loop of ChangeStatus (certificateIO.go:310) stays  *)
(* within the statuses.                                                    *)
LEMMA NextTurnOK ==
    ASSUME TypeInv, NEW r \in Requests, NEW marks \in Marks, NEW tx,
           work[r].pc \in Active, Op(r) = "postChangeStatus"
    PROVE  HandlerOK(NextTurn(work[r], marks), tx)
<1>1. work[r] \in Handler /\ work[r].job \in Job /\ work[r].idx \in DOMAIN work[r].job.items
  BY DEF TypeInv, HandlerOK
<1>2. work[r].job.items \in Seq(Status)
  BY ItemType
<1>3. DOMAIN work[r].job.items = 1 .. Len(work[r].job.items) /\ Len(work[r].job.items) \in Nat
  BY <1>2, LenProperties
<1> DEFINE w == NextTurn(work[r], marks)
<1>4. CASE work[r].idx < Len(work[r].job.items)
  <2>1. w \in Handler
    <3>1. work[r].idx + 1 \in Nat
      BY <1>1 DEF Handler
    <3>2. w = [work[r] EXCEPT !.pc = "certOut", !.idx = work[r].idx + 1,
                              !.hand = NoCert, !.marks = marks]
      BY <1>4 DEF NextTurn
    <3> QED BY <1>1, <3>1, <3>2 DEF Handler
  <2>2. w.pc = "certOut" /\ w.job = work[r].job /\ w.idx = work[r].idx + 1
    BY <1>1, <1>4 DEF Handler, NextTurn
  <2>3. w.idx \in DOMAIN w.job.items
    BY <1>1, <1>3, <1>4, <2>2
  <2>4. w.job.op # "postCertificate"
    BY <2>2 DEF Op
  <2> QED BY <1>1, <2>1, <2>2, <2>3, <2>4 DEF HandlerOK
<1>5. CASE ~ (work[r].idx < Len(work[r].job.items))
  <2>1. 200 \in Codes
    BY DEF Codes
  <2>2. w \in Handler /\ w.pc = "done"
    BY <1>1, <1>5, <2>1 DEF Handler, NextTurn
  <2> QED BY <2>2 DEF HandlerOK, Active
<1> QED BY <1>4, <1>5

(* So does the step that takes it, with sound marks.                       *)
LEMMA NextStatusType ==
    ASSUME TypeInv, NEW r \in Requests, NEW marks \in Marks,
           work[r].pc \in Active, Op(r) = "postChangeStatus",
           NextStatus(r, marks), FabricTypeOK', HasTx', exec' = exec
    PROVE  TypeInv'
<1>1. HandlerOK(NextTurn(work[r], marks), exec'[r].tx)
  BY NextTurnOK
<1> QED BY <1>1, OneHandler DEF NextStatus

(* Marking a status keeps the marks a sequence of Booleans.                *)
LEMMA MarksType ==
    ASSUME TypeInv, NEW r \in Requests, NEW failed \in BOOLEAN
    PROVE  [work[r].marks EXCEPT ![work[r].idx] = @ \/ ~ failed] \in Marks
<1> DEFINE old == work[r].marks
           new == [old EXCEPT ![work[r].idx] = @ \/ ~ failed]
<1>1. old \in Seq(BOOLEAN)
  BY DEF TypeInv, Handler, Marks
<1>2. DOMAIN new = 1 .. Len(old) /\ Len(old) \in Nat
  BY <1>1, LenProperties
<1>3. \A i \in 1 .. Len(old) : new[i] \in BOOLEAN
  BY <1>1, <1>2, ElementOfSeq
<1>4. new \in [1 .. Len(old) -> BOOLEAN]
  BY <1>2, <1>3
<1>5. Seq(BOOLEAN) = UNION {[1 .. n -> BOOLEAN] : n \in Nat}
  BY SeqDef
<1> QED BY <1>2, <1>4, <1>5 DEF Marks

(* What each caller does after CertificateIn (certificateIO.go:223-227,    *)
(* 330-334).                                                               *)
LEMMA AfterCertificateInType ==
    ASSUME TypeInv, NEW r \in Requests, NEW failed \in BOOLEAN, NEW code \in Codes,
           work[r].pc \in Active, AfterCertificateIn(r, failed, code),
           UNCHANGED fabricVars
    PROVE  TypeInv'
<1>1. FabricTypeOK' /\ HasTx' /\ exec' = exec
  BY DEF TypeInv, fabricVars, ledgerVars, clientVars, FabricTypeOK, LedgerTypeOK, HasTx
<1>2. ASSUME NEW c \in Codes, Reply(r, c) PROVE TypeInv'
  BY <1>1, <1>2, ReplyType
<1>3. ASSUME Op(r) = "postChangeStatus",
             NextStatus(r, [work[r].marks EXCEPT ![work[r].idx] = @ \/ ~ failed])
      PROVE  TypeInv'
  <2> DEFINE marks == [work[r].marks EXCEPT ![work[r].idx] = @ \/ ~ failed]
  <2>1. marks \in Marks
    BY MarksType
  <2> HIDE DEF marks
  <2>2. NextStatus(r, marks)
    BY <1>3 DEF marks
  <2> QED BY <1>1, <1>3, <2>1, <2>2, NextStatusType
<1> QED BY <1>2, <1>3 DEF AfterCertificateIn, Codes

-----------------------------------------------------------------------------
(* Nothing of the fabric client changes.                                   *)
LEMMA FabricUnchanged ==
    ASSUME TypeInv, UNCHANGED fabricVars
    PROVE  FabricTypeOK' /\ HasTx' /\ exec' = exec
BY DEF TypeInv, fabricVars, ledgerVars, clientVars, FabricTypeOK, LedgerTypeOK, HasTx

(* A call of Execute begins.                                               *)
LEMMA EnterKeepsTypes ==
    ASSUME TypeInv, NEW r \in Requests, NEW c \in Certs, NEW fcn, NEW value,
           \/ fcn = "postCertificate" /\ value \in Certificate
           \/ fcn = "postUploadFile" /\ value \in Files,
           Enter(r, fcn, c, value)
    PROVE  /\ FabricTypeOK' /\ HasTx'
           /\ exec'[r].tx.fcn = fcn
           /\ \A s \in Requests \ {r} : exec'[s] = exec[s]
<1>1. FabricTypeOK'
  BY EnterType DEF TypeInv
<1>2. exec' = [exec EXCEPT ![r] = [stage |-> "register", n |-> exec[r].n + 1,
                 tx |-> [id |-> <<r, exec[r].n>>, fcn |-> fcn, certId |-> c, value |-> value],
                 status |-> FALSE, notified |-> FALSE]]
  BY DEF Enter
<1>3. exec \in [Requests -> Call] /\ exec[r].n \in Nat
  BY DEF TypeInv, FabricTypeOK, Call
<1>4. [id |-> <<r, exec[r].n>>, fcn |-> fcn, certId |-> c, value |-> value] \in Tx
  BY <1>3, NewTxType DEF TxId
<1>5. exec'[r].tx = [id |-> <<r, exec[r].n>>, fcn |-> fcn, certId |-> c, value |-> value]
  BY <1>2, <1>3
<1>6. \A s \in Requests \ {r} : exec'[s] = exec[s]
  BY <1>2, <1>3
<1>7. \A s \in Requests : exec'[s].stage # "idle" => exec'[s].tx \in Tx
  BY <1>4, <1>5, <1>6 DEF TypeInv, HasTx
<1> QED BY <1>1, <1>5, <1>6, <1>7 DEF HasTx

(* Every job is of one of the three kinds.                                 *)
LEMMA JobKinds ==
    ASSUME NEW job \in Jobs
    PROVE  /\ job \in Job
           /\ job.op = "postCertificate" =>
                 DOMAIN job.items = {1} /\ job.items[1] \in PostItem
           /\ job.op = "postUploadFile" =>
                 DOMAIN job.items = {1} /\ job.items[1] \in FileItem
           /\ job.op = "postChangeStatus" => job.items \in Seq(Status)
BY JobsAssumption DEF Job

(* A request not received is a handler.                                    *)
LEMMA UnsentType == Unsent \in Handler
<1>1. <<>> \in Marks
  BY EmptySeq DEF Marks
<1> QED BY <1>1 DEF Unsent, Handler

(* A certificate is posted (app.go:239-251).                               *)
LEMMA ReceiveCertificateType ==
    ASSUME TypeInv, NEW r \in Requests, NEW job \in Jobs, ReceiveCertificate(r, job)
    PROVE  TypeInv'
<1>1. FabricTypeOK' /\ HasTx' /\ exec' = exec
  BY FabricUnchanged DEF ReceiveCertificate
<1>2. job \in Job /\ DOMAIN job.items = {1} /\ job.items[1].value \in Certificate
  BY JobKinds DEF PostItem, ReceiveCertificate
<1> DEFINE w == [Unsent EXCEPT !.pc = "certIn", !.job = job, !.idx = 1,
                    !.hand = job.items[1].value]
<1>3. work' = [work EXCEPT ![r] = w]
  BY DEF ReceiveCertificate
<1>4. HandlerOK(w, exec'[r].tx)
  <2>1. w \in Handler
    BY <1>2, UnsentType DEF Handler, Unsent
  <2>2. w.pc = "certIn" /\ w.job = job /\ w.idx = 1 /\ w.hand = job.items[1].value
    BY DEF Unsent
  <2>3. job.op = "postCertificate"
    BY DEF ReceiveCertificate
  <2> QED BY <1>2, <2>1, <2>2, <2>3 DEF HandlerOK
<1> HIDE DEF w
<1> QED BY <1>1, <1>3, <1>4, OneHandler

(* Statuses are posted (certificateIO.go:301-313).                         *)
LEMMA ReceiveStatusesType ==
    ASSUME TypeInv, NEW r \in Requests, NEW job \in Jobs, ReceiveStatuses(r, job)
    PROVE  TypeInv'
<1>1. FabricTypeOK' /\ HasTx' /\ exec' = exec
  BY FabricUnchanged DEF ReceiveStatuses
<1>2. job \in Job /\ job.items \in Seq(Status) /\ job.items # <<>>
  BY JobKinds DEF ReceiveStatuses
<1> DEFINE marks == [i \in DOMAIN job.items |-> job.items[i].isChangedOnChain]
<1>3. marks \in Marks
  <2>1. DOMAIN job.items = 1 .. Len(job.items) /\ Len(job.items) \in Nat
    BY <1>2, LenProperties
  <2>2. \A i \in 1 .. Len(job.items) : job.items[i].isChangedOnChain \in BOOLEAN
    <3>1. \A i \in 1 .. Len(job.items) : job.items[i] \in Status
      BY <1>2, ElementOfSeq
    <3> QED BY <3>1 DEF Status
  <2>3. marks \in [1 .. Len(job.items) -> BOOLEAN]
    BY <2>1, <2>2
  <2>4. Seq(BOOLEAN) = UNION {[1 .. n -> BOOLEAN] : n \in Nat}
    BY SeqDef
  <2> QED BY <2>1, <2>3, <2>4 DEF Marks
<1> HIDE DEF marks
<1> DEFINE w == [Unsent EXCEPT !.pc = "certOut", !.job = job, !.idx = 1, !.marks = marks]
<1>4. work' = [work EXCEPT ![r] = w]
  BY DEF ReceiveStatuses, marks
<1>5. HandlerOK(w, exec'[r].tx)
  <2>1. w \in Handler
    BY <1>2, <1>3, UnsentType DEF Handler, Unsent
  <2>2. w.job = job /\ w.idx = 1 /\ w.pc = "certOut"
    BY DEF Unsent
  <2>3. 1 \in DOMAIN job.items
    BY <1>2, LenProperties, EmptySeq
  <2>4. job.op = "postChangeStatus"
    BY DEF ReceiveStatuses
  <2> QED BY <1>2, <2>1, <2>2, <2>3, <2>4 DEF HandlerOK, Active
<1> HIDE DEF w
<1> QED BY <1>1, <1>4, <1>5, OneHandler

(* An empty array of statuses is posted (certificateIO.go:310, 337).       *)
LEMMA ReceiveNoStatusType ==
    ASSUME TypeInv, NEW r \in Requests, NEW job \in Jobs, ReceiveNoStatus(r, job)
    PROVE  TypeInv'
<1>1. FabricTypeOK' /\ HasTx' /\ exec' = exec
  BY FabricUnchanged DEF ReceiveNoStatus
<1>2. job \in Job /\ job.op = "postChangeStatus"
  BY JobKinds DEF ReceiveNoStatus
<1> DEFINE w == [Unsent EXCEPT !.pc = "done", !.job = job, !.answer = 200]
<1>3. work' = [work EXCEPT ![r] = w]
  BY DEF ReceiveNoStatus
<1>4. HandlerOK(w, exec'[r].tx)
  <2>1. w \in Handler
    <3>1. 200 \in Codes
      BY DEF Codes
    <3> QED BY <1>2, <3>1, UnsentType DEF Handler, Unsent
  <2>2. w.job = job /\ w.pc = "done"
    BY DEF Unsent
  <2> QED BY <1>2, <2>1, <2>2 DEF HandlerOK, Active
<1> HIDE DEF w
<1> QED BY <1>1, <1>3, <1>4, OneHandler

(* A file is uploaded (certificateIO.go:155-207).                          *)
LEMMA ReceiveFileType ==
    ASSUME TypeInv, NEW r \in Requests, NEW job \in Jobs, ReceiveFile(r, job)
    PROVE  TypeInv'
<1>1. job \in Job /\ DOMAIN job.items = {1} /\ job.items[1] \in FileItem
  BY JobKinds DEF ReceiveFile
<1>2. /\ FabricTypeOK' /\ HasTx'
      /\ \A s \in Requests \ {r} : exec'[s] = exec[s]
  BY <1>1, EnterKeepsTypes DEF ReceiveFile, FileItem
<1> DEFINE w == [Unsent EXCEPT !.pc = "execute", !.job = job, !.idx = 1]
<1>3. work' = [work EXCEPT ![r] = w]
  BY DEF ReceiveFile
<1>4. HandlerOK(w, exec'[r].tx)
  <2>1. w \in Handler
    BY <1>1, EmptySeq DEF Handler, Unsent, Marks
  <2> QED BY <1>1, <2>1 DEF HandlerOK, Unsent, ReceiveFile
<1> HIDE DEF w
<1> QED BY <1>2, <1>3, <1>4, OneHandler

(* A request is refused before anything is done (app.go:247, 262).         *)
LEMMA RejectType ==
    ASSUME TypeInv, NEW r \in Requests, Reject(r)
    PROVE  TypeInv'
<1>1. PICK code \in {400, 401, 500, 501} : Reply(r, code)
  BY DEF Reject
<1>2. code \in Codes
  BY DEF Codes
<1> QED BY <1>1, <1>2, ReplyType, FabricUnchanged DEF Reject

-----------------------------------------------------------------------------
(* What the queries return.                                                *)
LEMMA CertificateOutType ==
    ASSUME TypeInv, NEW r \in Requests, NEW p \in Peers, CertificateOut(r, p)
    PROVE  TypeInv'
<1> DEFINE cert == PeerState(p).cert[Item(r).certId]
           hand == Amend(r, cert)
<1>1. work[r].pc = "certOut" /\ cert # NoCert
  BY DEF CertificateOut
<1>2. Item(r).certId \in Certs
  BY <1>1, ItemType DEF Active
<1>3. cert \in Certificate
  BY <1>1, <1>2, PeerStateType DEF TypeInv, FabricTypeOK, Database
<1>4. Op(r) = "postUploadFile" \/ (Op(r) = "postChangeStatus" /\ Item(r) \in Status)
  <2>1. /\ Op(r) \in {"postCertificate", "postUploadFile", "postChangeStatus"}
        /\ Op(r) = "postChangeStatus" => Item(r) \in Status
    BY <1>1, ItemType DEF Active
  <2>2. Op(r) # "postCertificate"
    BY <1>1 DEF TypeInv, HandlerOK, Op
  <2> QED BY <2>1, <2>2
<1> HIDE DEF cert
<1>5. hand \in Certificate
  BY <1>3, <1>4 DEF Amend, Certificate, Status
<1>6. work' = [work EXCEPT ![r] = [work[r] EXCEPT !.pc = "certIn", !.hand = hand]]
  BY DEF CertificateOut, cert, TypeInv
<1> HIDE DEF hand
<1>7. HandlerOK([work[r] EXCEPT !.pc = "certIn", !.hand = hand], exec'[r].tx)
  <2>1. work[r] \in Handler /\ work[r].job \in Job /\ work[r].idx \in DOMAIN work[r].job.items
    BY <1>1 DEF TypeInv, HandlerOK, Active
  <2>2. [work[r] EXCEPT !.pc = "certIn", !.hand = hand] \in Handler
    BY <1>5, <2>1 DEF Handler
  <2> QED BY <1>5, <2>1, <2>2 DEF HandlerOK, Handler
<1>8. FabricTypeOK' /\ HasTx' /\ exec' = exec
  BY FabricUnchanged DEF CertificateOut
<1> QED BY <1>6, <1>7, <1>8, OneHandler

(* CertificateOut yields nothing (certificateIO.go:137-143).               *)
LEMMA CertificateOutNothingType ==
    ASSUME TypeInv, NEW r \in Requests, CertificateOutNothing(r)
    PROVE  TypeInv'
<1>1. FabricTypeOK' /\ HasTx' /\ exec' = exec /\ work[r].pc \in Active
  BY FabricUnchanged DEF CertificateOutNothing, Active
<1>2. 200 \in Codes /\ work[r].marks \in Marks
  BY DEF Codes, TypeInv, Handler
<1> QED BY <1>1, <1>2, ReplyType, NextStatusType DEF CertificateOutNothing

(* CertificateIn calls Execute (certificateIO.go:117-121).                 *)
LEMMA CertificateInType ==
    ASSUME TypeInv, NEW r \in Requests, NEW uploaded \in BOOLEAN,
           work[r].pc = "certIn", CertificateIn(r, uploaded)
    PROVE  TypeInv'
<1>1. work[r] \in Handler /\ work[r].job \in Job /\ work[r].idx \in DOMAIN work[r].job.items
      /\ work[r].hand \in Certificate
  BY DEF TypeInv, HandlerOK, Active
<1>2. [work[r].hand EXCEPT !.hasUpload = uploaded] \in Certificate
  BY <1>1 DEF Certificate
<1>3. Item(r).certId \in Certs
  BY ItemType DEF Active
<1>4. /\ FabricTypeOK' /\ HasTx'
      /\ exec'[r].tx.fcn = "postCertificate"
      /\ \A s \in Requests \ {r} : exec'[s] = exec[s]
  BY <1>2, <1>3, EnterKeepsTypes DEF CertificateIn
<1> DEFINE w == [work[r] EXCEPT !.pc = "execute", !.hand = NoCert]
<1>5. work' = [work EXCEPT ![r] = w]
  BY DEF CertificateIn, TypeInv
<1>6. w \in Handler /\ w.pc = "execute" /\ w.job = work[r].job /\ w.idx = work[r].idx
  BY <1>1 DEF Handler
<1> HIDE DEF w
<1>7. HandlerOK(w, exec'[r].tx)
  BY <1>1, <1>4, <1>6 DEF HandlerOK
<1> QED BY <1>4, <1>5, <1>7, OneHandler

(* CertificateIn refuses (certificateIO.go:113-115).                       *)
LEMMA CertificateInRefusedType ==
    ASSUME TypeInv, NEW r \in Requests, NEW uploaded, NEW failed \in BOOLEAN,
           work[r].pc = "certIn", CertificateInRefused(r, uploaded, failed)
    PROVE  TypeInv'
<1>1. work[r].pc \in Active /\ 400 \in Codes
  BY DEF Active, Codes
<1> QED BY <1>1, AfterCertificateInType DEF CertificateInRefused

(* CertificateIn learns from a peer whether there is a file                *)
(* (certificateIO.go:95-111).                                              *)
LEMMA QueryFileType ==
    ASSUME TypeInv, NEW r \in Requests, NEW p \in Peers, QueryFile(r, p)
    PROVE  TypeInv'
<1>1. HasFile(r, p) \in BOOLEAN /\ FALSE \in BOOLEAN
  BY DEF HasFile
<1>2. work[r].pc = "certIn"
  BY DEF QueryFile
<1> QED BY <1>1, <1>2, CertificateInType, CertificateInRefusedType DEF QueryFile

(* CertificateIn fails to learn it (certificateIO.go:98).                  *)
LEMMA QueryFileFailsType ==
    ASSUME TypeInv, NEW r \in Requests, QueryFileFails(r)
    PROVE  TypeInv'
BY CertificateInType, CertificateInRefusedType DEF QueryFileFails

-----------------------------------------------------------------------------
(* What Execute returns.                                                   *)
LEMMA FileExecutedType ==
    ASSUME TypeInv, NEW r \in Requests, FileExecuted(r)
    PROVE  TypeInv'
<1>1. FabricTypeOK' /\ HasTx' /\ exec' = exec
  BY FabricUnchanged DEF FileExecuted
<1>2. CASE Reply(r, 501)
  <2>1. 501 \in Codes
    BY DEF Codes
  <2> QED BY <1>1, <1>2, <2>1, ReplyType
<1>3. CASE work' = [work EXCEPT ![r].pc = "certOut"]
  <2> DEFINE w == [work[r] EXCEPT !.pc = "certOut"]
  <2>1. work' = [work EXCEPT ![r] = w]
    BY <1>3 DEF TypeInv
  <2>2. work[r] \in Handler /\ work[r].job \in Job /\ work[r].idx \in DOMAIN work[r].job.items
        /\ work[r].job.op = "postUploadFile"
    BY DEF FileExecuted, TypeInv, HandlerOK, Active
  <2>3. HandlerOK(w, exec'[r].tx)
    BY <2>2 DEF HandlerOK, Handler
  <2> HIDE DEF w
  <2> QED BY <1>1, <2>1, <2>3, OneHandler
<1> QED BY <1>2, <1>3 DEF FileExecuted

(* Execute has returned to CertificateIn (certificateIO.go:121-126).       *)
LEMMA CertificateExecutedType ==
    ASSUME TypeInv, NEW r \in Requests, CertificateExecuted(r)
    PROVE  TypeInv'
<1> DEFINE failed == exec[r].stage = "err"
           code   == IF failed THEN 501 ELSE 200
<1>1. AfterCertificateIn(r, failed, code) /\ work[r].pc \in Active
  BY DEF CertificateExecuted, Active
<1>2. failed \in BOOLEAN /\ code \in Codes
  BY DEF Codes
<1> HIDE DEF failed, code
<1> QED BY <1>1, <1>2, AfterCertificateInType DEF CertificateExecuted

(* Steps of Execute, the network and the dispatcher leave the handlers and *)
(* the transactions of the calls alone.                                    *)
LEMMA WorkUnchangedType ==
    ASSUME TypeInv, FabricTypeOK', HasTx', UNCHANGED work,
           \A s \in Requests : exec'[s].tx = exec[s].tx
    PROVE  TypeInv'
BY DEF TypeInv, HandlerOK

(* The process ends and starts again.                                      *)
LEMMA CrashType ==
    ASSUME TypeInv, Crash
    PROVE  TypeInv'
<1>1. FabricTypeOK' /\ HasTx'
  BY RestartType DEF Crash, TypeInv
<1>2. ASSUME NEW r \in Requests PROVE HandlerOK(work'[r], exec'[r].tx)
  <2>1. CASE work[r].pc = "unsent"
    BY <2>1 DEF Crash, TypeInv, HandlerOK, Active
  <2>2. CASE work[r].pc # "unsent"
    <3>1. work'[r] = [work[r] EXCEPT !.pc = "done", !.hand = NoCert]
      BY <2>2 DEF Crash
    <3>2. work'[r] \in Handler /\ work'[r].pc = "done"
      BY <3>1 DEF TypeInv, Handler
    <3> QED BY <3>2 DEF HandlerOK, Active
  <2> QED BY <2>1, <2>2
<1>3. work' \in [Requests -> Handler]
  BY <1>2 DEF Crash, HandlerOK
<1>4. \A r \in Requests : HandlerOK(work[r], exec[r].tx)'
  BY <1>2
<1> QED BY <1>1, <1>3, <1>4 DEF TypeInv

(* The service starts sound.                                               *)
LEMMA InitType ==
    ASSUME Init
    PROVE  TypeInv
<1>1. FabricTypeOK /\ HasTx
  BY FabricInitType DEF Init
<1>2. Unsent \in Handler
  BY EmptySeq DEF Unsent, Handler, Marks
<1>3. \A r \in Requests : work[r] = Unsent
  BY DEF Init
<1> QED BY <1>1, <1>2, <1>3 DEF Init, TypeInv, HandlerOK, Unsent, Active

(* Every step keeps the invariant.                                         *)
LEMMA NextType ==
    ASSUME TypeInv, [Next]_vars
    PROVE  TypeInv'
<1>1. ASSUME NEW r \in Requests, NEW job \in Jobs,
             \/ ReceiveCertificate(r, job) \/ ReceiveFile(r, job)
             \/ ReceiveStatuses(r, job) \/ ReceiveNoStatus(r, job)
      PROVE  TypeInv'
  BY <1>1, ReceiveCertificateType, ReceiveFileType, ReceiveStatusesType, ReceiveNoStatusType
<1>2. ASSUME NEW r \in Requests, Reject(r) PROVE TypeInv'
  BY <1>2, RejectType
<1>3. ASSUME NEW r \in Requests, HandlerStep(r) PROVE TypeInv'
  BY <1>3, CertificateOutType, QueryFileType, CertificateOutNothingType, QueryFileFailsType,
     FileExecutedType, CertificateExecutedType DEF HandlerStep
<1>4. ASSUME NEW r \in Requests, ExecuteStep(r), UNCHANGED work PROVE TypeInv'
  <2>1. FabricTypeOK' /\ HasTx'
    BY <1>4, ExecuteStepType DEF TypeInv
  <2>2. PICK stage \in Waiting \cup Returned : exec' = [exec EXCEPT ![r].stage = stage]
    BY <1>4, ExecuteStepEffect DEF TypeInv
  <2>3. \A s \in Requests : exec'[s].tx = exec[s].tx
    BY <2>2 DEF TypeInv, FabricTypeOK, Call
  <2> QED BY <1>4, <2>1, <2>3, WorkUnchangedType
<1>5. CASE Network /\ UNCHANGED work
  <2>1. FabricTypeOK' /\ HasTx' /\ exec' = exec
    BY <1>5, NetworkType DEF TypeInv, Network, clientVars
  <2> QED BY <1>5, <2>1, WorkUnchangedType
<1>6. CASE Dispatch /\ UNCHANGED work
  <2>1. FabricTypeOK' /\ HasTx'
    BY <1>6, DispatchType DEF TypeInv
  <2>2. \A s \in Requests : exec'[s].tx = exec[s].tx
    BY <1>6 DEF Dispatch, Notify, TypeInv, FabricTypeOK, Call
  <2> QED BY <1>6, <2>1, <2>2, WorkUnchangedType
<1>7. CASE Crash
  BY <1>7, CrashType
<1>8. CASE UNCHANGED vars
  BY <1>8, FabricUnchanged, WorkUnchangedType DEF vars
<1> QED BY <1>1, <1>2, <1>3, <1>4, <1>5, <1>6, <1>7, <1>8 DEF Next, ClientStep, AllDone

(* The handlers and the client keep their types in every reachable state:  *)
(* in particular CertificateIn is only called with a certificate, and the  *)
(* loop of ChangeStatus stays within its statuses.                         *)
THEOREM TypeCorrect == Spec => []TypeOK
<1>1. Init => TypeInv
  BY InitType
<1>2. TypeInv /\ [Next]_vars => TypeInv'
  BY NextType
<1>3. TypeInv => TypeOK
  BY TypeInvImpliesTypeOK
<1> QED BY <1>1, <1>2, <1>3, PTL DEF Spec
-----------------------------------------------------------------------------
(* Files behind certificates: FilesInv, with the types it relies on.       *)
Inv == TypeInv /\ FilesInv

(* The tip is the state after the last block; a peer's is one before it.   *)
LEMMA Tip ==
    ASSUME LedgerTypeOK
    PROVE  /\ Len(chain) \in Nat
           /\ TipState = StateAt(Len(chain))
           /\ TipState \in Database
           /\ \A p \in Peers : height[p] \in 0 .. Len(chain) /\ PeerState(p) = StateAt(height[p])
<1>1. Len(chain) \in Nat
  BY LenProperties DEF LedgerTypeOK
<1> QED BY <1>1, TipStateType DEF TipState, PeerState, LedgerTypeOK

(* A file that a peer has is at the tip.                                   *)
LEMMA PeerFileAtTip ==
    ASSUME LedgerTypeOK, FilesStay, NEW p \in Peers, NEW c \in Certs,
           PeerState(p).file[c] # NoFile
    PROVE  TipState.file[c] # NoFile
BY Tip DEF FilesStay

(* A transaction that claims no more than the tip holds leads from a sound *)
(* state to a sound state, and removes no file.                            *)
LEMMA PutStateSound ==
    ASSUME NEW db \in Database, NEW tx \in Tx, SoundState(db),
           tx.fcn = "postCertificate" =>
               /\ tx.value.isOpen => tx.value.hasUpload
               /\ tx.value.hasUpload => db.file[tx.certId] # NoFile
    PROVE  /\ SoundState(PutState(db, tx))
           /\ \A c \in Certs : db.file[c] # NoFile => PutState(db, tx).file[c] # NoFile
<1>1. CASE tx \in CertTx
  <2>1. tx.fcn = "postCertificate" /\ tx.certId \in Certs
    BY <1>1 DEF CertTx
  <2>2. PutState(db, tx) = [db EXCEPT !.cert[tx.certId] = tx.value]
    BY <2>1 DEF PutState
  <2>3. PutState(db, tx).file = db.file
    BY <2>2 DEF Database
  <2>4. \A c \in Certs : PutState(db, tx).cert[c] = IF c = tx.certId THEN tx.value ELSE db.cert[c]
    BY <2>1, <2>2 DEF Database
  <2> QED BY <2>1, <2>3, <2>4 DEF SoundState
<1>2. CASE tx \in FileTx
  <2>1. tx.fcn = "postUploadFile" /\ tx.certId \in Certs /\ tx.value # NoFile
    BY <1>2, SentinelsAreFresh DEF FileTx
  <2>2. PutState(db, tx) = [db EXCEPT !.file[tx.certId] = tx.value]
    BY <2>1 DEF PutState
  <2>3. PutState(db, tx).cert = db.cert
    BY <2>2 DEF Database
  <2>4. \A c \in Certs : PutState(db, tx).file[c] = IF c = tx.certId THEN tx.value ELSE db.file[c]
    BY <2>1, <2>2 DEF Database
  <2> QED BY <2>1, <2>3, <2>4 DEF SoundState
<1> QED BY <1>1, <1>2 DEF Tx

(* What ordering a transaction does to the states of the chain.            *)
LEMMA OrderStates ==
    ASSUME LedgerTypeOK, NEW tx \in Tx,
           chain' = Append(chain, [tx |-> tx, db |-> PutState(TipState, tx)])
    PROVE  /\ Len(chain') = Len(chain) + 1
           /\ \A h \in 0 .. Len(chain) : StateAt(h)' = StateAt(h)
           /\ \A h : h = Len(chain) + 1 => StateAt(h)' = PutState(TipState, tx)
           /\ TipState' = PutState(TipState, tx)
<1> DEFINE block == [tx |-> tx, db |-> PutState(TipState, tx)]
<1>1. block \in [tx : Tx, db : Database]
  BY TipStateType, PutStateType
<1>2. Len(chain) \in Nat /\ chain \in Seq([tx : Tx, db : Database])
  BY Tip DEF LedgerTypeOK
<1>3. /\ Len(chain') = Len(chain) + 1
      /\ \A i \in 1 .. Len(chain) : chain'[i] = chain[i]
      /\ chain'[Len(chain) + 1] = block
  BY <1>1, <1>2, AppendProperties
<1>4. ASSUME NEW h \in 0 .. Len(chain) PROVE StateAt(h)' = StateAt(h)
  BY <1>2, <1>3 DEF StateAt, GenesisState
<1>5. ASSUME NEW h, h = Len(chain) + 1 PROVE StateAt(h)' = PutState(TipState, tx)
  BY <1>2, <1>3, <1>5 DEF StateAt
<1>6. TipState' = PutState(TipState, tx)
  BY <1>2, <1>3 DEF TipState, StateAt
<1> QED BY <1>3, <1>4, <1>5, <1>6

-----------------------------------------------------------------------------
(* A claim about the tip survives any step that removes no file from it.   *)
LEMMA BackedStays ==
    ASSUME NEW tx, tx \in Tx, Backed(tx),
           \A c \in Certs : TipState.file[c] # NoFile => TipState'.file[c] # NoFile
    PROVE  Backed(tx)'
<1>1. tx.certId \in Certs
  BY DEF Tx, CertTx, FileTx
<1> QED BY <1>1 DEF Backed

(* A block of a pending transaction leads to a sound state, and files      *)
(* stay.                                                                   *)
LEMMA OrderFiles ==
    ASSUME Inv, Order, exec' = exec
    PROVE  FilesInv'
<1>1. LedgerTypeOK
  BY DEF Inv, TypeInv, FabricTypeOK
<1>2. PICK tx \in pool :
         /\ pool' = pool \ {tx}
         /\ chain' = Append(chain, [tx |-> tx, db |-> PutState(TipState, tx)])
  BY DEF Order
<1>3. tx \in Tx /\ Backed(tx)
  BY <1>1, <1>2 DEF Inv, FilesInv, LedgerTypeOK
<1>4. TipState \in Database /\ SoundState(TipState)
  BY <1>1, Tip DEF Inv, FilesInv
<1>5. /\ SoundState(PutState(TipState, tx))
      /\ \A c \in Certs : TipState.file[c] # NoFile => PutState(TipState, tx).file[c] # NoFile
  BY <1>3, <1>4, PutStateSound DEF Backed
<1>6. /\ Len(chain') = Len(chain) + 1
      /\ \A h \in 0 .. Len(chain) : StateAt(h)' = StateAt(h)
      /\ \A h : h = Len(chain) + 1 => StateAt(h)' = PutState(TipState, tx)
      /\ TipState' = PutState(TipState, tx)
  BY <1>1, <1>2, <1>3, OrderStates
<1>7. \A c \in Certs : TipState.file[c] # NoFile => TipState'.file[c] # NoFile
  BY <1>5, <1>6
<1>8. Len(chain) \in Nat
  BY <1>1, Tip
<1>9. ASSUME NEW h \in 0 .. Len(chain')
      PROVE  /\ SoundState(StateAt(h)')
             /\ \A c \in Certs : StateAt(h)'.file[c] # NoFile => TipState'.file[c] # NoFile
  <2>1. CASE h \in 0 .. Len(chain)
    BY <1>6, <1>7, <2>1 DEF Inv, FilesInv, FilesStay
  <2>2. CASE h = Len(chain) + 1
    BY <1>5, <1>6, <2>2
  <2> QED BY <1>6, <1>8, <2>1, <2>2
<1>10. \A t \in pool' : Backed(t)'
  BY <1>1, <1>2, <1>7, BackedStays DEF Inv, FilesInv, LedgerTypeOK
<1>11. \A r \in Requests : exec[r].tx \in Tx => Backed(exec[r].tx)'
  <2>1. ASSUME NEW t \in Tx, Backed(t) PROVE Backed(t)'
    BY <1>7, <2>1, BackedStays
  <2> QED BY <2>1 DEF Inv, FilesInv
<1> QED BY <1>9, <1>10, <1>11 DEF FilesInv, FilesStay, SoundState

(* Steps that leave the chain alone: what is in the pool and in the calls  *)
(* must be backed, the rest follows.                                       *)
LEMMA ChainUnchangedFiles ==
    ASSUME Inv, chain' = chain,
           \A r \in Requests : exec'[r].tx \in Tx => Backed(exec'[r].tx),
           \A tx \in pool' : Backed(tx)
    PROVE  FilesInv'
BY DEF Inv, FilesInv, FilesStay, Backed, StateAt, TipState, SoundState

-----------------------------------------------------------------------------
(* Where a claim comes from: CertificateIn sets hasUpload from the answer  *)
(* of some peer, and refuses to open a certificate without it.             *)
LEMMA EnterFiles ==
    ASSUME Inv, NEW r \in Requests, NEW c \in Certs, NEW fcn, NEW value,
           Enter(r, fcn, c, value),
           fcn = "postCertificate" =>
               /\ value.isOpen => value.hasUpload
               /\ value.hasUpload => TipState.file[c] # NoFile
    PROVE  FilesInv'
<1> DEFINE tx == [id |-> <<r, exec[r].n>>, fcn |-> fcn, certId |-> c, value |-> value]
<1>1. /\ chain' = chain /\ pool' = pool
      /\ exec' = [exec EXCEPT ![r] = [stage |-> "register", n |-> exec[r].n + 1, tx |-> tx,
                                      status |-> FALSE, notified |-> FALSE]]
  BY DEF Enter, ledgerVars
<1>2. exec \in [Requests -> Call]
  BY DEF Inv, TypeInv, FabricTypeOK
<1>3. exec'[r].tx = tx /\ \A s \in Requests \ {r} : exec'[s] = exec[s]
  BY <1>1, <1>2
<1>4. Backed(tx)
  BY DEF Backed
<1>5. \A s \in Requests : exec'[s].tx \in Tx => Backed(exec'[s].tx)
  BY <1>3, <1>4 DEF Inv, FilesInv
<1> QED BY <1>1, <1>5, ChainUnchangedFiles DEF Inv, FilesInv

(* CertificateIn (certificateIO.go:95-121) submits only what a file at the *)
(* tip backs.                                                              *)
LEMMA CertificateInFiles ==
    ASSUME Inv, NEW r \in Requests, NEW uploaded \in BOOLEAN,
           work[r].pc = "certIn", CertificateIn(r, uploaded),
           uploaded => TipState.file[Item(r).certId] # NoFile
    PROVE  FilesInv'
<1> DEFINE cert == [work[r].hand EXCEPT !.hasUpload = uploaded]
<1>1. work[r].hand \in Certificate
  BY DEF Inv, TypeInv, HandlerOK
<1>2. cert.hasUpload = uploaded /\ cert.isOpen = work[r].hand.isOpen
  BY <1>1 DEF Certificate
<1>3. cert.isOpen => cert.hasUpload
  BY <1>2 DEF CertificateIn
<1>4. Item(r).certId \in Certs
  BY ItemType DEF Inv, Active
<1>5. Enter(r, "postCertificate", Item(r).certId, cert)
  BY DEF CertificateIn
<1> HIDE DEF cert
<1> QED BY <1>2, <1>3, <1>4, <1>5, EnterFiles

(* Execute hands on what it was called with, and nothing else.             *)
LEMMA ExecuteStepFiles ==
    ASSUME Inv, NEW r \in Requests, ExecuteStep(r)
    PROVE  FilesInv'
<1>1. FabricTypeOK /\ HasTx
  BY DEF Inv, TypeInv
<1>2. /\ exec[r].stage \in {"register"} \cup Waiting
      /\ pool' = pool \/ pool' = pool \cup {exec[r].tx}
      /\ chain' = chain
  BY <1>1, ExecuteStepEffect
<1>3. exec[r].tx \in Tx
  BY <1>1, <1>2 DEF HasTx, Waiting
<1>4. \A s \in Requests : exec'[s].tx = exec[s].tx
  <2>1. PICK stage \in Waiting \cup Returned : exec' = [exec EXCEPT ![r].stage = stage]
    BY <1>1, ExecuteStepEffect
  <2> QED BY <1>1, <2>1 DEF FabricTypeOK, Call
<1>5. \A tx \in pool' : Backed(tx)
  BY <1>2, <1>3 DEF Inv, FilesInv
<1> QED BY <1>2, <1>4, <1>5, ChainUnchangedFiles DEF Inv, FilesInv

(* A restart forgets calls and keeps the ledger.                           *)
LEMMA RestartFiles ==
    ASSUME Inv, Restart
    PROVE  FilesInv'
<1>1. chain' = chain /\ pool' = pool
  BY DEF Restart, ledgerVars
<1>2. \A r \in Requests : exec'[r].tx = NoTx
  BY DEF Restart, Inv, TypeInv, FabricTypeOK, Call
<1> QED BY <1>1, <1>2, ClientAssumption, ChainUnchangedFiles DEF Inv, FilesInv

(* The publication of a block changes no transaction.                      *)
LEMMA DispatchFiles ==
    ASSUME Inv, Dispatch
    PROVE  FilesInv'
<1>1. chain' = chain /\ pool' = pool
  BY DEF Dispatch, ledgerVars
<1>2. \A r \in Requests : exec'[r].tx = exec[r].tx
  BY DEF Dispatch, Notify, Inv, TypeInv, FabricTypeOK, Call
<1> QED BY <1>1, <1>2, ChainUnchangedFiles DEF Inv, FilesInv

(* Steps that touch neither the calls nor the ledger.                      *)
LEMMA FabricUnchangedFiles ==
    ASSUME Inv, UNCHANGED <<chain, pool, exec>>
    PROVE  FilesInv'
BY ChainUnchangedFiles DEF Inv, FilesInv

-----------------------------------------------------------------------------
(* The empty ledger is sound.                                              *)
LEMMA InitFiles ==
    ASSUME Init
    PROVE  FilesInv
<1>1. chain = <<>> /\ Len(chain) = 0 /\ pool = {}
  BY EmptySeq DEF Init, FabricInit, LedgerInit
<1>2. \A r \in Requests : exec[r].tx \notin Tx
  BY ClientAssumption DEF Init, FabricInit, Idle
<1>3. \A h \in 0 .. Len(chain) : StateAt(h) = GenesisState /\ SoundState(GenesisState)
  BY <1>1 DEF StateAt, SoundState, GenesisState
<1>4. FilesStay
  BY <1>1, <1>3 DEF FilesStay, TipState
<1> QED BY <1>1, <1>2, <1>3, <1>4 DEF FilesInv

(* Every step keeps FilesInv.                                              *)
LEMMA NextFiles ==
    ASSUME Inv, [Next]_vars
    PROVE  FilesInv'
<1>1. ASSUME NEW r \in Requests, NEW job \in Jobs,
             ReceiveCertificate(r, job) \/ ReceiveStatuses(r, job) \/ ReceiveNoStatus(r, job)
      PROVE  FilesInv'
  BY <1>1, FabricUnchangedFiles
     DEF ReceiveCertificate, ReceiveStatuses, ReceiveNoStatus, fabricVars, ledgerVars, clientVars
<1>2. ASSUME NEW r \in Requests, NEW job \in Jobs, ReceiveFile(r, job) PROVE FilesInv'
  <2>1. job.items[1] \in FileItem
    BY <1>2, JobKinds DEF ReceiveFile
  <2>2. job.items[1].certId \in Certs
    BY <2>1 DEF FileItem
  <2> QED BY <1>2, <2>2, EnterFiles DEF ReceiveFile
<1>3. ASSUME NEW r \in Requests, Reject(r) PROVE FilesInv'
  BY <1>3, FabricUnchangedFiles DEF Reject, fabricVars, ledgerVars, clientVars
<1>4. ASSUME NEW r \in Requests, HandlerStep(r) PROVE FilesInv'
  <2>1. ASSUME NEW p \in Peers, CertificateOut(r, p) PROVE FilesInv'
    BY <2>1, FabricUnchangedFiles DEF CertificateOut, fabricVars, ledgerVars, clientVars
  <2>2. ASSUME NEW p \in Peers, QueryFile(r, p) PROVE FilesInv'
    <3>1. work[r].pc = "certIn" /\ HasFile(r, p) \in BOOLEAN
      BY <2>2 DEF QueryFile, HasFile
    <3>2. Item(r).certId \in Certs
      BY <3>1, ItemType DEF Inv, Active
    <3>3. HasFile(r, p) => TipState.file[Item(r).certId] # NoFile
      BY <3>2, PeerFileAtTip DEF HasFile, Inv, FilesInv, TypeInv, FabricTypeOK
    <3>4. CASE CertificateIn(r, HasFile(r, p))
      BY <3>1, <3>3, <3>4, CertificateInFiles
    <3>5. CASE CertificateInRefused(r, HasFile(r, p), FALSE)
      BY <3>5, FabricUnchangedFiles DEF CertificateInRefused, fabricVars, ledgerVars, clientVars
    <3> QED BY <2>2, <3>4, <3>5 DEF QueryFile
  <2>3. CASE CertificateOutNothing(r)
    BY <2>3, FabricUnchangedFiles DEF CertificateOutNothing, fabricVars, ledgerVars, clientVars
  <2>4. CASE QueryFileFails(r)
    <3>1. CASE CertificateIn(r, FALSE)
      BY <2>4, <3>1, CertificateInFiles DEF QueryFileFails
    <3>2. CASE CertificateInRefused(r, FALSE, TRUE)
      BY <3>2, FabricUnchangedFiles DEF CertificateInRefused, fabricVars, ledgerVars, clientVars
    <3> QED BY <2>4, <3>1, <3>2 DEF QueryFileFails
  <2>5. CASE FileExecuted(r) \/ CertificateExecuted(r)
    BY <2>5, FabricUnchangedFiles
       DEF FileExecuted, CertificateExecuted, fabricVars, ledgerVars, clientVars
  <2> QED BY <1>4, <2>1, <2>2, <2>3, <2>4, <2>5 DEF HandlerStep
<1>5. ASSUME NEW r \in Requests, ExecuteStep(r) PROVE FilesInv'
  BY <1>5, ExecuteStepFiles
<1>6. CASE Network
  <2>1. CASE Order
    BY <1>6, <2>1, OrderFiles DEF Network, clientVars
  <2>2. CASE \E p \in Peers : PeerCommit(p)
    BY <1>6, <2>2, FabricUnchangedFiles DEF Network, clientVars, PeerCommit
  <2> QED BY <1>6, <2>1, <2>2 DEF Network
<1>7. CASE Dispatch
  BY <1>7, DispatchFiles
<1>8. CASE Crash
  BY <1>8, RestartFiles DEF Crash
<1>9. CASE UNCHANGED vars
  BY <1>9, FabricUnchangedFiles DEF vars, fabricVars, ledgerVars, clientVars
<1> QED BY <1>1, <1>2, <1>3, <1>4, <1>5, <1>6, <1>7, <1>8, <1>9 DEF Next, ClientStep, AllDone

(* FilesInv holds throughout, together with the types it relies on.        *)
LEMMA InvIsInvariant == Spec => []Inv
<1>1. Init => Inv
  BY InitType, InitFiles DEF Inv
<1>2. Inv /\ [Next]_vars => Inv'
  BY NextType, NextFiles DEF Inv
<1> QED BY <1>1, <1>2, PTL DEF Spec

(* Behind every certificate a peer shows as open there is a file at that   *)
(* peer, and hasUpload never claims one that is not there, for any number  *)
(* of certificates, peers and concurrent requests (certificateIO.go:95-113,*)
(* 215-223, 314-330), whatever times out or is lost on the way.            *)
THEOREM OpenCertHasFileHolds == Spec => []OpenCertHasFile
<1>1. Inv => OpenCertHasFile
  BY Tip DEF Inv, TypeInv, FabricTypeOK, FilesInv, SoundState, OpenCertHasFile
<1> QED BY <1>1, InvIsInvariant, PTL

(* The same for hasUpload alone, open or not.                              *)
THEOREM HasUploadSoundHolds == Spec => []HasUploadSound
<1>1. Inv => HasUploadSound
  BY Tip DEF Inv, TypeInv, FabricTypeOK, FilesInv, SoundState, HasUploadSound
<1> QED BY <1>1, InvIsInvariant, PTL

-----------------------------------------------------------------------------
(***************************************************************************)
(* The client under these handlers: ClientInv is an invariant of Spec too. *)
(***************************************************************************)

(* What CertificateIn gives to Execute is a certificate and its number.    *)
LEMMA CertificateInArgument ==
    ASSUME TypeInv, NEW r \in Requests, NEW uploaded \in BOOLEAN, work[r].pc = "certIn"
    PROVE  /\ Item(r).certId \in Certs
           /\ [work[r].hand EXCEPT !.hasUpload = uploaded] \in Certificate
<1>1. work[r].hand \in Certificate
  BY DEF TypeInv, HandlerOK
<1> QED BY <1>1, ItemType DEF Active, Certificate

(* A handler's step begins one call of Execute, or none.                   *)
LEMMA HandlerStepFabric ==
    ASSUME TypeInv, NEW r \in Requests, HandlerStep(r)
    PROVE  \/ UNCHANGED fabricVars
           \/ \E uploaded \in BOOLEAN : work[r].pc = "certIn" /\ CertificateIn(r, uploaded)
<1>1. ASSUME NEW p \in Peers, QueryFile(r, p)
      PROVE  \/ UNCHANGED fabricVars
             \/ \E uploaded \in BOOLEAN : work[r].pc = "certIn" /\ CertificateIn(r, uploaded)
  BY <1>1 DEF QueryFile, HasFile, CertificateInRefused
<1>2. CASE QueryFileFails(r)
  BY <1>2 DEF QueryFileFails, CertificateInRefused
<1>3. ASSUME NEW p \in Peers, CertificateOut(r, p) PROVE UNCHANGED fabricVars
  BY <1>3 DEF CertificateOut
<1>4. CASE CertificateOutNothing(r) \/ FileExecuted(r) \/ CertificateExecuted(r)
  BY <1>4 DEF CertificateOutNothing, FileExecuted, CertificateExecuted
<1> QED BY <1>1, <1>2, <1>3, <1>4 DEF HandlerStep

(* Every step of the service keeps the invariant of the client.            *)
LEMMA NextClient ==
    ASSUME TypeInv, ClientInv, [Next]_vars
    PROVE  ClientInv'
<1>1. ASSUME NEW r \in Requests, NEW uploaded \in BOOLEAN,
             work[r].pc = "certIn", CertificateIn(r, uploaded)
      PROVE  ClientInv'
  <2> DEFINE cert == [work[r].hand EXCEPT !.hasUpload = uploaded]
  <2>1. Item(r).certId \in Certs /\ cert \in Certificate
    BY <1>1, CertificateInArgument
  <2>2. Enter(r, "postCertificate", Item(r).certId, cert)
    BY <1>1 DEF CertificateIn
  <2> HIDE DEF cert
  <2> QED BY <2>1, <2>2, EnterInv
<1>2. ASSUME NEW r \in Requests, NEW job \in Jobs, ReceiveFile(r, job) PROVE ClientInv'
  <2>1. job.items[1] \in FileItem
    BY <1>2, JobKinds DEF ReceiveFile
  <2>2. job.items[1].certId \in Certs /\ job.items[1].value \in Files
    BY <2>1 DEF FileItem
  <2>3. Enter(r, "postUploadFile", job.items[1].certId, job.items[1].value)
    BY <1>2 DEF ReceiveFile
  <2> QED BY <2>2, <2>3, EnterInv
<1>3. ASSUME NEW r \in Requests, NEW job \in Jobs,
             ReceiveCertificate(r, job) \/ ReceiveStatuses(r, job) \/ ReceiveNoStatus(r, job)
      PROVE  ClientInv'
  BY <1>3, StutterInv DEF ReceiveCertificate, ReceiveStatuses, ReceiveNoStatus
<1>4. ASSUME NEW r \in Requests, Reject(r) PROVE ClientInv'
  BY <1>4, StutterInv DEF Reject
<1>5. ASSUME NEW r \in Requests, HandlerStep(r) PROVE ClientInv'
  BY <1>1, <1>5, HandlerStepFabric, StutterInv
<1>6. ASSUME NEW r \in Requests, ExecuteStep(r) PROVE ClientInv'
  BY <1>6, ExecuteStepInv
<1>7. CASE Network
  BY <1>7, NetworkInv
<1>8. CASE Dispatch
  BY <1>8, DispatchInv
<1>9. CASE Crash
  BY <1>9, RestartInv DEF Crash
<1>10. CASE UNCHANGED vars
  BY <1>10, StutterInv DEF vars
<1> QED BY <1>2, <1>3, <1>4, <1>5, <1>6, <1>7, <1>8, <1>9, <1>10 DEF Next, ClientStep, AllDone

(* Types, files and calls together: the invariant of the service.          *)
ServiceInv == Inv /\ ClientInv

(* The service's invariant holds throughout.                               *)
LEMMA ServiceInvariant == Spec => []ServiceInv
<1>1. Init => ServiceInv
  BY InitType, InitFiles, FabricInitInv DEF Init, Inv, ServiceInv
<1>2. ServiceInv /\ [Next]_vars => ServiceInv'
  BY NextType, NextFiles, NextClient DEF Inv, ServiceInv
<1> QED BY <1>1, <1>2, PTL DEF Spec

(* What Execute promises it promises to these handlers: whichever requests *)
(* arrive and however they interleave, success is a commit, no call writes *)
(* twice, no registration leaks and no status comes without its event      *)
(* (execute.go:9-40).                                                      *)
THEOREM ServiceClient ==
    Spec => [](/\ SuccessMeansCommitted /\ WrittenAtMostOnce
               /\ RegistrationsAreLive /\ CommittedIsNotified)
<1>1. ServiceInv => /\ SuccessMeansCommitted /\ WrittenAtMostOnce
                    /\ RegistrationsAreLive /\ CommittedIsNotified
  BY InvSuccess, InvWritesOnce, InvRegistrations, InvNotified DEF ServiceInv
<1> QED BY <1>1, ServiceInvariant, PTL

-----------------------------------------------------------------------------
(***************************************************************************)
(* Refinement: every block is one write of the registry that CertRegistry  *)
(* describes, allowed and for the first time; every other step of the      *)
(* service leaves the registry alone.                                      *)
(***************************************************************************)

(* A block writes one value under one number.                              *)
LEMMA PutStateWrites ==
    ASSUME NEW db \in Database, NEW tx \in Tx
    PROVE  /\ tx.certId \in Certs
           /\ \/ /\ tx.fcn = "postCertificate" /\ tx.value \in Certificate
                 /\ PutState(db, tx).cert = [db.cert EXCEPT ![tx.certId] = tx.value]
                 /\ PutState(db, tx).file = db.file
              \/ /\ tx.fcn = "postUploadFile" /\ tx.value \in Files
                 /\ PutState(db, tx).file = [db.file EXCEPT ![tx.certId] = tx.value]
                 /\ PutState(db, tx).cert = db.cert
<1>1. CASE tx \in CertTx
  <2>1. tx.fcn = "postCertificate" /\ tx.certId \in Certs /\ tx.value \in Certificate
    BY <1>1 DEF CertTx
  <2>2. PutState(db, tx) = [db EXCEPT !.cert[tx.certId] = tx.value]
    BY <2>1 DEF PutState
  <2> QED BY <2>1, <2>2 DEF Database
<1>2. CASE tx \in FileTx
  <2>1. tx.fcn = "postUploadFile" /\ tx.certId \in Certs /\ tx.value \in Files
    BY <1>2 DEF FileTx
  <2>2. PutState(db, tx) = [db EXCEPT !.file[tx.certId] = tx.value]
    BY <2>1 DEF PutState
  <2> QED BY <2>1, <2>2 DEF Database
<1> QED BY <1>1, <1>2 DEF Tx

(* A block's id is new to the chain, and it is the only one the block adds.*)
LEMMA OrderCommits ==
    ASSUME ClientInv, NEW tx \in pool,
           chain' = Append(chain, [tx |-> tx, db |-> PutState(TipState, tx)])
    PROVE  Committed' = Committed \cup {tx.id} /\ tx.id \notin Committed
<1>1. LedgerTypeOK /\ tx \in Tx /\ Len(chain) \in Nat
  BY SentType DEF ClientInv, FabricTypeOK, LedgerTypeOK
<1> DEFINE block == [tx |-> tx, db |-> PutState(TipState, tx)]
<1>2. block \in [tx : Tx, db : Database] /\ block.tx = tx
  BY <1>1, TipStateType, PutStateType
<1> HIDE DEF block
<1>3. chain' = Append(chain, block)
  BY DEF block
<1>4. /\ Len(chain') = Len(chain) + 1
      /\ \A i \in 1 .. Len(chain) : chain'[i] = chain[i]
      /\ chain'[Len(chain) + 1] = block
  BY <1>1, <1>2, <1>3, AppendProperties DEF LedgerTypeOK
<1>5. Committed' \subseteq Committed \cup {tx.id}
  BY <1>1, <1>2, <1>4 DEF Committed
<1>6. Committed \subseteq Committed'
  <2> SUFFICES ASSUME NEW i \in 1 .. Len(chain)
               PROVE  chain[i].tx.id \in Committed'
    BY DEF Committed
  <2>1. i \in 1 .. Len(chain') /\ chain'[i] = chain[i]
    BY <1>1, <1>4
  <2> QED BY <2>1 DEF Committed
<1>7. tx.id \in Committed'
  <2>1. Len(chain) + 1 \in 1 .. Len(chain')
    BY <1>1, <1>4
  <2> QED BY <1>2, <1>4, <2>1 DEF Committed
<1>8. tx.id \notin Committed
  <2> SUFFICES ASSUME NEW i \in 1 .. Len(chain), chain[i].tx.id = tx.id
               PROVE  FALSE
    BY DEF Committed
  <2>1. chain[i].tx \in Sent /\ tx \in Sent
    BY DEF Sent, ChainTx
  <2>2. chain[i].tx = tx
    BY <2>1 DEF ClientInv, SentOnce
  <2> QED BY <2>2 DEF ClientInv, SentOnce
<1> QED BY <1>5, <1>6, <1>7, <1>8

(* Ordering a transaction is a write of the registry.                      *)
LEMMA OrderRefines ==
    ASSUME ServiceInv, Order
    PROVE  Registry!RegistryNext
<1>1. PICK tx \in pool :
         chain' = Append(chain, [tx |-> tx, db |-> PutState(TipState, tx)])
  BY DEF Order
<1>2. LedgerTypeOK /\ tx \in Tx /\ Backed(tx) /\ TipState \in Database
  BY TipStateType DEF ServiceInv, Inv, TypeInv, FabricTypeOK, LedgerTypeOK, FilesInv
<1>3. TipState' = PutState(TipState, tx)
  BY <1>1, <1>2, OrderStates
<1>4. Registry!TakeOnce
  <2>1. Committed' = Committed \cup {tx.id} /\ tx.id \notin Committed
    BY <1>1, OrderCommits DEF ServiceInv
  <2> QED BY <2>1 DEF Registry!TakeOnce
<1>5. tx.certId \in Certs
  BY <1>2, PutStateWrites
<1>6. CASE /\ tx.fcn = "postCertificate" /\ tx.value \in Certificate
           /\ TipState.cert' = [TipState.cert EXCEPT ![tx.certId] = tx.value]
           /\ TipState.file' = TipState.file
  <2>1. Registry!MayRecord(tx.certId, tx.value)
    BY <1>2, <1>6 DEF Backed, Registry!MayRecord
  <2>2. Registry!WriteCertificate(tx.certId, tx.value)
    BY <1>4, <1>6, <2>1 DEF Registry!WriteCertificate
  <2> QED BY <1>5, <1>6, <2>2 DEF Registry!RegistryNext
<1>7. CASE /\ tx.fcn = "postUploadFile" /\ tx.value \in Files
           /\ TipState.file' = [TipState.file EXCEPT ![tx.certId] = tx.value]
           /\ TipState.cert' = TipState.cert
  <2>1. Registry!WriteFile(tx.certId, tx.value)
    BY <1>4, <1>7 DEF Registry!WriteFile
  <2> QED BY <1>5, <1>7, <2>1 DEF Registry!RegistryNext
<1> QED BY <1>2, <1>3, <1>6, <1>7, PutStateWrites

(* What leaves the chain alone leaves the registry alone.                  *)
LEMMA ChainUnchangedRefines ==
    ASSUME UNCHANGED chain
    PROVE  UNCHANGED Registry!registryVars
BY DEF Registry!registryVars, TipState, StateAt, Committed, GenesisState

(* Only the orderer and the peers change the chain and what peers have.     *)
LEMMA OnlyNetworkCommits ==
    ASSUME TypeInv, [Next]_vars
    PROVE  \/ Network /\ UNCHANGED work
           \/ UNCHANGED <<chain, height>>
<1>1. ASSUME NEW r \in Requests, HandlerStep(r) PROVE UNCHANGED <<chain, height>>
  BY <1>1, HandlerStepFabric DEF CertificateIn, Enter, fabricVars, ledgerVars
<1>2. ASSUME NEW r \in Requests, ExecuteStep(r) PROVE UNCHANGED <<chain, height>>
  BY <1>2, ExecuteStepEffect DEF TypeInv
<1>3. ASSUME NEW r \in Requests, NEW job \in Jobs,
             \/ ReceiveCertificate(r, job) \/ ReceiveFile(r, job)
             \/ ReceiveStatuses(r, job) \/ ReceiveNoStatus(r, job)
      PROVE  UNCHANGED <<chain, height>>
  BY <1>3 DEF ReceiveCertificate, ReceiveFile, ReceiveStatuses, ReceiveNoStatus, Enter,
              fabricVars, ledgerVars
<1>4. ASSUME NEW r \in Requests, Reject(r) PROVE UNCHANGED <<chain, height>>
  BY <1>4 DEF Reject, fabricVars, ledgerVars
<1>5. CASE Dispatch \/ Crash
  BY <1>5 DEF Dispatch, Crash, Restart, ledgerVars
<1>6. CASE UNCHANGED vars
  BY <1>6 DEF vars, fabricVars, ledgerVars
<1> QED BY <1>1, <1>2, <1>3, <1>4, <1>5, <1>6 DEF Next, ClientStep, AllDone

(* Only the orderer changes the chain.                                     *)
LEMMA OnlyOrderWrites ==
    ASSUME TypeInv, [Next]_vars
    PROVE  Order \/ UNCHANGED chain
BY OnlyNetworkCommits DEF Network, PeerCommit

(* The tip of the chain implements the abstract registry: requests that    *)
(* interleave, peers that lag, calls that time out or are lost and crashes *)
(* amount to atomic writes, each taking effect at most once, none of which *)
(* records a certificate as open, or as having a file, that has none       *)
(* (certificateIO.go:90-127, execute.go:26, chaincode/main.go:84, 153).     *)
THEOREM RegistryImplemented == Spec => ImplementsRegistry
<1>1. Init => Registry!RegistryInit
  <2> SUFFICES ASSUME Init PROVE Registry!RegistryInit
    OBVIOUS
  <2>1. Len(chain) = 0
    BY EmptySeq DEF Init, FabricInit, LedgerInit
  <2>2. TipState = GenesisState /\ Committed = {}
    BY <2>1 DEF TipState, StateAt, Committed
  <2> QED BY <2>2 DEF Registry!RegistryInit, GenesisState
<1>2. ServiceInv /\ [Next]_vars => [Registry!RegistryNext]_(Registry!registryVars)
  BY OnlyOrderWrites, OrderRefines, ChainUnchangedRefines DEF ServiceInv, Inv
<1> QED BY <1>1, <1>2, ServiceInvariant, PTL
        DEF Spec, ImplementsRegistry, Registry!RegistrySpec
=============================================================================
