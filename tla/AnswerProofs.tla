---------------------------- MODULE AnswerProofs ----------------------------
(***************************************************************************)
(* What the answers of the writing handlers tell about the ledger: an      *)
(* answer and a mark are true of some peer, a refusal left nothing behind, *)
(* and what status changes and uploads write was written before.           *)
(***************************************************************************)
EXTENDS CertificateIOProofs

(* A certificate has the flags that a status asks for.                     *)
SameFlags(a, b) ==
    /\ a.isOpen = b.isOpen /\ a.isCompleted = b.isCompleted /\ a.isDeleted = b.isDeleted

(* A transaction carries what the request asks for: a file or certificate   *)
(* as sent, but for hasUpload, or one with the flags of the status.        *)
Carries(job, item, tx) ==
    /\ tx.certId = item.certId
    /\ tx.fcn = "postUploadFile" => job.op = "postUploadFile" /\ tx.value = item.value
    /\ tx.fcn = "postCertificate" =>
          /\ job.op = "postCertificate" => Same(tx.value, item.value)
          /\ job.op = "postChangeStatus" => SameFlags(tx.value, item)

(* A transaction of request r among T that carries the item.               *)
Written(r, fcn, job, item, T) ==
    \E tx \in T : Ours(r, tx) /\ tx.fcn = fcn /\ Carries(job, item, tx)

(* A transaction of request r among T that has the status.                 *)
Changed(r, status, T) ==
    \E tx \in T : Ours(r, tx) /\ tx.certId = status.certId /\ SameFlags(tx.value, status)

(* The marks that a handler made itself and that close a certificate.      *)
MarksTold(r, w, T) ==
    \A i \in DOMAIN w.marks :
        w.marks[i] /\ ~ w.job.items[i].isChangedOnChain /\ ~ w.job.items[i].isOpen =>
            Changed(r, w.job.items[i], T)

(* The file of an upload is at a peer when the handler is past its first   *)
(* call of Execute.                                                        *)
FileDone(w, e) ==
    \/ w.pc \in {"certOut", "certIn"}
    \/ w.pc = "execute" /\ e.tx.fcn = "postCertificate"
    \/ w.answer = 200

(* What the handler w of request r and its call e promise, when peers have  *)
(* the transactions T.                                                     *)
Told(r, w, e, T) ==
    LET item == w.job.items[w.idx]
        op   == w.job.op
    IN  /\ w.pc # "done" => w.answer = NoAnswer
        /\ w.pc = "unsent" => e.n = 0
        /\ w.answer \in {400, 401, 500} => e.n = 0
        /\ w.pc = "certIn" /\ op = "postCertificate" => e.n = 0 /\ w.hand = item.value
        /\ w.pc = "certIn" /\ op = "postChangeStatus" => SameFlags(w.hand, item)
        /\ w.pc = "execute" => e.stage # "idle" /\ Carries(w.job, item, e.tx)
        /\ FileDone(w, e) /\ op = "postUploadFile" =>
              Written(r, "postUploadFile", w.job, item, T)
        /\ w.answer = 200 /\ op = "postCertificate" =>
              Written(r, "postCertificate", w.job, item, T)
        /\ MarksTold(r, w, T)

AnswerInv == \A r \in Requests : Told(r, work[r], exec[r], AtSomePeer)

-----------------------------------------------------------------------------
(* Peers only gain transactions.                                           *)

(* AtSomePeer is what AtPeer says.                                         *)
LEMMA AtSomePeerDef ==
    ASSUME NEW tx
    PROVE  tx \in AtSomePeer <=> AtPeer(tx)
BY DEF AtSomePeer, AtPeer

(* No step takes a block from a peer.                                      *)
LEMMA PeersKeep ==
    ASSUME TypeInv, [Next]_vars
    PROVE  AtSomePeer \subseteq AtSomePeer'
<1>1. LedgerTypeOK /\ Len(chain) \in Nat
  BY SentType DEF TypeInv, FabricTypeOK
<1>2. CASE Order
  <2>1. PICK tx \in pool :
           chain' = Append(chain, [tx |-> tx, db |-> PutState(TipState, tx)])
    BY <1>2 DEF Order
  <2> DEFINE block == [tx |-> tx, db |-> PutState(TipState, tx)]
  <2>2. block \in [tx : Tx, db : Database]
    BY <1>1, TipStateType, PutStateType DEF LedgerTypeOK
  <2> HIDE DEF block
  <2>3. chain' = Append(chain, block)
    BY <2>1 DEF block
  <2>4. \A i \in 1 .. Len(chain) : chain'[i] = chain[i]
    BY <1>1, <2>2, <2>3, AppendProperties DEF LedgerTypeOK
  <2> SUFFICES ASSUME NEW p \in Peers, NEW i \in 1 .. height[p]
               PROVE  chain[i].tx \in AtSomePeer'
    BY DEF AtSomePeer
  <2>5. height' = height /\ height[p] \in 0 .. Len(chain)
    BY <1>1, <1>2 DEF Order, LedgerTypeOK
  <2>6. i \in 1 .. height'[p] /\ chain'[i].tx = chain[i].tx
    BY <1>1, <2>4, <2>5
  <2> QED BY <2>6 DEF AtSomePeer
<1>3. ASSUME NEW q \in Peers, PeerCommit(q) PROVE AtSomePeer \subseteq AtSomePeer'
  <2> SUFFICES ASSUME NEW p \in Peers, NEW i \in 1 .. height[p]
               PROVE  chain[i].tx \in AtSomePeer'
    BY DEF AtSomePeer
  <2>1. chain' = chain /\ height' = [height EXCEPT ![q] = @ + 1]
    BY <1>3 DEF PeerCommit
  <2>2. height[p] \in Nat /\ height'[p] \in Nat /\ height'[p] >= height[p]
    BY <1>1, <2>1 DEF LedgerTypeOK
  <2>3. i \in 1 .. height'[p] /\ chain'[i].tx = chain[i].tx
    BY <2>1, <2>2
  <2> QED BY <2>3 DEF AtSomePeer
<1>4. CASE UNCHANGED <<chain, height>>
  BY <1>4 DEF AtSomePeer
<1> QED BY <1>2, <1>3, <1>4, OnlyNetworkCommits DEF Network

-----------------------------------------------------------------------------
(* How promises are kept and made.                                         *)

(* More at the peers breaks no promise, nor does a call that only moves on.*)
LEMMA ToldStays ==
    ASSUME NEW r, NEW w, NEW e, NEW T, NEW f, NEW U, Told(r, w, e, T),
           T \subseteq U, f.n = e.n, f.tx = e.tx,
           w.pc = "execute" /\ e.stage # "idle" => f.stage # "idle"
    PROVE  Told(r, w, f, U)
<1>1. \A fcn, job, item : Written(r, fcn, job, item, T) => Written(r, fcn, job, item, U)
  BY DEF Written
<1>2. \A status : Changed(r, status, T) => Changed(r, status, U)
  BY DEF Changed
<1> QED BY <1>1, <1>2 DEF Told, FileDone, MarksTold

(* One request's promise is enough when the others stand still.            *)
LEMMA OneTold ==
    ASSUME AnswerInv, AtSomePeer \subseteq AtSomePeer', NEW r \in Requests,
           \A q \in Requests \ {r} : work'[q] = work[q] /\ exec'[q] = exec[q],
           Told(r, work'[r], exec'[r], AtSomePeer')
    PROVE  AnswerInv'
<1>1. ASSUME NEW q \in Requests PROVE Told(q, work'[q], exec'[q], AtSomePeer')
  <2>1. CASE q # r
    <3>1. Told(q, work[q], exec[q], AtSomePeer)
      BY DEF AnswerInv
    <3>2. Told(q, work[q], exec[q], AtSomePeer')
      BY <3>1, ToldStays
    <3> QED BY <2>1, <3>2
  <2> QED BY <2>1
<1> QED BY <1>1 DEF AnswerInv

(* An answer: what it says must be so.                                     *)
LEMMA AnsweredTold ==
    ASSUME NEW r, NEW w \in Handler, NEW e, NEW T, NEW code \in Codes, Told(r, w, e, T),
           code \in {400, 401, 500} => e.n = 0,
           code = 200 /\ w.job.op = "postUploadFile" =>
               Written(r, "postUploadFile", w.job, w.job.items[w.idx], T),
           code = 200 /\ w.job.op = "postCertificate" =>
               Written(r, "postCertificate", w.job, w.job.items[w.idx], T)
    PROVE  Told(r, Answered(w, code), e, T)
<1> DEFINE v == Answered(w, code)
<1>1. /\ v.pc = "done" /\ v.answer = code
      /\ v.job = w.job /\ v.idx = w.idx /\ v.marks = w.marks
  BY DEF Answered, Handler
<1> HIDE DEF v
<1>2. MarksTold(r, v, T)
  BY <1>1 DEF Told, MarksTold
<1>3. FileDone(v, e) => code = 200
  BY <1>1 DEF FileDone
<1>4. Told(r, v, e, T)
  BY <1>1, <1>2, <1>3 DEF Told
<1> QED BY <1>4 DEF v

(* The next turn of the loop of ChangeStatus, with marks that are so.      *)
LEMMA NextTurnTold ==
    ASSUME NEW r, NEW w \in Handler, NEW e, NEW T, NEW marks, Told(r, w, e, T),
           w.pc \in Active, w.job.op = "postChangeStatus",
           \A i \in DOMAIN marks :
               marks[i] /\ ~ w.job.items[i].isChangedOnChain /\ ~ w.job.items[i].isOpen =>
                   Changed(r, w.job.items[i], T)
    PROVE  Told(r, NextTurn(w, marks), e, T)
<1> DEFINE v == NextTurn(w, marks)
<1>1. /\ \/ v.pc = "certOut" /\ v.answer = w.answer
         \/ v.pc = "done" /\ v.answer = 200
      /\ v.job = w.job /\ v.marks = marks
  <2>1. CASE w.idx < Len(w.job.items)
    <3>1. v.pc = "certOut" /\ v.answer = w.answer
      BY <2>1 DEF NextTurn, Handler
    <3>2. v.job = w.job /\ v.marks = marks
      BY <2>1 DEF NextTurn, Handler
    <3> QED BY <3>1, <3>2
  <2>2. CASE ~ (w.idx < Len(w.job.items))
    <3>1. v = [w EXCEPT !.pc = "done", !.hand = NoCert, !.marks = marks, !.answer = 200]
      BY <2>2 DEF NextTurn
    <3> QED BY <3>1 DEF Handler
  <2> QED BY <2>1, <2>2
<1>2. w.answer = NoAnswer /\ NoAnswer \notin {200, 400, 401, 500}
  BY AnswerAssumption DEF Told, Active, Codes
<1> HIDE DEF v
<1>3. MarksTold(r, v, T)
  BY <1>1 DEF MarksTold
<1>4. Told(r, v, e, T)
  BY <1>1, <1>2, <1>3 DEF Told
<1> QED BY <1>4 DEF v

(* The same for a step of the handler alone.                               *)
LEMMA HandlerTold ==
    ASSUME TypeInv, AnswerInv, AtSomePeer \subseteq AtSomePeer', NEW r \in Requests, NEW v,
           work' = [work EXCEPT ![r] = v], exec' = exec,
           Told(r, v, exec[r], AtSomePeer)
    PROVE  AnswerInv'
<1>1. work'[r] = v /\ \A q \in Requests \ {r} : work'[q] = work[q] /\ exec'[q] = exec[q]
  BY DEF TypeInv
<1>2. Told(r, work'[r], exec'[r], AtSomePeer')
  BY <1>1, ToldStays
<1> QED BY <1>1, <1>2, OneTold

(* An answer that is so.                                                   *)
LEMMA ReplyTold ==
    ASSUME TypeInv, AnswerInv, AtSomePeer \subseteq AtSomePeer', NEW r \in Requests,
           NEW code \in Codes, Reply(r, code), exec' = exec,
           code \in {400, 401, 500} => exec[r].n = 0,
           code = 200 => /\ Op(r) = "postUploadFile" =>
                                Written(r, "postUploadFile", work[r].job, Item(r), AtSomePeer)
                         /\ Op(r) = "postCertificate" =>
                                Written(r, "postCertificate", work[r].job, Item(r), AtSomePeer)
    PROVE  AnswerInv'
<1>1. work[r] \in Handler /\ Told(r, work[r], exec[r], AtSomePeer)
  BY DEF TypeInv, AnswerInv
<1>2. Told(r, Answered(work[r], code), exec[r], AtSomePeer)
  BY <1>1, AnsweredTold DEF Op, Item
<1> QED BY <1>2, HandlerTold DEF Reply

(* A call that returned success is at a peer, and the request's own.       *)
LEMMA OkAtPeer ==
    ASSUME ClientInv, NEW r \in Requests, exec[r].stage = "ok"
    PROVE  exec[r].tx \in AtSomePeer /\ Ours(r, exec[r].tx)
<1>1. AtPeer(exec[r].tx)
  BY InvSuccess DEF SuccessMeansCommitted, AtPeer
<1>2. exec[r].tx.id = <<r, exec[r].n - 1>>
  BY DEF ClientInv, IdsAreOfCalls
<1> QED BY <1>1, <1>2, AtSomePeerDef DEF Ours

(* The promises of a certificate handed on (app.go:250, 289,               *)
(* certificateIO.go:223-227, 330-334): to a client that posts it, to one   *)
(* that uploads its file, to one that changes its status.                  *)
LEMMA AfterCertificateInTold ==
    ASSUME TypeInv, AnswerInv, NEW r \in Requests, NEW failed \in BOOLEAN, NEW code \in Codes,
           work[r].pc \in Active, AfterCertificateIn(r, failed, code),
           AtSomePeer \subseteq AtSomePeer', exec' = exec,
           Op(r) = "postCertificate" =>
               /\ code \in {400, 401, 500} => exec[r].n = 0
               /\ code = 200 =>
                     Written(r, "postCertificate", work[r].job, Item(r), AtSomePeer),
           FileDone(work[r], exec[r]),
           Op(r) = "postChangeStatus" /\ ~ failed /\ ~ Item(r).isOpen =>
               Changed(r, Item(r), AtSomePeer)
    PROVE  AnswerInv'
<1> DEFINE w == work[r]
           e == exec[r]
<1>1. w \in Handler /\ Told(r, w, e, AtSomePeer) /\ work \in [Requests -> Handler]
  BY DEF TypeInv, AnswerInv
<1>3. CASE Op(r) = "postCertificate" /\ Reply(r, code)
  BY <1>3, ReplyTold
<1>4. CASE Op(r) = "postUploadFile" /\ Reply(r, IF failed THEN 501 ELSE 200)
  <2>1. Written(r, "postUploadFile", w.job, Item(r), AtSomePeer)
    BY <1>1, <1>4 DEF Told, Op, Item
  <2>2. ASSUME NEW c \in {200, 501}, Reply(r, c) PROVE AnswerInv'
    <3>1. c \in Codes
      BY DEF Codes
    <3> QED BY <1>4, <2>1, <2>2, <3>1, ReplyTold
  <2> QED BY <1>4, <2>2
<1>5. CASE /\ Op(r) = "postChangeStatus"
           /\ NextStatus(r, [w.marks EXCEPT ![w.idx] = @ \/ ~ failed])
  <2> DEFINE marks == [w.marks EXCEPT ![w.idx] = @ \/ ~ failed]
  <2>1. ASSUME NEW i \in DOMAIN marks, marks[i], ~ w.job.items[i].isChangedOnChain,
               ~ w.job.items[i].isOpen
        PROVE  Changed(r, w.job.items[i], AtSomePeer)
    <3>1. i \in DOMAIN w.marks
      OBVIOUS
    <3>2. CASE i = w.idx /\ ~ failed
      BY <1>5, <2>1, <3>2 DEF Item
    <3>3. CASE ~ (i = w.idx /\ ~ failed)
      <4>1. w.marks[i]
        BY <2>1, <3>1, <3>3
      <4> QED BY <1>1, <2>1, <3>1, <4>1 DEF Told, MarksTold
    <3> QED BY <3>2, <3>3
  <2> HIDE DEF marks
  <2>2. Told(r, NextTurn(w, marks), e, AtSomePeer)
    BY <1>1, <1>5, <2>1, NextTurnTold DEF Op
  <2>3. work' = [work EXCEPT ![r] = NextTurn(w, marks)]
    BY <1>5 DEF NextStatus, marks
  <2> QED BY <2>2, <2>3, HandlerTold
<1> QED BY <1>3, <1>4, <1>5 DEF AfterCertificateIn

-----------------------------------------------------------------------------
(* A request arrives.                                                      *)

(* It has called nothing, promised nothing, and takes its job.             *)
LEMMA ReceiveTold ==
    ASSUME TypeInv, AnswerInv, AtSomePeer \subseteq AtSomePeer',
           NEW r \in Requests, NEW job \in Jobs,
           \/ ReceiveCertificate(r, job) \/ ReceiveStatuses(r, job) \/ ReceiveNoStatus(r, job)
    PROVE  AnswerInv'
<1>1. exec' = exec /\ exec[r].n = 0
  BY DEF ReceiveCertificate, ReceiveStatuses, ReceiveNoStatus, AnswerInv, Told,
         fabricVars, clientVars
<1>2. NoAnswer \notin {200, 400, 401, 500}
  BY AnswerAssumption DEF Codes
<1>3. CASE ReceiveCertificate(r, job)
  <2> DEFINE v == [Unsent EXCEPT !.pc = "certIn", !.job = job, !.idx = 1,
                      !.hand = job.items[1].value]
  <2>1. /\ v.pc = "certIn" /\ v.job = job /\ v.idx = 1 /\ v.hand = job.items[1].value
        /\ v.answer = NoAnswer /\ v.marks = <<>>
    BY DEF Unsent
  <2>2. work' = [work EXCEPT ![r] = v] /\ job.op = "postCertificate"
    BY <1>3 DEF ReceiveCertificate
  <2> HIDE DEF v
  <2>3. MarksTold(r, v, AtSomePeer)
    BY <2>1 DEF MarksTold
  <2>4. Told(r, v, exec[r], AtSomePeer)
    BY <1>1, <1>2, <2>1, <2>2, <2>3 DEF Told
  <2> QED BY <1>1, <2>2, <2>4, HandlerTold
<1>4. CASE ReceiveStatuses(r, job)
  <2> DEFINE marks == [i \in DOMAIN job.items |-> job.items[i].isChangedOnChain]
             v == [Unsent EXCEPT !.pc = "certOut", !.job = job, !.idx = 1, !.marks = marks]
  <2>1. /\ v.pc = "certOut" /\ v.job = job /\ v.answer = NoAnswer /\ v.marks = marks
    BY DEF Unsent
  <2>2. work' = [work EXCEPT ![r] = v] /\ job.op = "postChangeStatus"
    BY <1>4 DEF ReceiveStatuses
  <2> HIDE DEF v
  <2>3. MarksTold(r, v, AtSomePeer)
    BY <2>1 DEF MarksTold
  <2> HIDE DEF marks
  <2>4. Told(r, v, exec[r], AtSomePeer)
    BY <1>1, <1>2, <2>1, <2>2, <2>3 DEF Told
  <2> QED BY <1>1, <2>2, <2>4, HandlerTold
<1>5. CASE ReceiveNoStatus(r, job)
  <2> DEFINE v == [Unsent EXCEPT !.pc = "done", !.job = job, !.answer = 200]
  <2>1. /\ v.pc = "done" /\ v.job = job /\ v.answer = 200 /\ v.marks = <<>>
    BY DEF Unsent
  <2>2. work' = [work EXCEPT ![r] = v] /\ job.op = "postChangeStatus"
    BY <1>5 DEF ReceiveNoStatus
  <2> HIDE DEF v
  <2>3. MarksTold(r, v, AtSomePeer)
    BY <2>1 DEF MarksTold
  <2>4. Told(r, v, exec[r], AtSomePeer)
    BY <1>1, <1>2, <2>1, <2>2, <2>3 DEF Told
  <2> QED BY <1>1, <2>2, <2>4, HandlerTold
<1> QED BY <1>3, <1>4, <1>5

(* What a call of Execute begins with, and what it leaves alone.           *)
LEMMA EnterEffect ==
    ASSUME FabricTypeOK, NEW r \in Requests, NEW fcn, NEW c, NEW value, Enter(r, fcn, c, value)
    PROVE  /\ exec'[r].stage = "register"
           /\ exec'[r].tx = [id |-> <<r, exec[r].n>>, fcn |-> fcn, certId |-> c, value |-> value]
           /\ \A q \in Requests \ {r} : exec'[q] = exec[q]
BY DEF Enter, FabricTypeOK

(* A file is handed to Execute as it was sent (certificateIO.go:207).      *)
LEMMA ReceiveFileTold ==
    ASSUME TypeInv, AnswerInv, AtSomePeer \subseteq AtSomePeer',
           NEW r \in Requests, NEW job \in Jobs, ReceiveFile(r, job)
    PROVE  AnswerInv'
<1> DEFINE v == [Unsent EXCEPT !.pc = "execute", !.job = job, !.idx = 1]
<1>1. /\ v.pc = "execute" /\ v.job = job /\ v.idx = 1 /\ v.answer = NoAnswer /\ v.marks = <<>>
  BY DEF Unsent
<1>2. work' = [work EXCEPT ![r] = v] /\ job.op = "postUploadFile"
  BY DEF ReceiveFile
<1> HIDE DEF v
<1>3. /\ exec'[r].stage = "register"
      /\ exec'[r].tx = [id |-> <<r, exec[r].n>>, fcn |-> "postUploadFile",
                        certId |-> job.items[1].certId, value |-> job.items[1].value]
      /\ \A q \in Requests \ {r} : exec'[q] = exec[q]
  BY EnterEffect DEF TypeInv, ReceiveFile
<1>4. Carries(job, job.items[1], exec'[r].tx) /\ exec'[r].tx.fcn = "postUploadFile"
  BY <1>2, <1>3 DEF Carries
<1>5. MarksTold(r, v, AtSomePeer') /\ ~ FileDone(v, exec'[r])
  BY <1>1, <1>4, AnswerAssumption DEF MarksTold, FileDone, Codes
<1>6. Told(r, v, exec'[r], AtSomePeer')
  BY <1>1, <1>2, <1>3, <1>4, <1>5, AnswerAssumption DEF Told, Codes
<1>7. work'[r] = v /\ \A q \in Requests \ {r} : work'[q] = work[q]
  BY <1>2 DEF TypeInv
<1> QED BY <1>3, <1>6, <1>7, OneTold

(* A refusal at the door: nothing has been called.                         *)
LEMMA RejectTold ==
    ASSUME TypeInv, AnswerInv, AtSomePeer \subseteq AtSomePeer', NEW r \in Requests, Reject(r)
    PROVE  AnswerInv'
<1>1. PICK code \in {400, 401, 500, 501} : Reply(r, code)
  BY DEF Reject
<1>2. code \in Codes /\ code # 200 /\ exec' = exec
  BY DEF Codes, Reject, fabricVars, clientVars
<1>3. exec[r].n = 0
  BY DEF Reject, AnswerInv, Told
<1> QED BY <1>1, <1>2, <1>3, ReplyTold

-----------------------------------------------------------------------------
(* The queries.                                                            *)

(* CertificateOut gives the certificate the flags of the status            *)
(* (certificateIO.go:215-219, 314-326).                                    *)
LEMMA CertificateOutTold ==
    ASSUME TypeInv, AnswerInv, AtSomePeer \subseteq AtSomePeer',
           NEW r \in Requests, NEW p \in Peers, CertificateOut(r, p)
    PROVE  AnswerInv'
<1> DEFINE cert == PeerState(p).cert[Item(r).certId]
           hand == Amend(r, cert)
           v    == [work[r] EXCEPT !.pc = "certIn", !.hand = hand]
<1>1. work[r].pc = "certOut" /\ cert # NoCert /\ exec' = exec
  BY DEF CertificateOut, fabricVars, clientVars
<1>2. Item(r).certId \in Certs
  BY <1>1, ItemType DEF Active
<1>3. cert \in Certificate
  BY <1>1, <1>2, PeerStateType DEF TypeInv, FabricTypeOK, Database
<1>4. Op(r) # "postCertificate"
  BY <1>1 DEF TypeInv, HandlerOK, Op
<1> HIDE DEF cert
<1>5. Op(r) = "postChangeStatus" => SameFlags(hand, Item(r))
  BY <1>3 DEF Amend, SameFlags, Certificate
<1>6. work' = [work EXCEPT ![r] = v]
  BY DEF CertificateOut, cert, TypeInv
<1> HIDE DEF hand
<1>7. work[r] \in Handler /\ Told(r, work[r], exec[r], AtSomePeer)
  BY DEF TypeInv, AnswerInv
<1>8. /\ v.pc = "certIn" /\ v.hand = hand /\ v.job = work[r].job /\ v.idx = work[r].idx
      /\ v.answer = work[r].answer /\ v.marks = work[r].marks
  BY <1>7 DEF Handler
<1> HIDE DEF v
<1>9. MarksTold(r, v, AtSomePeer)
  BY <1>7, <1>8 DEF Told, MarksTold
<1>10. FileDone(work[r], exec[r])
  BY <1>1 DEF FileDone
<1>11. v.answer \notin {200, 400, 401, 500}
  BY <1>1, <1>7, <1>8, AnswerAssumption DEF Told, Codes
<1>12. Told(r, v, exec[r], AtSomePeer)
  BY <1>1, <1>4, <1>5, <1>7, <1>8, <1>9, <1>10, <1>11 DEF Told, Op, Item
<1> QED BY <1>1, <1>6, <1>12, HandlerTold

(* CertificateOut yields nothing: the file of an upload is written all the *)
(* same, a status is passed over (certificateIO.go:209-213, 315-318).      *)
LEMMA CertificateOutNothingTold ==
    ASSUME TypeInv, AnswerInv, AtSomePeer \subseteq AtSomePeer', NEW r \in Requests,
           CertificateOutNothing(r)
    PROVE  AnswerInv'
<1>1. work[r].pc = "certOut" /\ exec' = exec
  BY DEF CertificateOutNothing, fabricVars, clientVars
<1>2. work[r] \in Handler /\ Told(r, work[r], exec[r], AtSomePeer)
  BY DEF TypeInv, AnswerInv
<1>3. CASE Op(r) = "postUploadFile" /\ Reply(r, 200)
  <2>1. 200 \in Codes /\ FileDone(work[r], exec[r])
    BY <1>1 DEF Codes, FileDone
  <2>2. Written(r, "postUploadFile", work[r].job, Item(r), AtSomePeer)
    BY <1>2, <1>3, <2>1 DEF Told, Op, Item
  <2> QED BY <1>1, <1>3, <2>1, <2>2, ReplyTold
<1>4. CASE Op(r) = "postChangeStatus" /\ NextStatus(r, work[r].marks)
  <2>1. Told(r, NextTurn(work[r], work[r].marks), exec[r], AtSomePeer)
    <3>1. MarksTold(r, work[r], AtSomePeer)
      BY <1>2 DEF Told
    <3> QED BY <1>1, <1>2, <1>4, <3>1, NextTurnTold DEF MarksTold, Op, Active
  <2> QED BY <1>1, <1>4, <2>1, HandlerTold DEF NextStatus
<1> QED BY <1>3, <1>4 DEF CertificateOutNothing

(* CertificateIn hands its certificate on, with hasUpload set              *)
(* (certificateIO.go:117-121).                                             *)
LEMMA CertificateInTold ==
    ASSUME TypeInv, AnswerInv, AtSomePeer \subseteq AtSomePeer', NEW r \in Requests,
           NEW uploaded \in BOOLEAN, work[r].pc = "certIn", CertificateIn(r, uploaded)
    PROVE  AnswerInv'
<1> DEFINE cert == [work[r].hand EXCEPT !.hasUpload = uploaded]
           v    == [work[r] EXCEPT !.pc = "execute", !.hand = NoCert]
<1>1. work[r] \in Handler /\ Told(r, work[r], exec[r], AtSomePeer)
      /\ work[r].hand \in Certificate /\ work[r].pc = "certIn"
  BY DEF TypeInv, AnswerInv, HandlerOK
<1>2. /\ v.pc = "execute" /\ v.job = work[r].job /\ v.idx = work[r].idx
      /\ v.answer = work[r].answer /\ v.marks = work[r].marks
  BY <1>1 DEF Handler
<1>3. work' = [work EXCEPT ![r] = v]
  BY DEF CertificateIn, TypeInv
<1>4. Same(cert, work[r].hand) /\ SameFlags(cert, work[r].hand)
  BY <1>1 DEF Same, SameFlags, Certificate
<1>5. Enter(r, "postCertificate", Item(r).certId, cert)
  BY DEF CertificateIn
<1> HIDE DEF cert, v
<1>6. /\ exec'[r].stage = "register"
      /\ exec'[r].tx = [id |-> <<r, exec[r].n>>, fcn |-> "postCertificate",
                        certId |-> Item(r).certId, value |-> cert]
      /\ \A q \in Requests \ {r} : exec'[q] = exec[q]
  BY <1>5, EnterEffect DEF TypeInv
<1>7. exec'[r].tx.fcn = "postCertificate" /\ exec'[r].tx.certId = Item(r).certId
      /\ exec'[r].tx.value = cert
  BY <1>6
<1>8. Op(r) = "postCertificate" => Same(cert, Item(r).value)
  BY <1>1, <1>4 DEF Told, Op, Item
<1>9. Op(r) = "postChangeStatus" => SameFlags(cert, Item(r))
  BY <1>1, <1>4 DEF Told, Op, Item, SameFlags
<1>10. Carries(work[r].job, Item(r), exec'[r].tx)
  BY <1>7, <1>8, <1>9 DEF Carries, Op
<1>11. FileDone(work[r], exec[r])
  BY <1>1 DEF FileDone
<1>12. Told(r, work[r], exec[r], AtSomePeer') /\ MarksTold(r, v, AtSomePeer')
  <2>1. Told(r, work[r], exec[r], AtSomePeer')
    BY <1>1, ToldStays
  <2> QED BY <1>2, <2>1 DEF Told, MarksTold
<1>13. v.answer \notin {200, 400, 401, 500}
  BY <1>1, <1>2, AnswerAssumption DEF Told, Codes
<1>14. Told(r, v, exec'[r], AtSomePeer')
  BY <1>1, <1>2, <1>6, <1>10, <1>11, <1>12, <1>13 DEF Told, Item
<1>15. work'[r] = v /\ \A q \in Requests \ {r} : work'[q] = work[q]
  BY <1>3 DEF TypeInv
<1> QED BY <1>6, <1>14, <1>15, OneTold

(* CertificateIn refuses to open a certificate without a file: 400 to the   *)
(* client that posts it, and a mark that says nothing to the one that       *)
(* opens it (certificateIO.go:113-115, 330-334).                           *)
LEMMA CertificateInRefusedTold ==
    ASSUME TypeInv, AnswerInv, AtSomePeer \subseteq AtSomePeer', NEW r \in Requests,
           NEW uploaded, NEW failed \in BOOLEAN,
           work[r].pc = "certIn", CertificateInRefused(r, uploaded, failed)
    PROVE  AnswerInv'
<1>1. Told(r, work[r], exec[r], AtSomePeer) /\ work[r].hand.isOpen
      /\ AfterCertificateIn(r, failed, 400) /\ exec' = exec
  BY DEF AnswerInv, CertificateInRefused, fabricVars, clientVars
<1>2. 400 \in Codes /\ work[r].pc \in Active /\ FileDone(work[r], exec[r])
  BY DEF Codes, Active, FileDone
<1>3. Op(r) = "postCertificate" => exec[r].n = 0
  BY <1>1 DEF Told, Op
<1>4. Op(r) = "postChangeStatus" => Item(r).isOpen
  BY <1>1 DEF Told, Op, Item, SameFlags
<1> QED BY <1>1, <1>2, <1>3, <1>4, AfterCertificateInTold

-----------------------------------------------------------------------------
(* Execute has returned.                                                   *)

(* The file is at a peer, or 501 (certificateIO.go:206-209).               *)
LEMMA FileExecutedTold ==
    ASSUME ServiceInv, AnswerInv, AtSomePeer \subseteq AtSomePeer', NEW r \in Requests,
           FileExecuted(r)
    PROVE  AnswerInv'
<1>1. TypeInv /\ ClientInv /\ exec' = exec
  BY DEF ServiceInv, Inv, FileExecuted, fabricVars, clientVars
<1>2. work[r] \in Handler /\ Told(r, work[r], exec[r], AtSomePeer)
      /\ work[r].pc = "execute" /\ exec[r].tx.fcn = "postUploadFile"
  BY <1>1 DEF TypeInv, AnswerInv, FileExecuted
<1>3. CASE exec[r].stage = "ok" /\ work' = [work EXCEPT ![r].pc = "certOut"]
  <2> DEFINE v == [work[r] EXCEPT !.pc = "certOut"]
  <2>1. work' = [work EXCEPT ![r] = v]
    BY <1>1, <1>3 DEF TypeInv
  <2>2. /\ v.pc = "certOut" /\ v.job = work[r].job /\ v.idx = work[r].idx
        /\ v.answer = work[r].answer /\ v.marks = work[r].marks
    BY <1>2 DEF Handler
  <2> HIDE DEF v
  <2>3. Carries(work[r].job, Item(r), exec[r].tx)
    BY <1>2 DEF Told, Item
  <2>4. Written(r, "postUploadFile", work[r].job, Item(r), AtSomePeer)
    BY <1>1, <1>2, <1>3, <2>3, OkAtPeer DEF Written
  <2>5. MarksTold(r, v, AtSomePeer)
    BY <1>2, <2>2 DEF Told, MarksTold
  <2>6. v.answer \notin {200, 400, 401, 500}
    BY <1>2, <2>2, AnswerAssumption DEF Told, Codes
  <2>7. Told(r, v, exec[r], AtSomePeer)
    BY <1>2, <2>2, <2>4, <2>5, <2>6 DEF Told, Item
  <2> QED BY <1>1, <2>1, <2>7, HandlerTold
<1>4. CASE Reply(r, 501)
  <2>1. 501 \in Codes
    BY DEF Codes
  <2> QED BY <1>1, <1>4, <2>1, ReplyTold
<1> QED BY <1>3, <1>4 DEF FileExecuted

(* The certificate is at a peer, or the call has failed                    *)
(* (certificateIO.go:121-126).                                             *)
LEMMA CertificateExecutedTold ==
    ASSUME ServiceInv, AnswerInv, AtSomePeer \subseteq AtSomePeer', NEW r \in Requests,
           CertificateExecuted(r)
    PROVE  AnswerInv'
<1> DEFINE failed == exec[r].stage = "err"
           code   == IF failed THEN 501 ELSE 200
<1>1. TypeInv /\ ClientInv /\ exec' = exec
  BY DEF ServiceInv, Inv, CertificateExecuted, fabricVars, clientVars
<1>2. Told(r, work[r], exec[r], AtSomePeer) /\ exec[r].stage \in Returned
      /\ work[r].pc = "execute" /\ exec[r].tx.fcn = "postCertificate"
  BY DEF AnswerInv, CertificateExecuted
<1>3. Carries(work[r].job, Item(r), exec[r].tx)
  BY <1>2 DEF Told, Item
<1>4. failed \in BOOLEAN /\ code \in Codes /\ code \notin {400, 401, 500}
      /\ (code = 200 => ~ failed)
  BY DEF Codes
<1>5. ~ failed => exec[r].tx \in AtSomePeer /\ Ours(r, exec[r].tx)
  BY <1>1, <1>2, OkAtPeer DEF Returned
<1>6. AfterCertificateIn(r, failed, code)
  BY DEF CertificateExecuted
<1> HIDE DEF failed, code
<1>7. code = 200 => Written(r, "postCertificate", work[r].job, Item(r), AtSomePeer)
  BY <1>2, <1>3, <1>4, <1>5 DEF Written
<1>8. Op(r) = "postChangeStatus" /\ ~ failed => Changed(r, Item(r), AtSomePeer)
  BY <1>2, <1>3, <1>5 DEF Changed, Carries, Op
<1>9. work[r].pc \in Active /\ FileDone(work[r], exec[r])
  BY <1>2 DEF Active, FileDone
<1> QED BY <1>1, <1>4, <1>6, <1>7, <1>8, <1>9, AfterCertificateInTold

-----------------------------------------------------------------------------
(* Steps of the client and of the network.                                 *)

(* A step that moves calls on, and leaves the handlers alone.              *)
LEMMA ClientTold ==
    ASSUME AnswerInv, AtSomePeer \subseteq AtSomePeer', UNCHANGED work,
           \A q \in Requests :
               /\ exec'[q].n = exec[q].n /\ exec'[q].tx = exec[q].tx
               /\ exec[q].stage # "idle" => exec'[q].stage # "idle"
    PROVE  AnswerInv'
<1> SUFFICES ASSUME NEW q \in Requests
             PROVE  Told(q, work[q], exec'[q], AtSomePeer')
  BY DEF AnswerInv
<1>1. Told(q, work[q], exec[q], AtSomePeer)
  BY DEF AnswerInv
<1>2. /\ exec'[q].n = exec[q].n /\ exec'[q].tx = exec[q].tx
      /\ exec[q].stage # "idle" => exec'[q].stage # "idle"
  OBVIOUS
<1>3. Told(q, work[q], exec'[q], AtSomePeer')
  BY <1>1, <1>2, ToldStays
<1> QED BY <1>3

(* Execute goes on.                                                        *)
LEMMA ExecuteStepTold ==
    ASSUME TypeInv, AnswerInv, AtSomePeer \subseteq AtSomePeer', UNCHANGED work,
           NEW r \in Requests, ExecuteStep(r)
    PROVE  AnswerInv'
<1>1. PICK stage \in Waiting \cup Returned : exec' = [exec EXCEPT ![r].stage = stage]
  BY ExecuteStepEffect DEF TypeInv
<1>2. stage # "idle"
  BY DEF Waiting, Returned
<1>3. ASSUME NEW q \in Requests
      PROVE  /\ exec'[q].n = exec[q].n /\ exec'[q].tx = exec[q].tx
             /\ exec[q].stage # "idle" => exec'[q].stage # "idle"
  <2>1. exec \in [Requests -> Call] /\ exec[q] \in Call
    BY DEF TypeInv, FabricTypeOK
  <2>2. exec'[q] = IF q = r THEN [exec[q] EXCEPT !.stage = stage] ELSE exec[q]
    BY <1>1, <2>1
  <2> QED BY <1>2, <2>1, <2>2 DEF Call
<1> QED BY <1>3, ClientTold

(* A block is published.                                                   *)
LEMMA DispatchTold ==
    ASSUME TypeInv, AnswerInv, AtSomePeer \subseteq AtSomePeer', UNCHANGED work, Dispatch
    PROVE  AnswerInv'
<1>1. ASSUME NEW q \in Requests
      PROVE  /\ exec'[q].n = exec[q].n /\ exec'[q].tx = exec[q].tx
             /\ exec[q].stage # "idle" => exec'[q].stage # "idle"
  <2>1. exec[q] \in Call /\ exec'[q] = Notify(exec[q], chain[seen + 1].tx)
    BY DEF TypeInv, FabricTypeOK, Dispatch
  <2> QED BY <2>1 DEF Notify, Call
<1> QED BY <1>1, ClientTold

(* A crash answers nobody and takes nothing back.                          *)
LEMMA CrashTold ==
    ASSUME TypeInv, AnswerInv, AtSomePeer \subseteq AtSomePeer', Crash
    PROVE  AnswerInv'
<1> SUFFICES ASSUME NEW q \in Requests
             PROVE  Told(q, work'[q], exec'[q], AtSomePeer')
  BY DEF AnswerInv
<1> DEFINE w == work[q]
           v == work'[q]
<1>1. w \in Handler /\ Told(q, w, exec[q], AtSomePeer)
  BY DEF TypeInv, AnswerInv
<1>2. exec'[q].n = exec[q].n
  BY DEF Crash, Restart, TypeInv, FabricTypeOK, Call
<1>3. CASE w.pc = "unsent"
  <2>1. v = w
    BY <1>3 DEF Crash
  <2>2. Told(q, w, [exec'[q] EXCEPT !.tx = exec[q].tx], AtSomePeer')
    <3>1. exec'[q] \in Call
      BY RestartType DEF Crash, TypeInv, FabricTypeOK
    <3> DEFINE f == [exec'[q] EXCEPT !.tx = exec[q].tx]
    <3>2. f.n = exec[q].n /\ f.tx = exec[q].tx
      BY <1>2, <3>1 DEF Call
    <3> HIDE DEF f
    <3>3. Told(q, w, f, AtSomePeer')
      BY <1>1, <1>3, <3>2, ToldStays
    <3> QED BY <3>3 DEF f
  <2> QED BY <1>2, <1>3, <2>1, <2>2 DEF Told, FileDone, Call
<1>4. CASE w.pc # "unsent"
  <2>1. v = [w EXCEPT !.pc = "done", !.hand = NoCert]
    BY <1>4 DEF Crash
  <2>2. /\ v.pc = "done" /\ v.job = w.job /\ v.idx = w.idx
        /\ v.answer = w.answer /\ v.marks = w.marks
    BY <1>1, <2>1 DEF Handler
  <2> HIDE DEF v
  <2>3. Told(q, w, exec[q], AtSomePeer')
    BY <1>1, ToldStays
  <2>4. MarksTold(q, v, AtSomePeer')
    BY <2>2, <2>3 DEF Told, MarksTold
  <2>5. FileDone(v, exec'[q]) => FileDone(w, exec[q])
    BY <2>2 DEF FileDone
  <2>6. Told(q, v, exec'[q], AtSomePeer')
    BY <1>2, <2>2, <2>3, <2>4, <2>5 DEF Told
  <2> QED BY <2>6 DEF v
<1> QED BY <1>3, <1>4

(* Nothing has been promised at the start.                                 *)
LEMMA InitTold ==
    ASSUME Init
    PROVE  AnswerInv
<1> SUFFICES ASSUME NEW r \in Requests PROVE Told(r, work[r], exec[r], AtSomePeer)
  BY DEF AnswerInv
<1>1. work[r] = Unsent /\ exec[r].n = 0
  BY DEF Init, FabricInit, Idle
<1>2. /\ work[r].pc = "unsent" /\ work[r].answer = NoAnswer /\ work[r].marks = <<>>
  BY <1>1 DEF Unsent
<1>3. NoAnswer \notin {200, 400, 401, 500}
  BY AnswerAssumption DEF Codes
<1>4. MarksTold(r, work[r], AtSomePeer) /\ ~ FileDone(work[r], exec[r])
  BY <1>2, <1>3 DEF MarksTold, FileDone
<1> QED BY <1>1, <1>2, <1>3, <1>4 DEF Told

(* Every step keeps the promises.                                          *)
LEMMA NextTold ==
    ASSUME ServiceInv, AnswerInv, [Next]_vars
    PROVE  AnswerInv'
<1>1. TypeInv /\ AtSomePeer \subseteq AtSomePeer'
  BY PeersKeep DEF ServiceInv, Inv
<1>2. ASSUME NEW r \in Requests, NEW job \in Jobs,
             \/ ReceiveCertificate(r, job) \/ ReceiveFile(r, job)
             \/ ReceiveStatuses(r, job) \/ ReceiveNoStatus(r, job)
      PROVE  AnswerInv'
  BY <1>1, <1>2, ReceiveTold, ReceiveFileTold
<1>3. ASSUME NEW r \in Requests, Reject(r) PROVE AnswerInv'
  BY <1>1, <1>3, RejectTold
<1>4. ASSUME NEW r \in Requests, NEW p \in Peers, CertificateOut(r, p) PROVE AnswerInv'
  BY <1>1, <1>4, CertificateOutTold
<1>5. ASSUME NEW r \in Requests, NEW p \in Peers, QueryFile(r, p) PROVE AnswerInv'
  <2>1. work[r].pc = "certIn" /\ HasFile(r, p) \in BOOLEAN /\ FALSE \in BOOLEAN
    BY <1>5 DEF QueryFile, HasFile
  <2> QED BY <1>1, <1>5, <2>1, CertificateInTold, CertificateInRefusedTold DEF QueryFile
<1>6. ASSUME NEW r \in Requests, QueryFileFails(r) PROVE AnswerInv'
  BY <1>1, <1>6, CertificateInTold, CertificateInRefusedTold DEF QueryFileFails
<1>7. ASSUME NEW r \in Requests,
             CertificateOutNothing(r) \/ FileExecuted(r) \/ CertificateExecuted(r)
      PROVE  AnswerInv'
  BY <1>1, <1>7, CertificateOutNothingTold, FileExecutedTold, CertificateExecutedTold
<1>8. ASSUME NEW r \in Requests, ExecuteStep(r), UNCHANGED work PROVE AnswerInv'
  BY <1>1, <1>8, ExecuteStepTold
<1>9. CASE Network /\ UNCHANGED work
  BY <1>1, <1>9, ClientTold DEF Network, clientVars
<1>10. CASE Dispatch /\ UNCHANGED work
  BY <1>1, <1>10, DispatchTold
<1>11. CASE Crash
  BY <1>1, <1>11, CrashTold
<1>12. CASE UNCHANGED vars
  BY <1>1, <1>12, ClientTold DEF vars, fabricVars, clientVars
<1> QED BY <1>2, <1>3, <1>4, <1>5, <1>6, <1>7, <1>8, <1>9, <1>10, <1>11, <1>12
        DEF Next, ClientStep, HandlerStep, AllDone

-----------------------------------------------------------------------------
(***************************************************************************)
(* Where bodies come from.                                                 *)
(***************************************************************************)

(* One of the first h blocks posts the body under this number.             *)
PostedBy(h, c, body) ==
    \E j \in 1 .. h :
        /\ chain[j].tx.fcn = "postCertificate"
        /\ chain[j].tx.certId = c
        /\ chain[j].tx.value.body = body
        /\ Op(chain[j].tx.id[1]) = "postCertificate"

(* A transaction that does not post a body has one posted before.          *)
Derived(tx, h) ==
    tx.fcn = "postCertificate" /\ Op(tx.id[1]) # "postCertificate" =>
        PostedBy(h, tx.certId, tx.value.body)

(* WritesAreDerived, strengthened to what handlers hold, calls carry, the   *)
(* pool keeps and each state of the chain shows.                           *)
StatesDerived ==
    \A h \in 0 .. Len(chain) : \A c \in Certs :
        StateAt(h).cert[c] # NoCert => PostedBy(h, c, StateAt(h).cert[c].body)

HandDerived(r) ==
    work[r].pc = "certIn" /\ Op(r) # "postCertificate" =>
        PostedBy(Len(chain), Item(r).certId, work[r].hand.body)

CallDerived(r) == exec[r].stage # "idle" => Derived(exec[r].tx, Len(chain))

DerivedInv ==
    /\ StatesDerived
    /\ \A r \in Requests : HandDerived(r) /\ CallDerived(r)
    /\ \A tx \in pool : Derived(tx, Len(chain))
    /\ WritesAreDerived

(* A request keeps the job it has received.                                *)
LEMMA JobStays ==
    ASSUME TypeInv, [Next]_vars, NEW q \in Requests, work[q].pc # "unsent"
    PROVE  work'[q].job = work[q].job
<1>1. work \in [Requests -> Handler] /\ work[q] \in Handler
  BY DEF TypeInv
<1>2. ASSUME NEW r \in Requests, NEW job \in Jobs,
             \/ ReceiveCertificate(r, job) \/ ReceiveFile(r, job)
             \/ ReceiveStatuses(r, job) \/ ReceiveNoStatus(r, job)
      PROVE  work'[q] = work[q]
  BY <1>1, <1>2 DEF ReceiveCertificate, ReceiveFile, ReceiveStatuses, ReceiveNoStatus
<1>3. ASSUME NEW r \in Requests, NEW code, Reply(r, code) PROVE work'[q].job = work[q].job
  <2>1. CASE q = r
    <3>1. work'[q] = Answered(work[q], code)
      BY <1>1, <1>3, <2>1 DEF Reply
    <3> QED BY <1>1, <3>1 DEF Answered, Handler
  <2>2. CASE q # r
    BY <1>1, <1>3, <2>2 DEF Reply
  <2> QED BY <2>1, <2>2
<1>4. ASSUME NEW r \in Requests, NEW marks, NextStatus(r, marks)
      PROVE  work'[q].job = work[q].job
  <2>1. CASE q = r
    <3>1. work'[q] = NextTurn(work[q], marks)
      BY <1>1, <1>4, <2>1 DEF NextStatus
    <3> QED BY <1>1, <3>1 DEF NextTurn, Handler
  <2>2. CASE q # r
    BY <1>1, <1>4, <2>2 DEF NextStatus
  <2> QED BY <2>1, <2>2
<1>5. ASSUME NEW r \in Requests, NEW failed, NEW code, AfterCertificateIn(r, failed, code)
      PROVE  work'[q].job = work[q].job
  BY <1>3, <1>4, <1>5 DEF AfterCertificateIn
<1>6. ASSUME NEW r \in Requests, NEW pc, NEW hand,
             work' = [work EXCEPT ![r].pc = pc, ![r].hand = hand]
      PROVE  work'[q].job = work[q].job
  BY <1>1, <1>6 DEF Handler
<1>7. ASSUME NEW r \in Requests, HandlerStep(r) PROVE work'[q].job = work[q].job
  <2>1. ASSUME NEW p \in Peers, CertificateOut(r, p) PROVE work'[q].job = work[q].job
    BY <1>6, <2>1 DEF CertificateOut
  <2>2. ASSUME NEW uploaded, CertificateIn(r, uploaded) PROVE work'[q].job = work[q].job
    BY <1>6, <2>2 DEF CertificateIn
  <2>3. ASSUME NEW uploaded, NEW failed, CertificateInRefused(r, uploaded, failed)
        PROVE  work'[q].job = work[q].job
    BY <1>5, <2>3 DEF CertificateInRefused
  <2>4. CASE CertificateOutNothing(r)
    BY <1>3, <1>4, <2>4 DEF CertificateOutNothing
  <2>5. CASE FileExecuted(r)
    <3>1. CASE work' = [work EXCEPT ![r].pc = "certOut"]
      BY <1>1, <3>1 DEF Handler
    <3> QED BY <1>3, <2>5, <3>1 DEF FileExecuted
  <2>6. CASE CertificateExecuted(r)
    BY <1>5, <2>6 DEF CertificateExecuted
  <2> QED BY <1>7, <2>1, <2>2, <2>3, <2>4, <2>5, <2>6 DEF HandlerStep, QueryFile, QueryFileFails
<1>8. CASE Crash
  BY <1>1, <1>8 DEF Crash, Handler
<1>9. CASE UNCHANGED work
  BY <1>9
<1> QED BY <1>2, <1>3, <1>7, <1>8, <1>9 DEF Next, ClientStep, Reject, AllDone, vars

(* Blocks stay where they are.                                             *)
LEMMA ChainKeeps ==
    ASSUME TypeInv, [Next]_vars
    PROVE  /\ Len(chain) \in Nat /\ Len(chain') \in Nat /\ Len(chain) <= Len(chain')
           /\ \A i \in 1 .. Len(chain) : chain'[i] = chain[i]
<1>1. LedgerTypeOK /\ Len(chain) \in Nat
  BY SentType DEF TypeInv, FabricTypeOK
<1>2. CASE Order
  <2>1. PICK tx \in pool :
           chain' = Append(chain, [tx |-> tx, db |-> PutState(TipState, tx)])
    BY <1>2 DEF Order
  <2> DEFINE block == [tx |-> tx, db |-> PutState(TipState, tx)]
  <2>2. block \in [tx : Tx, db : Database]
    BY <1>1, TipStateType, PutStateType DEF LedgerTypeOK
  <2> HIDE DEF block
  <2>3. chain' = Append(chain, block)
    BY <2>1 DEF block
  <2> QED BY <1>1, <2>2, <2>3, AppendProperties DEF LedgerTypeOK
<1>3. CASE UNCHANGED chain
  BY <1>1, <1>3
<1> QED BY <1>2, <1>3, OnlyOrderWrites

(* A request that has made a call keeps its operation.                     *)
LEMMA OpStays ==
    ASSUME ServiceInv, AnswerInv, [Next]_vars, NEW q \in Requests, exec[q].n # 0
    PROVE  Op(q)' = Op(q)
<1>1. work[q].pc # "unsent"
  BY DEF AnswerInv, Told
<1> QED BY <1>1, JobStays DEF ServiceInv, Inv, Op

(* So does the request of a transaction on its way or in a block.          *)
LEMMA SentOpStays ==
    ASSUME ServiceInv, AnswerInv, [Next]_vars, NEW tx \in Sent
    PROVE  Op(tx.id[1])' = Op(tx.id[1])
<1>1. PICK q \in Requests : \E k \in Nat : k < exec[q].n /\ tx.id = <<q, k>>
  BY DEF ServiceInv, ClientInv, IdsAreOfCalls
<1>2. tx.id[1] = q /\ exec[q].n # 0
  <2>1. PICK k \in Nat : k < exec[q].n /\ tx.id = <<q, k>>
    BY <1>1
  <2>2. exec[q].n \in Nat
    BY DEF ServiceInv, ClientInv, FabricTypeOK, Call
  <2> QED BY <2>1, <2>2
<1> QED BY <1>2, OpStays

(* What has been posted stays posted.                                      *)
LEMMA PostedStays ==
    ASSUME ServiceInv, AnswerInv, [Next]_vars,
           NEW h \in 0 .. Len(chain), NEW g \in Nat, h <= g, NEW c, NEW body,
           PostedBy(h, c, body)
    PROVE  PostedBy(g, c, body)'
<1>1. Len(chain) \in Nat /\ \A i \in 1 .. Len(chain) : chain'[i] = chain[i]
  BY ChainKeeps DEF ServiceInv, Inv
<1>2. PICK j \in 1 .. h : /\ chain[j].tx.fcn = "postCertificate"
                          /\ chain[j].tx.certId = c
                          /\ chain[j].tx.value.body = body
                          /\ Op(chain[j].tx.id[1]) = "postCertificate"
  BY DEF PostedBy
<1>3. j \in 1 .. Len(chain) /\ j \in 1 .. g
  BY <1>1
<1>4. chain[j].tx \in Sent /\ chain'[j] = chain[j]
  BY <1>1, <1>3 DEF Sent, ChainTx
<1>5. Op(chain[j].tx.id[1])' = Op(chain[j].tx.id[1])
  <2> DEFINE tx == chain[j].tx
  <2>1. tx.id[1] = chain'[j].tx.id[1]
    BY <1>4
  <2>2. \A u \in Sent : Op(u.id[1])' = Op(u.id[1])
    BY SentOpStays
  <2>3. work'[tx.id[1]].job.op = work[tx.id[1]].job.op
    BY <1>4, <2>2 DEF Op
  <2> QED BY <2>1, <2>3 DEF Op
<1> QED BY <1>2, <1>3, <1>4, <1>5 DEF PostedBy

(* So does what a transaction is derived from.                             *)
LEMMA DerivedStays ==
    ASSUME ServiceInv, AnswerInv, [Next]_vars, NEW tx, Op(tx.id[1])' = Op(tx.id[1]),
           Derived(tx, Len(chain))
    PROVE  Derived(tx, Len(chain))'
<1>1. Len(chain) \in 0 .. Len(chain) /\ Len(chain') \in Nat /\ Len(chain) <= Len(chain')
  BY ChainKeeps DEF ServiceInv, Inv
<1>2. CASE ~ (tx.fcn = "postCertificate" /\ Op(tx.id[1]) # "postCertificate")
  BY <1>2 DEF Derived
<1>3. CASE tx.fcn = "postCertificate" /\ Op(tx.id[1]) # "postCertificate"
  <2>1. PostedBy(Len(chain), tx.certId, tx.value.body)
    BY <1>3 DEF Derived
  <2>2. \A m \in Nat : Len(chain) <= m => PostedBy(m, tx.certId, tx.value.body)'
    BY <1>1, <2>1, PostedStays
  <2>3. PostedBy(Len(chain), tx.certId, tx.value.body)'
    <3>1. PICK m \in Nat : m = Len(chain')
      BY <1>1
    <3>2. PostedBy(m, tx.certId, tx.value.body)'
      BY <1>1, <2>2, <3>1
    <3> QED BY <3>1, <3>2 DEF PostedBy
  <2> QED BY <2>3 DEF Derived
<1> QED BY <1>2, <1>3

(* Where the transaction of a call comes from: the call was there before,   *)
(* or it is a file, or the certificate that CertificateIn was given        *)
(* (certificateIO.go:117-121, 207).                                        *)
LEMMA CallOrigin ==
    ASSUME TypeInv, [Next]_vars, NEW q \in Requests, exec'[q].stage # "idle"
    PROVE  \/ exec[q].stage # "idle" /\ exec'[q].tx = exec[q].tx
           \/ exec'[q].tx.fcn = "postUploadFile"
           \/ /\ work[q].pc = "certIn"
              /\ exec'[q].tx.id[1] = q
              /\ exec'[q].tx.certId = Item(q).certId
              /\ exec'[q].tx.value.body = work[q].hand.body
<1> DEFINE Known == exec[q].stage # "idle" /\ exec'[q].tx = exec[q].tx
           Filed == exec'[q].tx.fcn = "postUploadFile"
           Given == /\ work[q].pc = "certIn"
                    /\ exec'[q].tx.id[1] = q
                    /\ exec'[q].tx.certId = Item(q).certId
                    /\ exec'[q].tx.value.body = work[q].hand.body
<1>1. exec \in [Requests -> Call] /\ exec[q] \in Call /\ FabricTypeOK /\ HasTx
  BY DEF TypeInv, FabricTypeOK
<1>2. ASSUME exec'[q] = exec[q] PROVE Known
  BY <1>2
<1>3. ASSUME NEW r \in Requests, NEW job \in Jobs, ReceiveFile(r, job) PROVE Known \/ Filed
  <2>1. /\ exec'[r].tx = [id |-> <<r, exec[r].n>>, fcn |-> "postUploadFile",
                          certId |-> job.items[1].certId, value |-> job.items[1].value]
        /\ \A s \in Requests \ {r} : exec'[s] = exec[s]
    BY <1>1, <1>3, EnterEffect DEF ReceiveFile
  <2>2. exec'[r].tx.fcn = "postUploadFile"
    BY <2>1
  <2> QED BY <1>2, <2>1, <2>2
<1>4. ASSUME NEW r \in Requests, NEW uploaded \in BOOLEAN,
             work[r].pc = "certIn", CertificateIn(r, uploaded)
      PROVE  Known \/ Given
  <2> DEFINE cert == [work[r].hand EXCEPT !.hasUpload = uploaded]
  <2>1. work[r].hand \in Certificate
    BY <1>4 DEF TypeInv, HandlerOK
  <2>2. cert.body = work[r].hand.body
    BY <2>1 DEF Certificate
  <2>3. Enter(r, "postCertificate", Item(r).certId, cert)
    BY <1>4 DEF CertificateIn
  <2> HIDE DEF cert
  <2>4. /\ exec'[r].tx = [id |-> <<r, exec[r].n>>, fcn |-> "postCertificate",
                          certId |-> Item(r).certId, value |-> cert]
        /\ \A s \in Requests \ {r} : exec'[s] = exec[s]
    BY <1>1, <2>3, EnterEffect
  <2>5. exec'[r].tx.id[1] = r /\ exec'[r].tx.certId = Item(r).certId
        /\ exec'[r].tx.value = cert
    BY <2>4
  <2> QED BY <1>2, <1>4, <2>2, <2>4, <2>5
<1>5. ASSUME UNCHANGED fabricVars PROVE Known
  BY <1>5 DEF fabricVars, clientVars
<1>6. ASSUME NEW r \in Requests, HandlerStep(r) PROVE Known \/ Given
  BY <1>4, <1>5, <1>6, HandlerStepFabric
<1>7. ASSUME NEW r \in Requests, ExecuteStep(r) PROVE Known
  <2>1. PICK stage \in Waiting \cup Returned : exec' = [exec EXCEPT ![r].stage = stage]
    BY <1>1, <1>7, ExecuteStepEffect
  <2>2. exec[r].stage # "idle"
    BY <1>1, <1>7, ExecuteStepEffect DEF Waiting
  <2>3. CASE q = r
    <3>1. exec'[q] = [exec[q] EXCEPT !.stage = stage]
      BY <1>1, <2>1, <2>3
    <3> QED BY <1>1, <2>2, <2>3, <3>1 DEF Call
  <2>4. CASE q # r
    BY <1>1, <1>2, <2>1, <2>4
  <2> QED BY <2>3, <2>4
<1>8. ASSUME Dispatch PROVE Known
  <2>1. exec'[q] = Notify(exec[q], chain[seen + 1].tx)
    BY <1>8 DEF Dispatch
  <2> QED BY <1>1, <2>1 DEF Notify, Call
<1>9. ASSUME Crash PROVE Known
  <2>1. exec'[q].stage = "idle"
    BY <1>1, <1>9 DEF Crash, Restart, Call
  <2> QED BY <2>1
<1>10. ASSUME Network PROVE Known
  BY <1>10 DEF Network, clientVars
<1>11. ASSUME UNCHANGED vars PROVE Known
  BY <1>5, <1>11 DEF vars
<1>12. ASSUME NEW r \in Requests, NEW job \in Jobs,
              \/ ReceiveCertificate(r, job) \/ ReceiveStatuses(r, job)
              \/ ReceiveNoStatus(r, job)
       PROVE  Known
  BY <1>5, <1>12 DEF ReceiveCertificate, ReceiveStatuses, ReceiveNoStatus
<1>13. ASSUME NEW r \in Requests, Reject(r) PROVE Known
  BY <1>5, <1>13 DEF Reject
<1> HIDE DEF Known, Filed, Given
<1>14. Known \/ Filed \/ Given
  <2>1. ASSUME NEW r \in Requests, ClientStep(r) PROVE Known \/ Given
    BY <1>6, <1>7, <2>1 DEF ClientStep
  <2>2. ASSUME NEW r \in Requests, NEW job \in Jobs,
               \/ ReceiveCertificate(r, job) \/ ReceiveFile(r, job)
               \/ ReceiveStatuses(r, job) \/ ReceiveNoStatus(r, job)
        PROVE  Known \/ Filed
    BY <1>3, <1>12, <2>2
  <2>3. CASE Next
    BY <1>8, <1>9, <1>10, <1>11, <1>13, <2>1, <2>2, <2>3 DEF Next, AllDone
  <2> QED BY <1>11, <2>3
<1> QED BY <1>14 DEF Known, Filed, Given

(* Where the certificate that CertificateIn is given comes from: what a     *)
(* peer has under the number, unless the client sent it                    *)
(* (certificateIO.go:215-223, 314-330).                                    *)
LEMMA HandOrigin ==
    ASSUME TypeInv, [Next]_vars, NEW q \in Requests,
           work'[q].pc = "certIn", Op(q)' # "postCertificate"
    PROVE  \/ work'[q] = work[q]
           \/ \E p \in Peers :
                 /\ Item(q).certId \in Certs /\ Item(q)' = Item(q)
                 /\ PeerState(p).cert[Item(q).certId] # NoCert
                 /\ work'[q].hand.body = PeerState(p).cert[Item(q).certId].body
<1> DEFINE Still  == work'[q] = work[q]
           Read(p) == /\ Item(q).certId \in Certs /\ Item(q)' = Item(q)
                      /\ PeerState(p).cert[Item(q).certId] # NoCert
                      /\ work'[q].hand.body = PeerState(p).cert[Item(q).certId].body
<1>1. work \in [Requests -> Handler] /\ work[q] \in Handler
  BY DEF TypeInv
<1>2. ASSUME NEW r \in Requests, NEW v, work' = [work EXCEPT ![r] = v], v.pc # "certIn"
      PROVE  Still
  BY <1>1, <1>2
<1>3. ASSUME NEW r \in Requests, NEW code, Reply(r, code) PROVE Still
  <2>1. work' = [work EXCEPT ![r] = Answered(work[r], code)]
    BY <1>3 DEF Reply
  <2>2. Answered(work[r], code).pc # "certIn"
    BY <1>1 DEF Answered, Handler
  <2> QED BY <1>2, <2>1, <2>2
<1>4. ASSUME NEW r \in Requests, NEW marks, NextStatus(r, marks) PROVE Still
  <2>1. work' = [work EXCEPT ![r] = NextTurn(work[r], marks)]
    BY <1>4 DEF NextStatus
  <2>2. NextTurn(work[r], marks).pc # "certIn"
    BY <1>1 DEF NextTurn, Handler
  <2> QED BY <1>2, <2>1, <2>2
<1>5. ASSUME NEW r \in Requests, NEW failed, NEW code, AfterCertificateIn(r, failed, code)
      PROVE  Still
  BY <1>3, <1>4, <1>5 DEF AfterCertificateIn
<1>6. ASSUME NEW r \in Requests, NEW job \in Jobs,
             ReceiveStatuses(r, job) \/ ReceiveNoStatus(r, job) \/ ReceiveFile(r, job)
      PROVE  Still
  <2>1. ASSUME ReceiveStatuses(r, job) PROVE Still
    <3> DEFINE v == [Unsent EXCEPT !.pc = "certOut", !.job = job, !.idx = 1,
                        !.marks = [i \in DOMAIN job.items |-> job.items[i].isChangedOnChain]]
    <3>1. v.pc # "certIn"
      BY DEF Unsent
    <3>2. work' = [work EXCEPT ![r] = v]
      BY <2>1 DEF ReceiveStatuses
    <3> HIDE DEF v
    <3> QED BY <1>2, <3>1, <3>2
  <2>2. ASSUME ReceiveNoStatus(r, job) PROVE Still
    BY <1>2, <2>2 DEF ReceiveNoStatus, Unsent
  <2>3. ASSUME ReceiveFile(r, job) PROVE Still
    BY <1>2, <2>3 DEF ReceiveFile, Unsent
  <2> QED BY <1>6, <2>1, <2>2, <2>3
<1>7. ASSUME NEW r \in Requests, NEW job \in Jobs, ReceiveCertificate(r, job) PROVE Still
  <2>1. CASE q = r
    <3>1. work'[q].job = job /\ job.op = "postCertificate"
      BY <1>1, <1>7, <2>1 DEF ReceiveCertificate, Unsent
    <3> QED BY <3>1 DEF Op
  <2>2. CASE q # r
    BY <1>1, <1>7, <2>2 DEF ReceiveCertificate
  <2> QED BY <2>1, <2>2
<1>8. ASSUME NEW r \in Requests, NEW p \in Peers, CertificateOut(r, p) PROVE Still \/ Read(p)
  <2>1. CASE q = r
    <3> DEFINE cert == PeerState(p).cert[Item(q).certId]
    <3>1. work[q].pc = "certOut" /\ cert # NoCert
      BY <1>8, <2>1 DEF CertificateOut
    <3>2. Item(q).certId \in Certs
      BY <3>1, ItemType DEF Active
    <3>3. cert \in Certificate
      BY <3>1, <3>2, PeerStateType DEF TypeInv, FabricTypeOK, Database
    <3>4. work'[q] = [work[q] EXCEPT !.pc = "certIn", !.hand = Amend(q, cert)]
      BY <1>1, <1>8, <2>1 DEF CertificateOut
    <3>5. work'[q].hand = Amend(q, cert) /\ work'[q].job = work[q].job
          /\ work'[q].idx = work[q].idx
      BY <1>1, <3>4 DEF Handler
    <3> HIDE DEF cert
    <3>6. Amend(q, cert).body = cert.body
      BY <3>3 DEF Amend, Certificate
    <3>7. Item(q)' = Item(q)
      BY <3>5 DEF Item
    <3> QED BY <3>1, <3>2, <3>5, <3>6, <3>7 DEF cert
  <2>2. CASE q # r
    BY <1>1, <1>8, <2>2 DEF CertificateOut
  <2> QED BY <2>1, <2>2
<1>9. ASSUME NEW r \in Requests, NEW uploaded, CertificateIn(r, uploaded) PROVE Still
  <2>1. work' = [work EXCEPT ![r] = [work[r] EXCEPT !.pc = "execute", !.hand = NoCert]]
    BY <1>1, <1>9 DEF CertificateIn
  <2>2. [work[r] EXCEPT !.pc = "execute", !.hand = NoCert].pc # "certIn"
    BY <1>1 DEF Handler
  <2> QED BY <1>2, <2>1, <2>2
<1>10. ASSUME NEW r \in Requests, NEW uploaded, NEW failed,
              CertificateInRefused(r, uploaded, failed)
       PROVE  Still
  BY <1>5, <1>10 DEF CertificateInRefused
<1>11. ASSUME NEW r \in Requests, FileExecuted(r) PROVE Still
  <2>1. CASE work' = [work EXCEPT ![r].pc = "certOut"]
    <3>1. work' = [work EXCEPT ![r] = [work[r] EXCEPT !.pc = "certOut"]]
      BY <1>1, <2>1
    <3>2. [work[r] EXCEPT !.pc = "certOut"].pc # "certIn"
      BY <1>1 DEF Handler
    <3> QED BY <1>2, <3>1, <3>2
  <2> QED BY <1>3, <1>11, <2>1 DEF FileExecuted
<1>12. ASSUME NEW r \in Requests,
              CertificateExecuted(r) \/ CertificateOutNothing(r) \/ Reject(r)
       PROVE  Still
  BY <1>3, <1>4, <1>5, <1>12 DEF CertificateExecuted, CertificateOutNothing, Reject
<1>13. ASSUME Crash PROVE Still
  <2>1. work'[q] = work[q] \/ work'[q].pc = "done"
    BY <1>1, <1>13 DEF Crash, Handler
  <2> QED BY <2>1
<1>14. ASSUME UNCHANGED work PROVE Still
  BY <1>14
<1> HIDE DEF Still, Read
<1>15. Still \/ \E p \in Peers : Read(p)
  <2>1. ASSUME NEW r \in Requests, QueryFileFails(r) \/ \E p \in Peers : QueryFile(r, p)
        PROVE  Still
    BY <1>9, <1>10, <2>1 DEF QueryFile, QueryFileFails
  <2>2. ASSUME NEW r \in Requests, HandlerStep(r) PROVE Still \/ \E p \in Peers : Read(p)
    BY <1>8, <1>11, <1>12, <2>1, <2>2 DEF HandlerStep
  <2>3. ASSUME NEW r \in Requests, NEW job \in Jobs,
               \/ ReceiveCertificate(r, job) \/ ReceiveFile(r, job)
               \/ ReceiveStatuses(r, job) \/ ReceiveNoStatus(r, job)
        PROVE  Still
    BY <1>6, <1>7, <2>3
  <2>4. CASE Next
    BY <1>12, <1>13, <1>14, <2>2, <2>3, <2>4 DEF Next, ClientStep, AllDone, vars
  <2>5. CASE UNCHANGED vars
    BY <1>14, <2>5 DEF vars
  <2> QED BY <2>4, <2>5
<1> QED BY <1>15 DEF Still, Read


(* What enters the pool is the transaction of a call.                      *)
LEMMA PoolFrom ==
    ASSUME TypeInv, [Next]_vars, NEW tx \in pool'
    PROVE  tx \in pool \/ \E r \in Requests : exec[r].stage # "idle" /\ tx = exec[r].tx
<1>1. ASSUME NEW r \in Requests, HandlerStep(r) PROVE pool' = pool
  BY <1>1, HandlerStepFabric DEF CertificateIn, Enter, fabricVars, ledgerVars
<1>2. ASSUME NEW r \in Requests, ExecuteStep(r)
      PROVE  (pool' = pool \/ pool' = pool \cup {exec[r].tx}) /\ exec[r].stage # "idle"
  BY <1>2, ExecuteStepEffect DEF TypeInv, Waiting
<1>3. ASSUME NEW r \in Requests, NEW job \in Jobs,
             \/ ReceiveCertificate(r, job) \/ ReceiveFile(r, job)
             \/ ReceiveStatuses(r, job) \/ ReceiveNoStatus(r, job)
      PROVE  pool' = pool
  BY <1>3 DEF ReceiveCertificate, ReceiveFile, ReceiveStatuses, ReceiveNoStatus, Enter,
              fabricVars, ledgerVars
<1>4. ASSUME NEW r \in Requests, Reject(r) PROVE pool' = pool
  BY <1>4 DEF Reject, fabricVars, ledgerVars
<1>5. ASSUME Dispatch \/ Crash PROVE pool' = pool
  BY <1>5 DEF Dispatch, Crash, Restart, ledgerVars
<1>6. ASSUME Network PROVE pool' \subseteq pool
  BY <1>6 DEF Network, Order, PeerCommit
<1>7. ASSUME UNCHANGED vars PROVE pool' = pool
  BY <1>7 DEF vars, fabricVars, ledgerVars
<1> QED BY <1>1, <1>2, <1>3, <1>4, <1>5, <1>6, <1>7 DEF Next, ClientStep, AllDone

-----------------------------------------------------------------------------
(* What is posted by some block is posted by then.                         *)
LEMMA PostedAtTip ==
    ASSUME ServiceInv, AnswerInv, [Next]_vars, NEW h \in 0 .. Len(chain), NEW c, NEW body,
           PostedBy(h, c, body)
    PROVE  PostedBy(Len(chain), c, body)'
<1>1. Len(chain') \in Nat /\ \A g \in 0 .. Len(chain) : g <= Len(chain')
  BY ChainKeeps DEF ServiceInv, Inv
<1>2. PICK m \in Nat : m = Len(chain')
  BY <1>1
<1>3. PostedBy(m, c, body)'
  BY <1>1, <1>2, PostedStays
<1> QED BY <1>2, <1>3 DEF PostedBy

(* What the pool holds after a step is derived.                            *)
LEMMA PoolDerived ==
    ASSUME ServiceInv, AnswerInv, DerivedInv, [Next]_vars
    PROVE  \A tx \in pool' : Derived(tx, Len(chain))'
<1> SUFFICES ASSUME NEW tx \in pool' PROVE Derived(tx, Len(chain))'
  OBVIOUS
<1>1. CASE tx \in pool
  <2>1. tx \in Sent /\ Derived(tx, Len(chain))
    BY <1>1 DEF Sent, DerivedInv
  <2>2. Op(tx.id[1])' = Op(tx.id[1])
    BY <2>1, SentOpStays
  <2> QED BY <2>1, <2>2, DerivedStays
<1>2. ASSUME NEW r \in Requests, exec[r].stage # "idle", tx = exec[r].tx
      PROVE  Derived(tx, Len(chain))'
  <2>1. Derived(tx, Len(chain))
    BY <1>2 DEF DerivedInv, CallDerived
  <2>2. tx.id[1] = r /\ exec[r].n # 0
    BY <1>2 DEF ServiceInv, ClientInv, IdsAreOfCalls
  <2>3. Op(tx.id[1])' = Op(tx.id[1])
    BY <2>2, OpStays
  <2> QED BY <2>1, <2>3, DerivedStays
<1> QED BY <1>1, <1>2, PoolFrom DEF ServiceInv, Inv

(* So is what a call carries.                                              *)
LEMMA CallsDerived ==
    ASSUME ServiceInv, AnswerInv, DerivedInv, [Next]_vars, NEW q \in Requests
    PROVE  CallDerived(q)'
<1> SUFFICES ASSUME exec'[q].stage # "idle" PROVE Derived(exec[q].tx, Len(chain))'
  BY DEF CallDerived
<1>1. PICK tx : tx = exec'[q].tx
  OBVIOUS
<1>2. Derived(tx, Len(chain))'
  <2>1. CASE exec[q].stage # "idle" /\ tx = exec[q].tx
    <3>1. Derived(tx, Len(chain))
      BY <2>1 DEF DerivedInv, CallDerived
    <3>2. tx.id[1] = q /\ exec[q].n # 0
      BY <2>1 DEF ServiceInv, ClientInv, IdsAreOfCalls
    <3>3. Op(tx.id[1])' = Op(tx.id[1])
      BY <3>2, OpStays
    <3> QED BY <3>1, <3>3, DerivedStays
  <2>2. CASE tx.fcn = "postUploadFile"
    BY <2>2 DEF Derived
  <2>3. CASE /\ work[q].pc = "certIn"
             /\ tx.id[1] = q
             /\ tx.certId = Item(q).certId
             /\ tx.value.body = work[q].hand.body
    <3>1. Op(q)' = Op(q)
      BY <2>3, JobStays DEF Op, ServiceInv, Inv
    <3>2. CASE Op(q) # "postCertificate"
      <4>1. PostedBy(Len(chain), tx.certId, tx.value.body)
        BY <2>3, <3>2 DEF DerivedInv, HandDerived
      <4>2. Len(chain) \in 0 .. Len(chain)
        BY ChainKeeps DEF ServiceInv, Inv
      <4>3. PostedBy(Len(chain), tx.certId, tx.value.body)'
        BY <4>1, <4>2, PostedAtTip
      <4> QED BY <4>3 DEF Derived
    <3>3. CASE Op(q) = "postCertificate"
      BY <2>3, <3>1, <3>3 DEF Derived
    <3> QED BY <3>2, <3>3
  <2> QED BY <1>1, <2>1, <2>2, <2>3, CallOrigin DEF ServiceInv, Inv
<1> QED BY <1>1, <1>2 DEF Derived, PostedBy

(* So is what CertificateIn has been given.                                *)
LEMMA HandsDerived ==
    ASSUME ServiceInv, AnswerInv, DerivedInv, [Next]_vars, NEW q \in Requests
    PROVE  HandDerived(q)'
<1> SUFFICES ASSUME work'[q].pc = "certIn", Op(q)' # "postCertificate"
             PROVE  PostedBy(Len(chain), Item(q).certId, work[q].hand.body)'
  BY DEF HandDerived
<1>1. TypeInv /\ LedgerTypeOK /\ Len(chain) \in 0 .. Len(chain)
  BY ChainKeeps DEF ServiceInv, Inv, TypeInv, FabricTypeOK
<1>2. PICK c, body : c = Item(q)'.certId /\ body = work'[q].hand.body
  OBVIOUS
<1>3. PostedBy(Len(chain), c, body)'
  <2>1. CASE work'[q] = work[q]
    <3>1. Item(q)' = Item(q) /\ Op(q)' = Op(q)
      BY <2>1 DEF Item, Op
    <3>2. PostedBy(Len(chain), c, body)
      BY <1>2, <2>1, <3>1 DEF DerivedInv, HandDerived
    <3> QED BY <1>1, <3>2, PostedAtTip
  <2>2. ASSUME NEW p \in Peers, Item(q).certId \in Certs, Item(q)' = Item(q),
               PeerState(p).cert[Item(q).certId] # NoCert,
               work'[q].hand.body = PeerState(p).cert[Item(q).certId].body
        PROVE  PostedBy(Len(chain), c, body)'
    <3>1. height[p] \in 0 .. Len(chain) /\ PeerState(p) = StateAt(height[p])
      BY <1>1, Tip
    <3>2. PICK h \in 0 .. Len(chain) : h = height[p]
      BY <3>1
    <3>3. c \in Certs /\ StateAt(h).cert[c] # NoCert /\ body = StateAt(h).cert[c].body
      BY <1>2, <2>2, <3>1, <3>2
    <3>4. PostedBy(h, c, body)
      BY <3>3 DEF DerivedInv, StatesDerived
    <3> QED BY <3>4, PostedAtTip
  <2> QED BY <1>1, <2>1, <2>2, HandOrigin
<1> QED BY <1>2, <1>3 DEF PostedBy


(* A block of the pool leads to a state in which every certificate has     *)
(* been posted, and stands behind what it is derived from.                 *)
LEMMA OrderDerived ==
    ASSUME ServiceInv, AnswerInv, DerivedInv, [Next]_vars, Order
    PROVE  StatesDerived' /\ WritesAreDerived'
<1>1. TypeInv /\ LedgerTypeOK /\ Len(chain) \in Nat
  BY ChainKeeps DEF ServiceInv, Inv, TypeInv, FabricTypeOK
<1>2. PICK tx \in pool :
         chain' = Append(chain, [tx |-> tx, db |-> PutState(TipState, tx)])
  BY DEF Order
<1> DEFINE block == [tx |-> tx, db |-> PutState(TipState, tx)]
<1>3. tx \in Tx /\ tx \in Sent /\ Derived(tx, Len(chain)) /\ TipState \in Database
  BY <1>1, TipStateType DEF LedgerTypeOK, Sent, DerivedInv
<1>4. block \in [tx : Tx, db : Database] /\ block.tx = tx
  BY <1>3, PutStateType
<1> HIDE DEF block
<1>5. /\ Len(chain') = Len(chain) + 1
      /\ \A i \in 1 .. Len(chain) : chain'[i] = chain[i]
      /\ chain'[Len(chain) + 1].tx = tx
  <2>1. chain' = Append(chain, block)
    BY <1>2 DEF block
  <2> QED BY <1>1, <1>4, <2>1, AppendProperties DEF LedgerTypeOK
<1>6. PICK n \in Nat : n = Len(chain)
  BY <1>1
<1>7. Op(tx.id[1])' = Op(tx.id[1])
  BY <1>3, SentOpStays
<1>8. ASSUME NEW h \in 0 .. n, NEW g \in Nat, h <= g, NEW c, NEW body, PostedBy(h, c, body)
      PROVE  PostedBy(g, c, body)'
  BY <1>6, <1>8, PostedStays
<1>9. Derived(tx, n)'
  <2>1. CASE tx.fcn = "postCertificate" /\ Op(tx.id[1]) # "postCertificate"
    <3>1. PostedBy(n, tx.certId, tx.value.body)
      BY <1>3, <1>6, <2>1 DEF Derived
    <3>2. PostedBy(n, tx.certId, tx.value.body)'
      BY <1>6, <1>8, <3>1
    <3> QED BY <3>2 DEF Derived
  <2> QED BY <1>7, <2>1 DEF Derived
<1>10. WritesAreDerived'
  <2> SUFFICES ASSUME NEW i \in 1 .. n + 1
               PROVE  Derived(chain[i].tx, i - 1)'
    BY <1>5, <1>6 DEF WritesAreDerived, Derived, PostedBy
  <2>1. CASE i = n + 1
    BY <1>5, <1>6, <1>9, <2>1 DEF Derived, PostedBy
  <2>2. CASE i \in 1 .. n
    <3>1. PICK t : t = chain[i].tx
      OBVIOUS
    <3>2. chain'[i].tx = t /\ t \in Sent /\ i - 1 \in 0 .. n /\ i - 1 \in Nat
      BY <1>5, <1>6, <2>2, <3>1 DEF Sent, ChainTx
    <3>3. Op(t.id[1])' = Op(t.id[1])
      BY <3>2, SentOpStays
    <3>4. Derived(t, i - 1)
      BY <1>6, <2>2, <3>1 DEF DerivedInv, WritesAreDerived, Derived, PostedBy
    <3>5. CASE t.fcn = "postCertificate" /\ Op(t.id[1]) # "postCertificate"
      <4>1. PostedBy(i - 1, t.certId, t.value.body)
        BY <3>4, <3>5 DEF Derived
      <4>2. PostedBy(i - 1, t.certId, t.value.body)'
        BY <1>8, <3>2, <4>1
      <4> QED BY <3>2, <4>2 DEF Derived, PostedBy
    <3>6. CASE ~ (t.fcn = "postCertificate" /\ Op(t.id[1]) # "postCertificate")
      BY <3>2, <3>3, <3>6 DEF Derived
    <3> QED BY <3>5, <3>6
  <2> QED BY <1>6, <2>1, <2>2
<1>11. /\ \A h \in 0 .. n : StateAt(h)' = StateAt(h)
       /\ \A h : h = n + 1 => StateAt(h)' = PutState(TipState, tx)
       /\ TipState = StateAt(n)
  BY <1>1, <1>2, <1>3, <1>6, OrderStates DEF TipState
<1>12. ASSUME NEW h \in 0 .. n, NEW g \in Nat, h <= g,
              NEW c \in Certs, StateAt(h).cert[c] # NoCert
       PROVE  PostedBy(g, c, StateAt(h).cert[c].body)'
  <2>1. PICK body : body = StateAt(h).cert[c].body
    OBVIOUS
  <2>2. PostedBy(h, c, body)
    BY <1>6, <1>12, <2>1 DEF DerivedInv, StatesDerived
  <2>3. PostedBy(g, c, body)'
    BY <1>8, <1>12, <2>2
  <2>4. StateAt(h)' = StateAt(h)
    BY <1>11
  <2> QED BY <2>1, <2>3, <2>4 DEF PostedBy
<1>13. StatesDerived'
  <2> SUFFICES ASSUME NEW h \in 0 .. n + 1, NEW c \in Certs, StateAt(h)'.cert[c] # NoCert
               PROVE  PostedBy(h, c, StateAt(h).cert[c].body)'
    BY <1>5, <1>6 DEF StatesDerived
  <2>1. CASE h \in 0 .. n
    <3>1. StateAt(h)' = StateAt(h)
      BY <1>11, <2>1
    <3> QED BY <1>12, <2>1, <3>1
  <2>2. CASE h = n + 1
    <3>1. StateAt(h)' = PutState(TipState, tx) /\ h \in Nat
      BY <1>6, <1>11, <2>2
    <3> DEFINE db  == TipState
               new == PutState(db, tx)
    <3>0. /\ db.cert \in [Certs -> Certificate \cup {NoCert}]
          /\ \/ /\ tx.fcn = "postCertificate"
                /\ new.cert = [db.cert EXCEPT ![tx.certId] = tx.value]
             \/ tx.fcn = "postUploadFile" /\ new.cert = db.cert
      BY <1>3, PutStateWrites DEF Database
    <3>4. StateAt(h)'.cert = new.cert
      BY <3>1
    <3> HIDE DEF db, new
    <3>2. CASE tx.fcn = "postCertificate" /\ c = tx.certId
      <4>1. StateAt(h)'.cert[c] = tx.value
        BY <3>0, <3>2, <3>4
      <4>2. CASE Op(tx.id[1]) = "postCertificate"
        <5>1. h \in 1 .. h /\ chain'[h].tx = tx
          BY <1>5, <1>6, <2>2
        <5> QED BY <1>7, <3>2, <4>1, <4>2, <5>1 DEF PostedBy
      <4>3. CASE Op(tx.id[1]) # "postCertificate"
        <5>1. PostedBy(n, tx.certId, tx.value.body)
          BY <1>3, <1>6, <3>2, <4>3 DEF Derived
        <5>2. PostedBy(h, tx.certId, tx.value.body)'
          BY <1>6, <1>8, <2>2, <5>1
        <5> QED BY <3>2, <4>1, <5>2 DEF PostedBy
      <4> QED BY <4>2, <4>3
    <3>3. CASE ~ (tx.fcn = "postCertificate" /\ c = tx.certId)
      <4>1. StateAt(h)'.cert[c] = StateAt(n).cert[c]
        BY <1>11, <3>0, <3>3, <3>4 DEF db
      <4>2. PICK body : body = StateAt(n).cert[c].body
        OBVIOUS
      <4>3. PostedBy(n, c, body)
        BY <1>6, <4>1, <4>2 DEF DerivedInv, StatesDerived
      <4>4. PostedBy(h, c, body)'
        BY <1>6, <1>8, <2>2, <3>1, <4>3
      <4> QED BY <4>1, <4>2, <4>4 DEF PostedBy
    <3> QED BY <3>2, <3>3
  <2> QED BY <1>6, <2>1, <2>2
<1> QED BY <1>10, <1>13

(* A step that leaves the chain alone leaves both standing.                *)
LEMMA SameChainDerived ==
    ASSUME ServiceInv, AnswerInv, DerivedInv, [Next]_vars, UNCHANGED chain
    PROVE  StatesDerived' /\ WritesAreDerived'
<1>1. PICK n \in Nat : n = Len(chain) /\ n = Len(chain')
  BY ChainKeeps DEF ServiceInv, Inv
<1>2. ASSUME NEW h \in 0 .. n, NEW c, NEW body, PostedBy(h, c, body)
      PROVE  PostedBy(h, c, body)'
  <2>1. h \in Nat /\ h <= h
    OBVIOUS
  <2> QED BY <1>1, <1>2, <2>1, PostedStays
<1>3. StatesDerived'
  <2> SUFFICES ASSUME NEW h \in 0 .. n, NEW c \in Certs, StateAt(h)'.cert[c] # NoCert
               PROVE  PostedBy(h, c, StateAt(h).cert[c].body)'
    BY <1>1 DEF StatesDerived
  <2>1. StateAt(h)' = StateAt(h)
    BY DEF StateAt, GenesisState
  <2>2. PICK body : body = StateAt(h).cert[c].body
    OBVIOUS
  <2>3. PostedBy(h, c, body)
    BY <1>1, <2>1, <2>2 DEF DerivedInv, StatesDerived
  <2>4. PostedBy(h, c, body)'
    BY <1>2, <2>3
  <2> QED BY <2>1, <2>2, <2>4 DEF PostedBy
<1>4. WritesAreDerived'
  <2> SUFFICES ASSUME NEW i \in 1 .. n PROVE Derived(chain[i].tx, i - 1)'
    BY <1>1 DEF WritesAreDerived, Derived, PostedBy
  <2>1. PICK t : t = chain[i].tx
    OBVIOUS
  <2>2. t \in Sent /\ i - 1 \in 0 .. n
    BY <1>1, <2>1 DEF Sent, ChainTx
  <2>3. Op(t.id[1])' = Op(t.id[1])
    BY <2>2, SentOpStays
  <2>4. Derived(t, i - 1)
    BY <1>1, <2>1 DEF DerivedInv, WritesAreDerived, Derived, PostedBy
  <2>5. CASE t.fcn = "postCertificate" /\ Op(t.id[1]) # "postCertificate"
    <3>1. PostedBy(i - 1, t.certId, t.value.body)
      BY <2>4, <2>5 DEF Derived
    <3>2. PostedBy(i - 1, t.certId, t.value.body)'
      BY <1>2, <2>2, <3>1
    <3> QED BY <2>1, <3>2 DEF Derived, PostedBy
  <2>6. CASE ~ (t.fcn = "postCertificate" /\ Op(t.id[1]) # "postCertificate")
    BY <2>1, <2>3, <2>6 DEF Derived
  <2> QED BY <2>5, <2>6
<1> QED BY <1>3, <1>4

(* Nothing is written at the start.                                        *)
LEMMA InitDerived ==
    ASSUME Init
    PROVE  DerivedInv
<1>1. Len(chain) = 0 /\ pool = {}
  BY EmptySeq DEF Init, FabricInit, LedgerInit
<1>2. \A r \in Requests : work[r].pc = "unsent" /\ exec[r].stage = "idle"
  BY DEF Init, FabricInit, Idle, Unsent
<1>3. StatesDerived
  <2>1. \A h \in 0 .. Len(chain) : \A c \in Certs : StateAt(h).cert[c] = NoCert
    BY <1>1 DEF StateAt, GenesisState
  <2> QED BY <2>1 DEF StatesDerived
<1> QED BY <1>1, <1>2, <1>3 DEF DerivedInv, HandDerived, CallDerived, WritesAreDerived

(* Every step writes only what is derived.                                 *)
LEMMA NextDerived ==
    ASSUME ServiceInv, AnswerInv, DerivedInv, [Next]_vars
    PROVE  DerivedInv'
<1>1. StatesDerived' /\ WritesAreDerived'
  BY OnlyOrderWrites, OrderDerived, SameChainDerived DEF ServiceInv, Inv
<1>2. (\A r \in Requests : HandDerived(r) /\ CallDerived(r))'
  BY HandsDerived, CallsDerived
<1>3. (\A tx \in pool : Derived(tx, Len(chain)))'
  BY PoolDerived
<1> QED BY <1>1, <1>2, <1>3 DEF DerivedInv

-----------------------------------------------------------------------------
(* The invariants hold together.                                           *)
LEMMA AnswerInvariant == Spec => [](ServiceInv /\ AnswerInv /\ DerivedInv)
<1>1. Init => AnswerInv /\ DerivedInv
  BY InitTold, InitDerived
<1>2. ServiceInv /\ AnswerInv /\ DerivedInv /\ [Next]_vars => AnswerInv' /\ DerivedInv'
  BY NextTold, NextDerived
<1> QED BY <1>1, <1>2, ServiceInvariant, PTL DEF Spec

(* Answers are true: 200 to a certificate or a file means that some peer   *)
(* has committed it as sent, and 400, 401 and 500 that nothing of the      *)
(* request is on the ledger or on its way, whatever timed out or was lost  *)
(* (app.go:250-257, 289-296, certificateIO.go:113-124).                    *)
THEOREM AnswersAreTrue == Spec => []AnswerTellsLedger
<1>1. ASSUME ServiceInv, AnswerInv PROVE AnswerTellsLedger
  <2> SUFFICES ASSUME NEW r \in Requests
               PROVE  /\ work[r].answer = 200 /\ Op(r) = "postCertificate" =>
                           \E tx \in AtSomePeer :
                              /\ Ours(r, tx) /\ tx.fcn = "postCertificate"
                              /\ tx.certId = Item(r).certId
                              /\ Same(tx.value, Item(r).value)
                      /\ work[r].answer = 200 /\ Op(r) = "postUploadFile" =>
                           \E tx \in AtSomePeer :
                              /\ Ours(r, tx) /\ tx.fcn = "postUploadFile"
                              /\ tx.certId = Item(r).certId
                              /\ tx.value = Item(r).value
                      /\ work[r].answer \in {400, 401, 500} =>
                           \A tx \in Everywhere : ~ Ours(r, tx)
    BY DEF AnswerTellsLedger
  <2>1. Told(r, work[r], exec[r], AtSomePeer)
    BY <1>1 DEF AnswerInv
  <2>2. ASSUME work[r].answer = 200, Op(r) = "postCertificate"
        PROVE  Written(r, "postCertificate", work[r].job, Item(r), AtSomePeer)
    BY <2>1, <2>2 DEF Told, Op, Item
  <2>3. ASSUME work[r].answer = 200, Op(r) = "postUploadFile"
        PROVE  Written(r, "postUploadFile", work[r].job, Item(r), AtSomePeer)
    BY <2>1, <2>3 DEF Told, FileDone, Op, Item
  <2>4. ASSUME work[r].answer \in {400, 401, 500}, NEW tx \in Everywhere, Ours(r, tx)
        PROVE  FALSE
    <3>1. exec[r].n = 0
      BY <2>1, <2>4 DEF Told
    <3>2. tx \in Sent
      BY DEF Everywhere, Sent, ChainTx
    <3>3. PICK q \in Requests : \E k \in Nat : k < exec[q].n /\ tx.id = <<q, k>>
      BY <1>1, <3>2 DEF ServiceInv, ClientInv, IdsAreOfCalls
    <3>4. q = r
      BY <2>4, <3>3 DEF Ours
    <3> QED BY <3>1, <3>3, <3>4
  <2> QED BY <2>2, <2>3, <2>4 DEF Written, Carries, Op
<1> QED BY <1>1, AnswerInvariant, PTL

(* Marks are true of statuses that close: one that the service, not the    *)
(* client, marked as changed has been written at some peer with the flags  *)
(* asked for, however late or stale the marking turn was                   *)
(* (certificateIO.go:324-334).                                             *)
THEOREM MarksAreTrue == Spec => []ClosedMarksAreWritten
<1>1. ASSUME AnswerInv PROVE ClosedMarksAreWritten
  <2> SUFFICES ASSUME NEW r \in Requests, NEW i \in Marked(r), ~ work[r].job.items[i].isOpen
               PROVE  \E tx \in AtSomePeer : IsChange(r, i, tx)
    BY DEF ClosedMarksAreWritten
  <2>1. MarksTold(r, work[r], AtSomePeer)
    BY <1>1 DEF AnswerInv, Told
  <2>2. Changed(r, work[r].job.items[i], AtSomePeer)
    BY <2>1 DEF MarksTold, Marked
  <2> QED BY <2>2 DEF Changed, SameFlags, IsChange
<1> QED BY <1>1, AnswerInvariant, PTL

(* Status changes and uploads invent nothing: every certificate that one   *)
(* of them writes has a body that an earlier block posted under the same   *)
(* number (certificateIO.go:215-223, 314-330).                             *)
THEOREM WritesDerivedHolds == Spec => []WritesAreDerived
BY AnswerInvariant, PTL DEF DerivedInv
=============================================================================
