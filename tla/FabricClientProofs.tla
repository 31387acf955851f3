------------------------- MODULE FabricClientProofs -------------------------
(***************************************************************************)
(* What each step of the fabric client does to its own variables, and the  *)
(* client's inductive invariant ClientInv, step by step: lemmas for the    *)
(* specifications that compose its actions, FabricCalls and CertificateIO. *)
(***************************************************************************)
EXTENDS FabricClient, SequenceTheorems, FiniteSetTheorems, TLAPS

(* The state after any number of blocks is a database.                     *)
LEMMA StateAtType ==
    ASSUME LedgerTypeOK, NEW h \in 0 .. Len(chain)
    PROVE  StateAt(h) \in Database
<1>1. CASE h = 0
  <2>1. GenesisState \in Database
    BY DEF GenesisState, Database
  <2> QED BY <1>1, <2>1 DEF StateAt
<1>2. CASE h # 0
  <2>1. h \in 1 .. Len(chain)
    BY <1>2
  <2>2. chain[h] \in [tx : Tx, db : Database]
    BY <2>1, ElementOfSeq DEF LedgerTypeOK
  <2> QED BY <1>2, <2>2 DEF StateAt
<1> QED BY <1>1, <1>2

(* Any peer's state is a database.                                         *)
LEMMA PeerStateType ==
    ASSUME LedgerTypeOK, NEW p \in Peers
    PROVE  PeerState(p) \in Database
BY StateAtType DEF LedgerTypeOK, PeerState

(* So is the state at the tip.                                             *)
LEMMA TipStateType ==
    ASSUME LedgerTypeOK
    PROVE  TipState \in Database
<1>1. Len(chain) \in 0 .. Len(chain)
  BY DEF LedgerTypeOK
<1> QED BY <1>1, StateAtType DEF TipState

(* A transaction turns a database into a database (chaincode/main.go:84).  *)
LEMMA PutStateType ==
    ASSUME NEW db \in Database, NEW tx \in Tx
    PROVE  PutState(db, tx) \in Database
<1>1. CASE tx \in CertTx
  <2>1. tx.fcn = "postCertificate" /\ tx.certId \in Certs /\ tx.value \in Certificate
    BY <1>1 DEF CertTx
  <2> QED BY <2>1 DEF PutState, Database
<1>2. CASE tx \in FileTx
  <2>1. tx.fcn = "postUploadFile" /\ tx.certId \in Certs /\ tx.value \in Files
    BY <1>2 DEF FileTx
  <2> QED BY <2>1 DEF PutState, Database
<1> QED BY <1>1, <1>2 DEF Tx

-----------------------------------------------------------------------------
(* The ledger keeps its type when a transaction is ordered or committed.   *)
LEMMA OrderType ==
    ASSUME LedgerTypeOK, Order
    PROVE  LedgerTypeOK'
<1>1. PICK tx \in pool : /\ pool' = pool \ {tx}
                         /\ chain' = Append(chain, [tx |-> tx, db |-> PutState(TipState, tx)])
  BY DEF Order
<1> DEFINE block == [tx |-> tx, db |-> PutState(TipState, tx)]
<1>2. block \in [tx : Tx, db : Database]
  BY TipStateType, PutStateType DEF LedgerTypeOK
<1>3. chain' \in Seq([tx : Tx, db : Database]) /\ Len(chain') = Len(chain) + 1
  BY <1>1, <1>2 DEF LedgerTypeOK
<1>4. height' \in [Peers -> 0 .. Len(chain')]
  BY <1>3 DEF LedgerTypeOK, Order
<1> QED BY <1>1, <1>3, <1>4 DEF LedgerTypeOK

(* A peer commits its next block.                                          *)
LEMMA PeerCommitType ==
    ASSUME LedgerTypeOK, NEW p \in Peers, PeerCommit(p)
    PROVE  LedgerTypeOK'
<1>1. height' \in [Peers -> 0 .. Len(chain)]
  BY DEF LedgerTypeOK, PeerCommit
<1> QED BY <1>1 DEF LedgerTypeOK, PeerCommit

(* What the dispatcher does to a call keeps it a call.                     *)
LEMMA NotifyType ==
    ASSUME NEW call \in Call, NEW tx
    PROVE  Notify(call, tx) \in Call
BY DEF Notify, Call, FilterMatches

-----------------------------------------------------------------------------
(* A transaction of either kind, made by the call a request enters.        *)
LEMMA NewTxType ==
    ASSUME NEW id \in TxId, NEW c \in Certs, NEW fcn, NEW value,
           \/ fcn = "postCertificate" /\ value \in Certificate
           \/ fcn = "postUploadFile" /\ value \in Files
    PROVE  [id |-> id, fcn |-> fcn, certId |-> c, value |-> value] \in Tx
BY DEF Tx, CertTx, FileTx

(* The key of a transaction is one of the event keys.                      *)
LEMMA EventKeyType ==
    ASSUME NEW tx \in Tx
    PROVE  EventKey(tx) \in EventKeys
BY DEF Tx, CertTx, FileTx, EventKey, EventKeys

(* A call of Execute begins (execute.go:9).                                *)
LEMMA EnterType ==
    ASSUME FabricTypeOK, NEW r \in Requests, NEW c \in Certs, NEW fcn, NEW value,
           \/ fcn = "postCertificate" /\ value \in Certificate
           \/ fcn = "postUploadFile" /\ value \in Files,
           Enter(r, fcn, c, value)
    PROVE  FabricTypeOK'
<1> DEFINE tx == [id |-> <<r, exec[r].n>>, fcn |-> fcn, certId |-> c, value |-> value]
<1>1. exec[r] \in Call /\ exec[r].n \in Nat
  BY DEF FabricTypeOK, Call
<1>2. <<r, exec[r].n>> \in TxId
  BY <1>1 DEF TxId
<1>3. tx \in Tx
  BY <1>2, NewTxType
<1> DEFINE new == [stage |-> "register", n |-> exec[r].n + 1, tx |-> tx,
                   status |-> FALSE, notified |-> FALSE]
<1>4. new \in Call
  BY <1>1, <1>3 DEF Call, Stages
<1>5. exec' = [exec EXCEPT ![r] = new]
  BY DEF Enter
<1> HIDE DEF new
<1>6. exec' \in [Requests -> Call]
  BY <1>4, <1>5 DEF FabricTypeOK
<1> QED BY <1>6 DEF Enter, FabricTypeOK, LedgerTypeOK, ledgerVars

(* A call past its entry has a transaction: part of every invariant.       *)
HasTx == \A r \in Requests : exec[r].stage # "idle" => exec[r].tx \in Tx

(* One lemma for all the steps of Execute: they only move the stage, add   *)
(* the call's own transaction to the pool and its own key to, or take it   *)
(* from, the registrations.                                                *)
LEMMA ExecuteStepEffect ==
    ASSUME FabricTypeOK, HasTx, NEW r \in Requests, ExecuteStep(r)
    PROVE  /\ exec[r].stage \in {"register"} \cup Waiting
           /\ \E stage \in Waiting \cup Returned : exec' = [exec EXCEPT ![r].stage = stage]
           /\ pool' = pool \/ pool' = pool \cup {exec[r].tx}
           /\ registrations' \subseteq registrations \cup {EventKey(exec[r].tx)}
           /\ UNCHANGED <<chain, height, seen>>
<1>1. CASE Register(r)
  BY <1>1 DEF Register, ledgerVars, Waiting
<1>2. CASE RegisterRefused(r)
  BY <1>2 DEF RegisterRefused, ledgerVars, Returned
<1>3. CASE Submit(r)
  BY <1>3 DEF Submit, Waiting
<1>4. CASE EndorseFails(r)
  BY <1>4 DEF EndorseFails, Return, ledgerVars, Waiting, Returned
<1>5. CASE AckLost(r)
  BY <1>5 DEF AckLost, Return, Waiting, Returned
<1>6. CASE CommitStatus(r)
  BY <1>6 DEF CommitStatus, ledgerVars, Waiting
<1>7. CASE CommitTimeout(r)
  BY <1>7 DEF CommitTimeout, Return, ledgerVars, Waiting, Returned
<1>8. CASE EventReceived(r)
  BY <1>8 DEF EventReceived, Return, ledgerVars, Waiting, Returned
<1>9. CASE EventTimeout(r)
  BY <1>9 DEF EventTimeout, Return, ledgerVars, Waiting, Returned
<1> QED BY <1>1, <1>2, <1>3, <1>4, <1>5, <1>6, <1>7, <1>8, <1>9 DEF ExecuteStep

(* Every step of Execute keeps the types (execute.go:9-40).                *)
LEMMA ExecuteStepType ==
    ASSUME FabricTypeOK, HasTx, NEW r \in Requests, ExecuteStep(r)
    PROVE  FabricTypeOK' /\ HasTx'
<1>1. exec[r] \in Call /\ exec[r].tx \in Tx
  BY ExecuteStepEffect DEF FabricTypeOK, HasTx, Waiting
<1>2. PICK stage \in Waiting \cup Returned : exec' = [exec EXCEPT ![r].stage = stage]
  BY ExecuteStepEffect
<1>3. exec' \in [Requests -> Call]
  BY <1>1, <1>2 DEF FabricTypeOK, Call, Stages
<1>4. HasTx'
  BY <1>1, <1>2 DEF FabricTypeOK, HasTx, Call
<1>5. pool' \subseteq Tx /\ registrations' \subseteq EventKeys
  BY <1>1, ExecuteStepEffect, EventKeyType DEF FabricTypeOK, LedgerTypeOK
<1> QED BY <1>3, <1>4, <1>5, ExecuteStepEffect DEF FabricTypeOK, LedgerTypeOK

(* So does every step of the orderer and the peers.                        *)
LEMMA NetworkType ==
    ASSUME FabricTypeOK, HasTx, Network
    PROVE  FabricTypeOK' /\ HasTx'
<1>1. LedgerTypeOK' /\ Len(chain') >= Len(chain)
  <2>1. CASE Order
    <3>1. PICK tx \in pool :
             chain' = Append(chain, [tx |-> tx, db |-> PutState(TipState, tx)])
      BY <2>1 DEF Order
    <3>2. [tx |-> tx, db |-> PutState(TipState, tx)] \in [tx : Tx, db : Database]
      BY TipStateType, PutStateType DEF FabricTypeOK, LedgerTypeOK
    <3>3. Len(chain') = Len(chain) + 1
      BY <3>1, <3>2, AppendProperties DEF FabricTypeOK, LedgerTypeOK
    <3> QED BY <2>1, <3>3, OrderType, LenProperties DEF FabricTypeOK, LedgerTypeOK
  <2>2. CASE \E p \in Peers : PeerCommit(p)
    <3>1. Len(chain) \in Nat /\ LedgerTypeOK
      BY LenProperties DEF FabricTypeOK, LedgerTypeOK
    <3>2. PICK p \in Peers : PeerCommit(p)
      BY <2>2
    <3>3. LedgerTypeOK'
      BY <3>1, <3>2, PeerCommitType
    <3>4. chain' = chain
      BY <3>2 DEF PeerCommit
    <3> QED BY <3>1, <3>3, <3>4
  <2> QED BY <2>1, <2>2 DEF Network
<1>2. UNCHANGED <<exec, registrations, seen>>
  BY DEF Network, clientVars
<1>3. seen' \in 0 .. Len(chain')
  BY <1>1, <1>2, LenProperties DEF FabricTypeOK, LedgerTypeOK
<1> QED BY <1>1, <1>2, <1>3 DEF FabricTypeOK, HasTx

(* So does the publication of a block (dispatcher.go:542-573).             *)
LEMMA DispatchType ==
    ASSUME FabricTypeOK, HasTx, Dispatch
    PROVE  FabricTypeOK' /\ HasTx'
<1> DEFINE tx == chain[seen + 1].tx
<1>1. exec' = [r \in Requests |-> Notify(exec[r], tx)]
  BY DEF Dispatch
<1> HIDE DEF tx
<1>2. exec' \in [Requests -> Call]
  BY <1>1, NotifyType DEF FabricTypeOK
<1>3. \A r \in Requests : exec'[r].stage = exec[r].stage /\ exec'[r].tx = exec[r].tx
  BY <1>1 DEF Notify, FabricTypeOK, Call
<1>4. seen' \in 0 .. Len(chain)
  <2>1. PICK p \in Peers : seen < height[p]
    BY DEF Dispatch
  <2>2. height[p] \in 0 .. Len(chain)
    BY DEF FabricTypeOK, LedgerTypeOK
  <2> QED BY <2>1, <2>2, LenProperties DEF Dispatch, FabricTypeOK, LedgerTypeOK
<1>5. HasTx'
  BY <1>3 DEF HasTx
<1> QED BY <1>2, <1>4, <1>5 DEF Dispatch, FabricTypeOK, LedgerTypeOK, ledgerVars

(* So does a restart of the process.                                       *)
LEMMA RestartType ==
    ASSUME FabricTypeOK, HasTx, Restart
    PROVE  FabricTypeOK' /\ HasTx'
<1>1. exec' \in [Requests -> Call]
  BY DEF Restart, FabricTypeOK, Call, Stages
<1>2. HasTx'
  BY DEF Restart, HasTx, FabricTypeOK, Call
<1>3. seen' \in 0 .. Len(chain)
  <2>1. PICK p \in Peers : seen' \in {h \in 0 .. height[p] : h + 1 >= height[p]}
    BY DEF Restart
  <2>2. seen' \in 0 .. height[p]
    BY <2>1
  <2>3. height[p] \in 0 .. Len(chain) /\ Len(chain) \in Nat
    BY DEF FabricTypeOK, LedgerTypeOK
  <2> QED BY <2>2, <2>3
<1> QED BY <1>1, <1>2, <1>3 DEF Restart, FabricTypeOK, LedgerTypeOK, ledgerVars

(* The client starts well typed.                                           *)
LEMMA FabricInitType ==
    ASSUME FabricInit
    PROVE  FabricTypeOK /\ HasTx
<1>1. LedgerTypeOK /\ chain = <<>> /\ Len(chain) = 0
  BY EmptySeq DEF FabricInit, LedgerInit, LedgerTypeOK
<1>2. Idle \in Call
  BY DEF Idle, Call, Stages
<1> QED BY <1>1, <1>2 DEF FabricInit, FabricTypeOK, HasTx, Idle
-----------------------------------------------------------------------------
(* Transactions that have been handed to the orderer.                      *)
ChainTx == {chain[i].tx : i \in 1 .. Len(chain)}
Sent    == pool \cup ChainTx

(* A peer has committed the transaction.                                   *)
AtPeer(tx) == \E p \in Peers : \E i \in 1 .. height[p] : chain[i].tx = tx

(* An id is that of one call.                                              *)
IdsAreOfCalls ==
    /\ \A r \in Requests : exec[r].stage # "idle" =>
          exec[r].n >= 1 /\ exec[r].tx.id = <<r, exec[r].n - 1>>
    /\ \A tx \in Sent : \E r \in Requests : \E k \in Nat :
          k < exec[r].n /\ tx.id = <<r, k>>

(* A call sends one transaction, and none before it submits.               *)
SentOnce ==
    /\ \A r \in Requests : exec[r].stage \in {"register", "endorse"} =>
          \A tx \in Sent : tx.id # exec[r].tx.id
    /\ \A r \in Requests : exec[r].stage # "idle" =>
          \A tx \in Sent : tx.id = exec[r].tx.id => tx = exec[r].tx
    /\ \A s, t \in Sent : s.id = t.id => s = t
    /\ \A i \in 1 .. Len(chain) : chain[i].tx \notin pool
    /\ \A i, j \in 1 .. Len(chain) : chain[i].tx = chain[j].tx => i = j

(* A status is that of a commit, and comes with the event.                 *)
TrueStatus(r) ==
    /\ exec[r].stage # "idle" /\ exec[r].status => AtPeer(exec[r].tx)
    /\ exec[r].stage \in {"register", "endorse"} => ~ exec[r].status
    /\ exec[r].stage \in {"event", "ok"} => exec[r].status
    /\ /\ exec[r].stage \in {"commit", "event"} /\ exec[r].status
       /\ <<exec[r].tx.certId, exec[r].tx.certId>> \in Matches
       => exec[r].notified

StatusIsTrue == \A r \in Requests : TrueStatus(r)

(* Registrations and the calls past RegisterChaincodeEvent are one to one. *)
Held ==
    /\ \A r \in Requests : exec[r].stage \in Waiting => EventKey(exec[r].tx) \in registrations
    /\ \A key \in registrations : \E r \in Requests :
          exec[r].stage \in Waiting /\ EventKey(exec[r].tx) = key
    /\ \A r, s \in Requests :
          /\ exec[r].stage \in Waiting /\ exec[s].stage \in Waiting
          /\ EventKey(exec[r].tx) = EventKey(exec[s].tx)
          => r = s

ClientInv == FabricTypeOK /\ HasTx /\ IdsAreOfCalls /\ SentOnce /\ StatusIsTrue /\ Held

-----------------------------------------------------------------------------
(* What a move of one call to another stage does to the calls.             *)
LEMMA StageMove ==
    ASSUME FabricTypeOK, NEW r \in Requests, NEW stage,
           exec' = [exec EXCEPT ![r].stage = stage]
    PROVE  \A q \in Requests :
             /\ exec'[q].n = exec[q].n /\ exec'[q].tx = exec[q].tx
             /\ exec'[q].status = exec[q].status /\ exec'[q].notified = exec[q].notified
             /\ q = r => exec'[q].stage = stage
             /\ q # r => exec'[q].stage = exec[q].stage
<1> SUFFICES ASSUME NEW q \in Requests
             PROVE  /\ exec'[q].n = exec[q].n /\ exec'[q].tx = exec[q].tx
                    /\ exec'[q].status = exec[q].status /\ exec'[q].notified = exec[q].notified
                    /\ q = r => exec'[q].stage = stage
                    /\ q # r => exec'[q].stage = exec[q].stage
  OBVIOUS
<1>1. exec \in [Requests -> Call] /\ exec[q] \in Call
  BY DEF FabricTypeOK
<1>2. CASE q = r
  <2>1. exec'[q] = [exec[q] EXCEPT !.stage = stage]
    BY <1>1, <1>2
  <2> QED BY <1>1, <1>2, <2>1 DEF Call
<1>3. CASE q # r
  <2>1. exec'[q] = exec[q]
    BY <1>1, <1>3
  <2> QED BY <1>3, <2>1
<1> QED BY <1>2, <1>3

(* Every transaction on the chain or in the pool is one.                   *)
LEMMA SentType ==
    ASSUME LedgerTypeOK
    PROVE  /\ Len(chain) \in Nat
           /\ \A i \in 1 .. Len(chain) : chain[i].tx \in Tx
           /\ Sent \subseteq Tx
<1>1. Len(chain) \in Nat
  BY LenProperties DEF LedgerTypeOK
<1>2. ASSUME NEW i \in 1 .. Len(chain) PROVE chain[i].tx \in Tx
  <2>1. chain[i] \in [tx : Tx, db : Database]
    BY ElementOfSeq DEF LedgerTypeOK
  <2> QED BY <2>1
<1> QED BY <1>1, <1>2 DEF Sent, ChainTx, LedgerTypeOK

(* A step that only moves the stage of one call keeps its ids, and what it  *)
(* has sent, if it does not go back before its submission.                 *)
LEMMA MoveKeepsIds ==
    ASSUME ClientInv, NEW r \in Requests, NEW stage \in Waiting \cup Returned,
           exec' = [exec EXCEPT ![r].stage = stage],
           exec[r].stage # "idle",
           stage = "endorse" => exec[r].stage = "register",
           UNCHANGED <<chain, pool>>
    PROVE  IdsAreOfCalls' /\ SentOnce'
<1>1. Sent' = Sent
  BY DEF Sent, ChainTx
<1>2. \A q \in Requests : exec'[q].stage # "idle" => exec[q].stage # "idle"
  BY StageMove DEF ClientInv
<1>3. \A q \in Requests : exec'[q].stage \in {"register", "endorse"} =>
                             exec[q].stage \in {"register", "endorse"}
  BY StageMove DEF ClientInv, Waiting, Returned
<1>4. \A q \in Requests : exec'[q].n = exec[q].n /\ exec'[q].tx = exec[q].tx
  BY StageMove DEF ClientInv
<1>5. IdsAreOfCalls'
  BY <1>1, <1>2, <1>4 DEF ClientInv, IdsAreOfCalls
<1>6. SentOnce'
  BY <1>1, <1>2, <1>3, <1>4 DEF ClientInv, SentOnce
<1> QED BY <1>5, <1>6

(* So does the submission (txnhandler.go:167-183): the call's own           *)
(* transaction joins the pool, and the call is past its submission.        *)
LEMMA SubmitKeepsIds ==
    ASSUME ClientInv, NEW r \in Requests, NEW stage \in {"commit", "err"},
           exec' = [exec EXCEPT ![r].stage = stage], exec[r].stage = "endorse",
           pool' = pool \cup {exec[r].tx}, UNCHANGED chain
    PROVE  IdsAreOfCalls' /\ SentOnce'
<1> DEFINE tx == exec[r].tx
<1>1. Sent' = Sent \cup {tx} /\ ChainTx' = ChainTx
  BY DEF Sent, ChainTx
<1>2. \A q \in Requests : exec'[q].n = exec[q].n /\ exec'[q].tx = exec[q].tx
  BY StageMove DEF ClientInv
<1>3. \A q \in Requests : exec'[q].stage # "idle" => exec[q].stage # "idle"
  BY StageMove DEF ClientInv
<1>4. \A q \in Requests : exec'[q].stage \in {"register", "endorse"} =>
                             q # r /\ exec[q].stage \in {"register", "endorse"}
  <2>1. \A q \in Requests : /\ q = r => exec'[q].stage = stage
                            /\ q # r => exec'[q].stage = exec[q].stage
    BY StageMove DEF ClientInv
  <2> QED BY <2>1
<1>5. /\ tx.id = <<r, exec[r].n - 1>> /\ exec[r].n >= 1 /\ exec[r].n \in Nat
  BY DEF ClientInv, IdsAreOfCalls, FabricTypeOK, Call
<1>6. \A u \in Sent : u.id # tx.id
  BY DEF ClientInv, SentOnce
<1>7. \A q \in Requests : q # r /\ exec[q].stage # "idle" => exec[q].tx.id # tx.id
  BY <1>5 DEF ClientInv, IdsAreOfCalls
<1>8. IdsAreOfCalls'
  <2>1. exec[r].n - 1 \in Nat /\ exec[r].n - 1 < exec[r].n
    BY <1>5
  <2>2. \E q \in Requests : \E k \in Nat : k < exec'[q].n /\ tx.id = <<q, k>>
    BY <1>2, <1>5, <2>1
  <2>3. \A u \in Sent : \E q \in Requests : \E k \in Nat : k < exec'[q].n /\ u.id = <<q, k>>
    BY <1>2 DEF ClientInv, IdsAreOfCalls
  <2>4. \A q \in Requests : exec'[q].stage # "idle" =>
           exec'[q].n >= 1 /\ exec'[q].tx.id = <<q, exec'[q].n - 1>>
    BY <1>2, <1>3 DEF ClientInv, IdsAreOfCalls
  <2> QED BY <1>1, <2>2, <2>3, <2>4 DEF IdsAreOfCalls
<1>9. SentOnce'
  <2>1. \A q \in Requests : exec'[q].stage \in {"register", "endorse"} =>
           \A u \in Sent' : u.id # exec'[q].tx.id
    BY <1>1, <1>2, <1>4, <1>7 DEF ClientInv, SentOnce
  <2>2. \A q \in Requests : exec'[q].stage # "idle" =>
           \A u \in Sent' : u.id = exec'[q].tx.id => u = exec'[q].tx
    BY <1>1, <1>2, <1>3, <1>7 DEF ClientInv, SentOnce
  <2>3. \A s, t \in Sent' : s.id = t.id => s = t
    BY <1>1, <1>6 DEF ClientInv, SentOnce
  <2>4. \A i \in 1 .. Len(chain) : chain[i].tx \notin pool'
    BY <1>6 DEF ClientInv, SentOnce, Sent, ChainTx
  <2> QED BY <2>1, <2>2, <2>3, <2>4 DEF SentOnce, ClientInv
<1> QED BY <1>8, <1>9

(* A call has no status before it submits, and the stages "event" and "ok"  *)
(* come from one that has it.                                              *)
LEMMA MoveKeepsStatus ==
    ASSUME ClientInv, NEW r \in Requests, NEW stage \in Waiting \cup Returned,
           exec' = [exec EXCEPT ![r].stage = stage],
           exec[r].stage # "idle",
           \/ stage = "err"
           \/ stage \in {"endorse", "commit"} /\ exec[r].stage \in {"register", "endorse"}
           \/ stage = "event" /\ exec[r].stage = "commit" /\ exec[r].status
           \/ stage = "ok" /\ exec[r].stage = "event",
           UNCHANGED <<chain, height>>
    PROVE  StatusIsTrue'
<1> SUFFICES ASSUME NEW q \in Requests
             PROVE  TrueStatus(q)'
  BY DEF StatusIsTrue
<1>1. /\ exec'[q].tx = exec[q].tx /\ exec'[q].status = exec[q].status
      /\ exec'[q].notified = exec[q].notified
      /\ q = r => exec'[q].stage = stage
      /\ q # r => exec'[q].stage = exec[q].stage
  <2>1. exec \in [Requests -> Call] /\ exec[q] \in Call
    BY DEF ClientInv, FabricTypeOK
  <2>2. CASE q = r
    <3>1. exec'[q] = [exec[q] EXCEPT !.stage = stage]
      BY <2>1, <2>2
    <3>2. exec'[q].tx = exec[q].tx /\ exec'[q].status = exec[q].status
      BY <2>1, <3>1 DEF Call
    <3>3. exec'[q].notified = exec[q].notified /\ exec'[q].stage = stage
      BY <2>1, <3>1 DEF Call
    <3> QED BY <2>2, <3>2, <3>3
  <2>3. CASE q # r
    <3>1. exec'[q] = exec[q]
      BY <2>1, <2>3
    <3> QED BY <2>3, <3>1
  <2> QED BY <2>2, <2>3
<1>2. AtPeer(exec[q].tx)' <=> AtPeer(exec[q].tx)
  BY <1>1 DEF AtPeer
<1>2a. TrueStatus(q)
  BY DEF ClientInv, StatusIsTrue
<1>3. CASE q # r
  BY <1>1, <1>2, <1>2a, <1>3 DEF TrueStatus
<1>4. CASE q = r
  BY <1>1, <1>2, <1>2a, <1>4 DEF TrueStatus, Waiting, Returned
<1> QED BY <1>3, <1>4

-----------------------------------------------------------------------------
(* The registrations.                                                      *)

(* A registration made is that of its call alone (dispatcher.go:317-340).  *)
LEMMA RegisterHolds ==
    ASSUME ClientInv, NEW r \in Requests, Register(r)
    PROVE  Held'
<1> DEFINE key == EventKey(exec[r].tx)
<1>1. /\ exec[r].stage = "register" /\ key \notin registrations
      /\ registrations' = registrations \cup {key}
      /\ exec' = [exec EXCEPT ![r].stage = "endorse"]
  BY DEF Register, Registrable
<1>2. ASSUME NEW q \in Requests
      PROVE  /\ exec'[q].tx = exec[q].tx
             /\ q = r => exec'[q].stage = "endorse"
             /\ q # r => exec'[q].stage = exec[q].stage
  <2>1. exec \in [Requests -> Call] /\ exec[q] \in Call
    BY DEF ClientInv, FabricTypeOK
  <2>2. CASE q = r
    <3>1. exec'[q] = [exec[q] EXCEPT !.stage = "endorse"]
      BY <1>1, <2>1, <2>2
    <3>2. exec'[q].stage = "endorse" /\ exec'[q].tx = exec[q].tx
      BY <2>1, <3>1 DEF Call
    <3> QED BY <2>2, <3>2
  <2>3. CASE q # r
    BY <1>1, <2>1, <2>3
  <2> QED BY <2>2, <2>3
<1>3. \A q \in Requests :
         /\ EventKey(exec'[q].tx) = EventKey(exec[q].tx)
         /\ exec'[q].stage \in Waiting <=> q = r \/ exec[q].stage \in Waiting
  BY <1>2 DEF Waiting
<1>4. \A q \in Requests : exec[q].stage \in Waiting => EventKey(exec[q].tx) # key
  BY <1>1 DEF ClientInv, Held
<1> HIDE DEF key
<1>5. EventKey(exec[r].tx) = key
  BY DEF key
<1> QED BY <1>1, <1>3, <1>4, <1>5 DEF ClientInv, Held

(* A step within the waiting stages, or outside of them, changes no holder. *)
LEMMA MoveHolds ==
    ASSUME ClientInv, NEW r \in Requests, NEW stage \in Waiting \cup Returned,
           exec' = [exec EXCEPT ![r].stage = stage],
           exec[r].stage \in Waiting <=> stage \in Waiting,
           UNCHANGED registrations
    PROVE  Held'
<1>1. ASSUME NEW q \in Requests
      PROVE  /\ exec'[q].tx = exec[q].tx
             /\ exec'[q].stage \in Waiting <=> exec[q].stage \in Waiting
  <2>1. exec \in [Requests -> Call] /\ exec[q] \in Call
    BY DEF ClientInv, FabricTypeOK
  <2>2. CASE q = r
    <3>1. exec'[q] = [exec[q] EXCEPT !.stage = stage]
      BY <2>1, <2>2
    <3>2. exec'[q].stage = stage /\ exec'[q].tx = exec[q].tx
      BY <2>1, <3>1 DEF Call
    <3> QED BY <2>2, <3>2
  <2>3. CASE q # r
    BY <2>1, <2>3
  <2> QED BY <2>2, <2>3
<1>2. \A q \in Requests :
         /\ EventKey(exec'[q].tx) = EventKey(exec[q].tx)
         /\ exec'[q].stage \in Waiting <=> exec[q].stage \in Waiting
  BY <1>1
<1> QED BY <1>2 DEF ClientInv, Held

(* The deferred Unregister takes the registration of its own call, and that *)
(* of no other (execute.go:19).                                            *)
LEMMA ReturnHolds ==
    ASSUME ClientInv, NEW r \in Requests, NEW outcome \in Returned,
           exec[r].stage \in Waiting, Return(r, outcome)
    PROVE  Held'
<1> DEFINE key == EventKey(exec[r].tx)
<1>1. registrations' = registrations \ {key} /\ exec' = [exec EXCEPT ![r].stage = outcome]
  BY DEF Return
<1>2. ASSUME NEW q \in Requests
      PROVE  /\ exec'[q].tx = exec[q].tx
             /\ q = r => exec'[q].stage = outcome
             /\ q # r => exec'[q].stage = exec[q].stage
  <2>1. exec \in [Requests -> Call] /\ exec[q] \in Call
    BY DEF ClientInv, FabricTypeOK
  <2>2. CASE q = r
    <3>1. exec'[q] = [exec[q] EXCEPT !.stage = outcome]
      BY <1>1, <2>1, <2>2
    <3>2. exec'[q].stage = outcome /\ exec'[q].tx = exec[q].tx
      BY <2>1, <3>1 DEF Call
    <3> QED BY <2>2, <3>2
  <2>3. CASE q # r
    BY <1>1, <2>1, <2>3
  <2> QED BY <2>2, <2>3
<1>3. \A q \in Requests :
         /\ EventKey(exec'[q].tx) = EventKey(exec[q].tx)
         /\ exec'[q].stage \in Waiting <=> q # r /\ exec[q].stage \in Waiting
  BY <1>2 DEF Waiting, Returned
<1>4. \A q \in Requests : q # r /\ exec[q].stage \in Waiting => EventKey(exec[q].tx) # key
  BY DEF ClientInv, Held
<1> HIDE DEF key
<1>5. EventKey(exec[r].tx) = key
  BY DEF key
<1> QED BY <1>1, <1>3, <1>4, <1>5 DEF ClientInv, Held

-----------------------------------------------------------------------------
(* A call that gives up after its registration (execute.go:19, 27, 35).    *)
LEMMA ErrorInv ==
    ASSUME ClientInv, FabricTypeOK', HasTx', NEW r \in Requests, exec[r].stage \in Waiting,
           Return(r, "err"), UNCHANGED <<chain, height, pool>>
    PROVE  ClientInv'
<1>1. "err" \in Returned /\ "err" \in Waiting \cup Returned /\ exec[r].stage # "idle"
  BY DEF Waiting, Returned
<1>2. exec' = [exec EXCEPT ![r].stage = "err"]
  BY DEF Return
<1>3. IdsAreOfCalls' /\ SentOnce'
  BY <1>1, <1>2, MoveKeepsIds
<1>4. StatusIsTrue'
  BY <1>1, <1>2, MoveKeepsStatus
<1>5. Held'
  BY <1>1, ReturnHolds
<1> QED BY <1>3, <1>4, <1>5 DEF ClientInv

(* The steps of Execute, one by one.                                       *)
LEMMA ExecuteStepInv ==
    ASSUME ClientInv, NEW r \in Requests, ExecuteStep(r)
    PROVE  ClientInv'
<1>1. FabricTypeOK' /\ HasTx'
  BY ExecuteStepType DEF ClientInv
<1>2. UNCHANGED <<chain, height, seen>>
  BY ExecuteStepEffect DEF ClientInv
<1>3. CASE Register(r)
  <2>1. /\ exec[r].stage = "register" /\ exec' = [exec EXCEPT ![r].stage = "endorse"]
        /\ UNCHANGED pool
    BY <1>3 DEF Register, ledgerVars
  <2>2. "endorse" \in Waiting \cup Returned
    BY DEF Waiting
  <2>3. IdsAreOfCalls' /\ SentOnce'
    BY <1>2, <2>1, <2>2, MoveKeepsIds
  <2>4. StatusIsTrue'
    BY <1>2, <2>1, <2>2, MoveKeepsStatus
  <2> QED BY <1>1, <1>3, <2>3, <2>4, RegisterHolds DEF ClientInv
<1>4. CASE RegisterRefused(r)
  <2>1. /\ exec[r].stage = "register" /\ exec' = [exec EXCEPT ![r].stage = "err"]
        /\ UNCHANGED <<pool, registrations>>
    BY <1>4 DEF RegisterRefused, ledgerVars
  <2>2. "err" \in Waiting \cup Returned /\ ~ "err" \in Waiting /\ ~ "register" \in Waiting
    BY DEF Waiting, Returned
  <2>3. IdsAreOfCalls' /\ SentOnce'
    BY <1>2, <2>1, <2>2, MoveKeepsIds
  <2>4. StatusIsTrue'
    BY <1>2, <2>1, <2>2, MoveKeepsStatus
  <2>5. Held'
    BY <2>1, <2>2, MoveHolds
  <2> QED BY <1>1, <2>3, <2>4, <2>5 DEF ClientInv
<1>5. CASE Submit(r)
  <2>1. /\ exec[r].stage = "endorse" /\ exec' = [exec EXCEPT ![r].stage = "commit"]
        /\ pool' = pool \cup {exec[r].tx} /\ UNCHANGED registrations
    BY <1>5 DEF Submit
  <2>2. "commit" \in Waiting \cup Returned /\ "commit" \in Waiting /\ "endorse" \in Waiting
    BY DEF Waiting
  <2>3. IdsAreOfCalls' /\ SentOnce'
    BY <1>2, <2>1, SubmitKeepsIds
  <2>5. StatusIsTrue'
    BY <1>2, <2>1, <2>2, MoveKeepsStatus
  <2>6. Held'
    BY <2>1, <2>2, MoveHolds
  <2> QED BY <1>1, <2>3, <2>5, <2>6 DEF ClientInv
<1>6. CASE EndorseFails(r)
  <2>1. exec[r].stage = "endorse" /\ Return(r, "err") /\ UNCHANGED pool
    BY <1>6 DEF EndorseFails, ledgerVars
  <2> QED BY <1>1, <1>2, <2>1, ErrorInv DEF Waiting
<1>7. CASE AckLost(r)
  <2>1. /\ exec[r].stage = "endorse" /\ Return(r, "err")
        /\ exec' = [exec EXCEPT ![r].stage = "err"] /\ pool' = pool \cup {exec[r].tx}
    BY <1>7 DEF AckLost, Return
  <2>2. "err" \in Returned /\ "err" \in Waiting \cup Returned /\ "endorse" \in Waiting
    BY DEF Waiting, Returned
  <2>3. IdsAreOfCalls' /\ SentOnce'
    BY <1>2, <2>1, SubmitKeepsIds
  <2>4. StatusIsTrue'
    BY <1>2, <2>1, <2>2, MoveKeepsStatus
  <2>5. Held'
    BY <2>1, <2>2, ReturnHolds
  <2> QED BY <1>1, <2>3, <2>4, <2>5 DEF ClientInv
<1>8. CASE CommitStatus(r)
  <2>1. /\ exec[r].stage = "commit" /\ exec[r].status
        /\ exec' = [exec EXCEPT ![r].stage = "event"]
        /\ UNCHANGED <<pool, registrations>>
    BY <1>8 DEF CommitStatus, ledgerVars
  <2>2. "event" \in Waiting \cup Returned /\ "event" \in Waiting /\ "commit" \in Waiting
    BY DEF Waiting
  <2>3. IdsAreOfCalls' /\ SentOnce'
    BY <1>2, <2>1, <2>2, MoveKeepsIds
  <2>4. StatusIsTrue'
    BY <1>2, <2>1, <2>2, MoveKeepsStatus
  <2>5. Held'
    BY <2>1, <2>2, MoveHolds
  <2> QED BY <1>1, <2>3, <2>4, <2>5 DEF ClientInv
<1>9. CASE CommitTimeout(r)
  <2>1. exec[r].stage = "commit" /\ Return(r, "err") /\ UNCHANGED pool
    BY <1>9 DEF CommitTimeout, ledgerVars
  <2> QED BY <1>1, <1>2, <2>1, ErrorInv DEF Waiting
<1>10. CASE EventReceived(r)
  <2>1. /\ exec[r].stage = "event" /\ Return(r, "ok") /\ UNCHANGED pool
        /\ exec' = [exec EXCEPT ![r].stage = "ok"]
    BY <1>10 DEF EventReceived, Return, ledgerVars
  <2>2. "ok" \in Returned /\ "ok" \in Waiting \cup Returned /\ "event" \in Waiting
    BY DEF Waiting, Returned
  <2>3. IdsAreOfCalls' /\ SentOnce'
    BY <1>2, <2>1, <2>2, MoveKeepsIds
  <2>4. StatusIsTrue'
    BY <1>2, <2>1, <2>2, MoveKeepsStatus
  <2>5. Held'
    BY <2>1, <2>2, ReturnHolds
  <2> QED BY <1>1, <2>3, <2>4, <2>5 DEF ClientInv
<1>11. CASE EventTimeout(r)
  <2>1. exec[r].stage = "event" /\ Return(r, "err") /\ UNCHANGED pool
    BY <1>11 DEF EventTimeout, ledgerVars
  <2> QED BY <1>1, <1>2, <2>1, ErrorInv DEF Waiting
<1> QED BY <1>3, <1>4, <1>5, <1>6, <1>7, <1>8, <1>9, <1>10, <1>11 DEF ExecuteStep

-----------------------------------------------------------------------------
(* A request calls Execute with a new id (execute.go:9).                   *)
LEMMA EnterInv ==
    ASSUME ClientInv, NEW r \in Requests, NEW c \in Certs, NEW fcn, NEW value,
           \/ fcn = "postCertificate" /\ value \in Certificate
           \/ fcn = "postUploadFile" /\ value \in Files,
           Enter(r, fcn, c, value)
    PROVE  ClientInv'
<1> DEFINE tx  == [id |-> <<r, exec[r].n>>, fcn |-> fcn, certId |-> c, value |-> value]
           new == [stage |-> "register", n |-> exec[r].n + 1, tx |-> tx,
                   status |-> FALSE, notified |-> FALSE]
<1>2. /\ exec[r].stage \notin Waiting
      /\ exec' = [exec EXCEPT ![r] = new]
      /\ UNCHANGED <<chain, pool, height, registrations, seen>>
  BY DEF Enter, ledgerVars, Returned, Waiting
<1>4. FabricTypeOK'
  BY EnterType DEF ClientInv
<1>5. exec[r].n \in Nat /\ exec \in [Requests -> Call]
  BY DEF ClientInv, FabricTypeOK, Call
<1>6. tx \in Tx
  <2>1. <<r, exec[r].n>> \in TxId
    BY <1>5 DEF TxId
  <2> QED BY <2>1, NewTxType
<1>7. /\ \A q \in Requests : q # r => exec'[q] = exec[q]
      /\ exec'[r] = new
  BY <1>2, <1>5
<1>8. /\ exec'[r].stage = "register" /\ exec'[r].n = exec[r].n + 1 /\ exec'[r].tx = tx
      /\ exec'[r].status = FALSE
  BY <1>7
<1>9. tx.id = <<r, exec[r].n>>
  OBVIOUS
<1> HIDE DEF new, tx
<1>10. HasTx'
  BY <1>6, <1>7, <1>8 DEF HasTx, ClientInv
<1>11. Sent' = Sent
  BY <1>2 DEF Sent, ChainTx
<1>12. \A u \in Sent : u.id # tx.id
  <2> SUFFICES ASSUME NEW u \in Sent, u.id = tx.id PROVE FALSE
    OBVIOUS
  <2>1. PICK q \in Requests : \E k \in Nat : k < exec[q].n /\ u.id = <<q, k>>
    BY DEF ClientInv, IdsAreOfCalls
  <2>2. PICK k \in Nat : k < exec[q].n /\ u.id = <<q, k>>
    BY <2>1
  <2>3. q = r /\ k = exec[r].n
    BY <1>9, <2>2
  <2> QED BY <1>5, <2>2, <2>3
<1>13. IdsAreOfCalls'
  <2>1. \A q \in Requests : exec'[q].stage # "idle" =>
           exec'[q].n >= 1 /\ exec'[q].tx.id = <<q, exec'[q].n - 1>>
    <3> SUFFICES ASSUME NEW q \in Requests, exec'[q].stage # "idle"
                 PROVE  exec'[q].n >= 1 /\ exec'[q].tx.id = <<q, exec'[q].n - 1>>
      OBVIOUS
    <3>1. CASE q = r
      <4>1. exec'[r].n >= 1 /\ exec'[r].n - 1 = exec[r].n
        BY <1>5, <1>8
      <4>2. exec'[r].tx.id = <<r, exec'[r].n - 1>>
        BY <1>8, <1>9, <4>1
      <4> QED BY <3>1, <4>1, <4>2
    <3>2. CASE q # r
      BY <1>7, <3>2 DEF ClientInv, IdsAreOfCalls
    <3> QED BY <3>1, <3>2
  <2>2. ASSUME NEW u \in Sent
        PROVE  \E q \in Requests : \E k \in Nat : k < exec'[q].n /\ u.id = <<q, k>>
    <3>1. PICK q \in Requests : \E k \in Nat : k < exec[q].n /\ u.id = <<q, k>>
      BY DEF ClientInv, IdsAreOfCalls
    <3>2. PICK k \in Nat : k < exec[q].n /\ u.id = <<q, k>>
      BY <3>1
    <3>3. k < exec'[q].n
      <4>1. CASE q = r
        BY <1>5, <1>8, <3>2, <4>1
      <4>2. CASE q # r
        BY <1>7, <3>2, <4>2
      <4> QED BY <4>1, <4>2
    <3> QED BY <3>2, <3>3
  <2> QED BY <1>11, <2>1, <2>2 DEF IdsAreOfCalls
<1>14. SentOnce'
  <2>1. \A q \in Requests : exec'[q].stage \in {"register", "endorse"} =>
           \A u \in Sent : u.id # exec'[q].tx.id
    BY <1>7, <1>8, <1>12 DEF ClientInv, SentOnce
  <2>2. \A q \in Requests : exec'[q].stage # "idle" =>
           \A u \in Sent : u.id = exec'[q].tx.id => u = exec'[q].tx
    BY <1>7, <1>8, <1>12 DEF ClientInv, SentOnce
  <2> QED BY <1>2, <1>11, <2>1, <2>2 DEF ClientInv, SentOnce
<1>15. StatusIsTrue'
  <2> SUFFICES ASSUME NEW q \in Requests PROVE TrueStatus(q)'
    BY DEF StatusIsTrue
  <2>1. CASE q = r
    BY <1>8, <2>1 DEF TrueStatus
  <2>2. CASE q # r
    <3>1. exec'[q] = exec[q] /\ TrueStatus(q)
      BY <1>7, <2>2 DEF ClientInv, StatusIsTrue
    <3> QED BY <1>2, <3>1 DEF TrueStatus, AtPeer
  <2> QED BY <2>1, <2>2
<1>16. Held'
  <2>1. \A q \in Requests : exec'[q].stage \in Waiting <=> exec[q].stage \in Waiting
    BY <1>2, <1>7, <1>8 DEF Waiting
  <2>2. \A q \in Requests : exec[q].stage \in Waiting => exec'[q].tx = exec[q].tx
    BY <1>2, <1>7
  <2> QED BY <1>2, <2>1, <2>2 DEF ClientInv, Held
<1> QED BY <1>4, <1>10, <1>13, <1>14, <1>15, <1>16 DEF ClientInv

(* A block takes a transaction from the pool; the calls are as they were.  *)
LEMMA OrderInv ==
    ASSUME ClientInv, Order, UNCHANGED clientVars
    PROVE  ClientInv'
<1>1. PICK tx \in pool : /\ pool' = pool \ {tx}
                         /\ chain' = Append(chain, [tx |-> tx, db |-> PutState(TipState, tx)])
  BY DEF Order
<1>2. height' = height /\ exec' = exec /\ registrations' = registrations
  BY DEF Order, clientVars
<1>3. FabricTypeOK' /\ HasTx'
  BY NetworkType DEF ClientInv, Network
<1>4. LedgerTypeOK /\ Len(chain) \in Nat
  BY SentType DEF ClientInv, FabricTypeOK
<1> DEFINE block == [tx |-> tx, db |-> PutState(TipState, tx)]
<1>5. block \in [tx : Tx, db : Database] /\ block.tx = tx
  BY <1>4, TipStateType, PutStateType DEF LedgerTypeOK
<1> HIDE DEF block
<1>6. /\ Len(chain') = Len(chain) + 1
      /\ \A i \in 1 .. Len(chain) : chain'[i] = chain[i]
      /\ chain'[Len(chain) + 1] = block
  <2>1. chain' = Append(chain, block)
    BY <1>1 DEF block
  <2> QED BY <1>4, <1>5, <2>1, AppendProperties DEF LedgerTypeOK
<1>7. ChainTx' = ChainTx \cup {tx}
  <2>1. \A i \in 1 .. Len(chain') : i \in 1 .. Len(chain) \/ i = Len(chain) + 1
    BY <1>4, <1>6
  <2>2. ASSUME NEW u \in ChainTx' PROVE u \in ChainTx \cup {tx}
    <3>1. PICK i \in 1 .. Len(chain') : u = chain'[i].tx
      BY DEF ChainTx
    <3> QED BY <1>5, <1>6, <2>1, <3>1 DEF ChainTx
  <2>3. ASSUME NEW u \in ChainTx PROVE u \in ChainTx'
    <3>1. PICK i \in 1 .. Len(chain) : u = chain[i].tx
      BY DEF ChainTx
    <3>2. i \in 1 .. Len(chain') /\ chain'[i].tx = u
      BY <1>4, <1>6, <3>1
    <3> QED BY <3>2 DEF ChainTx
  <2>4. tx \in ChainTx'
    <3>1. Len(chain) + 1 \in 1 .. Len(chain') /\ chain'[Len(chain) + 1].tx = tx
      BY <1>4, <1>5, <1>6
    <3> QED BY <3>1 DEF ChainTx
  <2> QED BY <2>2, <2>3, <2>4
<1>8. Sent' = Sent
  BY <1>1, <1>7 DEF Sent
<1>9. IdsAreOfCalls'
  BY <1>2, <1>8 DEF ClientInv, IdsAreOfCalls
<1>10. SentOnce'
  <2>1. \A i \in 1 .. Len(chain) : chain[i].tx # tx
    BY <1>1 DEF ClientInv, SentOnce
  <2>2. \A i \in 1 .. Len(chain') : i \in 1 .. Len(chain) \/ i = Len(chain) + 1
    BY <1>4, <1>6
  <2>3. \A i \in 1 .. Len(chain') : chain'[i].tx \notin pool'
    BY <1>1, <1>5, <1>6, <2>2 DEF ClientInv, SentOnce
  <2>4. \A i, j \in 1 .. Len(chain') : chain'[i].tx = chain'[j].tx => i = j
    BY <1>5, <1>6, <2>1, <2>2 DEF ClientInv, SentOnce
  <2> QED BY <1>2, <1>8, <2>3, <2>4 DEF ClientInv, SentOnce
<1>11. StatusIsTrue'
  <2>1. ASSUME NEW u, AtPeer(u) PROVE AtPeer(u)'
    <3>1. PICK p \in Peers : \E i \in 1 .. height[p] : chain[i].tx = u
      BY <2>1 DEF AtPeer
    <3>2. PICK i \in 1 .. height[p] : chain[i].tx = u
      BY <3>1
    <3>3. height[p] \in 0 .. Len(chain)
      BY <1>4 DEF LedgerTypeOK
    <3>4. i \in 1 .. Len(chain)
      BY <1>4, <3>3
    <3>5. chain'[i].tx = u
      BY <1>6, <3>2, <3>4
    <3> QED BY <1>2, <3>2, <3>5 DEF AtPeer
  <2> SUFFICES ASSUME NEW q \in Requests PROVE TrueStatus(q)'
    BY DEF StatusIsTrue
  <2>2. TrueStatus(q)
    BY DEF ClientInv, StatusIsTrue
  <2> QED BY <1>2, <2>1, <2>2 DEF TrueStatus
<1>12. Held'
  BY <1>2 DEF ClientInv, Held
<1> QED BY <1>3, <1>9, <1>10, <1>11, <1>12 DEF ClientInv

(* A peer that commits one block more still has those before.              *)
LEMMA PeerCommitInv ==
    ASSUME ClientInv, NEW p \in Peers, PeerCommit(p), UNCHANGED clientVars
    PROVE  ClientInv'
<1>1. /\ UNCHANGED <<chain, pool, exec, registrations>>
      /\ height' = [height EXCEPT ![p] = @ + 1]
  BY DEF PeerCommit, clientVars
<1>2. FabricTypeOK' /\ HasTx'
  BY NetworkType DEF ClientInv, Network
<1>3. Sent' = Sent
  BY <1>1 DEF Sent, ChainTx
<1>4. ASSUME NEW u, AtPeer(u) PROVE AtPeer(u)'
  <2>1. PICK q \in Peers : \E i \in 1 .. height[q] : chain[i].tx = u
    BY <1>4 DEF AtPeer
  <2>2. height[q] \in Nat /\ height'[q] \in Nat /\ height'[q] >= height[q]
    BY <1>1 DEF ClientInv, FabricTypeOK, LedgerTypeOK
  <2>3. \E i \in 1 .. height'[q] : chain'[i].tx = u
    BY <1>1, <2>1, <2>2
  <2> QED BY <2>3 DEF AtPeer
<1>5. StatusIsTrue'
  <2> SUFFICES ASSUME NEW q \in Requests PROVE TrueStatus(q)'
    BY DEF StatusIsTrue
  <2>2. TrueStatus(q)
    BY DEF ClientInv, StatusIsTrue
  <2> QED BY <1>1, <1>4, <2>2 DEF TrueStatus
<1> QED BY <1>1, <1>2, <1>3, <1>5 DEF ClientInv, IdsAreOfCalls, SentOnce, Held

(* A block published gives its status to the call that sent it, and its     *)
(* event with it (dispatcher.go:542-573).                                  *)
LEMMA DispatchInv ==
    ASSUME ClientInv, Dispatch
    PROVE  ClientInv'
<1> DEFINE tx == chain[seen + 1].tx
<1>1. /\ exec' = [r \in Requests |-> Notify(exec[r], tx)]
      /\ UNCHANGED <<chain, pool, height, registrations>>
  BY DEF Dispatch, ledgerVars
<1>2. FabricTypeOK' /\ HasTx'
  BY DispatchType DEF ClientInv
<1>3. AtPeer(tx) /\ tx \in Sent
  <2>1. PICK p \in Peers : seen < height[p]
    BY DEF Dispatch
  <2>2. Len(chain) \in Nat /\ height[p] \in 0 .. Len(chain) /\ seen \in 0 .. Len(chain)
    BY SentType DEF ClientInv, FabricTypeOK, LedgerTypeOK
  <2>3. seen + 1 \in 1 .. height[p] /\ seen + 1 \in 1 .. Len(chain)
    BY <2>1, <2>2
  <2> QED BY <2>3 DEF AtPeer, Sent, ChainTx
<1> HIDE DEF tx
<1>4. ASSUME NEW q \in Requests
      PROVE  /\ exec'[q].stage = exec[q].stage /\ exec'[q].tx = exec[q].tx
             /\ exec'[q].n = exec[q].n
             /\ exec'[q].status =
                  (exec[q].status \/ (exec[q].stage = "commit" /\ exec[q].tx.id = tx.id))
             /\ exec'[q].notified =
                  (exec[q].notified \/ (exec[q].stage \in Waiting /\ FilterMatches(exec[q].tx, tx)))
  <2>1. exec[q] \in Call
    BY DEF ClientInv, FabricTypeOK
  <2>2. exec'[q] = Notify(exec[q], tx)
    BY <1>1
  <2> QED BY <2>1, <2>2 DEF Notify, Call
<1>5. Sent' = Sent
  BY <1>1 DEF Sent, ChainTx
<1>6. IdsAreOfCalls'
  BY <1>4, <1>5 DEF ClientInv, IdsAreOfCalls
<1>7. SentOnce'
  BY <1>1, <1>4, <1>5 DEF ClientInv, SentOnce
<1>8. StatusIsTrue'
  <2> SUFFICES ASSUME NEW q \in Requests PROVE TrueStatus(q)'
    BY DEF StatusIsTrue
  <2>1. TrueStatus(q)
    BY DEF ClientInv, StatusIsTrue
  <2>2. AtPeer(exec[q].tx)' <=> AtPeer(exec[q].tx)
    BY <1>1, <1>4 DEF AtPeer
  <2>3. CASE exec[q].stage = "commit" /\ exec[q].tx.id = tx.id
    <3>1. exec[q].tx = tx
      BY <1>3, <2>3 DEF ClientInv, SentOnce
    <3>2. AtPeer(exec[q].tx)
      BY <1>3, <3>1
    <3>3. <<exec[q].tx.certId, exec[q].tx.certId>> \in Matches => exec'[q].notified
      BY <1>4, <2>3, <3>1 DEF FilterMatches, Waiting
    <3> QED BY <1>4, <2>1, <2>2, <2>3, <3>2, <3>3 DEF TrueStatus
  <2>4. CASE ~ (exec[q].stage = "commit" /\ exec[q].tx.id = tx.id)
    <3>1. exec'[q].status <=> exec[q].status
      BY <1>4, <2>4
    <3>2. exec[q].notified => exec'[q].notified
      BY <1>4
    <3> QED BY <1>4, <2>1, <2>2, <3>1, <3>2 DEF TrueStatus
  <2> QED BY <2>3, <2>4
<1>9. Held'
  BY <1>1, <1>4 DEF ClientInv, Held
<1> QED BY <1>2, <1>6, <1>7, <1>8, <1>9 DEF ClientInv

(* A restart forgets the calls but neither what they sent nor their ids     *)
(* (server.go, the process dies and is started again).                     *)
LEMMA RestartInv ==
    ASSUME ClientInv, Restart
    PROVE  ClientInv'
<1>1. registrations' = {} /\ UNCHANGED <<chain, pool, height>>
  BY DEF Restart, ledgerVars
<1>2. FabricTypeOK' /\ HasTx'
  BY RestartType DEF ClientInv
<1>3. ASSUME NEW q \in Requests
      PROVE  exec'[q].stage = "idle" /\ exec'[q].n = exec[q].n /\ exec'[q].status = FALSE
  BY DEF Restart, ClientInv, FabricTypeOK, Call
<1>4. Sent' = Sent
  BY <1>1 DEF Sent, ChainTx
<1>5. IdsAreOfCalls'
  BY <1>3, <1>4 DEF ClientInv, IdsAreOfCalls
<1>6. SentOnce'
  BY <1>1, <1>3, <1>4 DEF ClientInv, SentOnce
<1>7. StatusIsTrue'
  BY <1>3 DEF StatusIsTrue, TrueStatus
<1>8. Held'
  BY <1>1, <1>3 DEF Held, Waiting
<1> QED BY <1>2, <1>5, <1>6, <1>7, <1>8 DEF ClientInv

(* At the start nothing has been sent, and nobody waits.                   *)
LEMMA FabricInitInv ==
    ASSUME FabricInit
    PROVE  ClientInv
<1>1. FabricTypeOK /\ HasTx
  BY FabricInitType
<1>2. /\ Len(chain) = 0 /\ pool = {} /\ registrations = {}
      /\ \A r \in Requests : exec[r].stage = "idle" /\ exec[r].status = FALSE
  BY EmptySeq DEF FabricInit, LedgerInit, Idle
<1>3. Sent = {}
  BY <1>2 DEF Sent, ChainTx
<1>4. IdsAreOfCalls /\ SentOnce
  BY <1>2, <1>3 DEF IdsAreOfCalls, SentOnce
<1>5. StatusIsTrue /\ Held
  BY <1>2 DEF StatusIsTrue, TrueStatus, Held, Waiting
<1> QED BY <1>1, <1>4, <1>5 DEF ClientInv

(* The orderer and the peers.                                              *)
LEMMA NetworkInv ==
    ASSUME ClientInv, Network
    PROVE  ClientInv'
<1>1. UNCHANGED clientVars
  BY DEF Network
<1>2. ASSUME NEW p \in Peers, PeerCommit(p) PROVE ClientInv'
  BY <1>1, <1>2, PeerCommitInv
<1> QED BY <1>1, <1>2, OrderInv DEF Network

(* A step of somebody else.                                                *)
LEMMA StutterInv ==
    ASSUME ClientInv, UNCHANGED fabricVars
    PROVE  ClientInv'
<1>1. UNCHANGED <<chain, pool, height, exec, registrations, seen>>
  BY DEF fabricVars, ledgerVars, clientVars
<1>2. FabricTypeOK' /\ HasTx' /\ Sent' = Sent
  BY <1>1 DEF ClientInv, FabricTypeOK, LedgerTypeOK, HasTx, Sent, ChainTx
<1>3. IdsAreOfCalls' /\ SentOnce' /\ Held'
  BY <1>1, <1>2 DEF ClientInv, IdsAreOfCalls, SentOnce, Held
<1>4. StatusIsTrue'
  BY <1>1 DEF ClientInv, StatusIsTrue, TrueStatus, AtPeer
<1> QED BY <1>2, <1>3, <1>4 DEF ClientInv

-----------------------------------------------------------------------------
(* What the invariant says of the properties.                              *)

(* Success is a commit.                                                    *)
LEMMA InvSuccess ==
    ASSUME ClientInv
    PROVE  SuccessMeansCommitted
BY DEF ClientInv, StatusIsTrue, TrueStatus, AtPeer, SuccessMeansCommitted

(* Blocks with one id are one block.                                       *)
LEMMA InvWritesOnce ==
    ASSUME ClientInv
    PROVE  WrittenAtMostOnce
<1> SUFFICES ASSUME NEW i \in 1 .. Len(chain), NEW j \in 1 .. Len(chain),
                    chain[i].tx.id = chain[j].tx.id
             PROVE  i = j
  BY DEF WrittenAtMostOnce
<1>1. chain[i].tx \in Sent /\ chain[j].tx \in Sent
  BY DEF Sent, ChainTx
<1>2. chain[i].tx = chain[j].tx
  BY <1>1 DEF ClientInv, SentOnce
<1> QED BY <1>2 DEF ClientInv, SentOnce

(* One live call holds each registration.                                  *)
LEMMA InvRegistrations ==
    ASSUME ClientInv
    PROVE  RegistrationsAreLive
<1> DEFINE Holders(key) == {r \in Requests : exec[r].stage \in Waiting
                                             /\ EventKey(exec[r].tx) = key}
<1>1. ASSUME NEW key \in registrations PROVE Cardinality(Holders(key)) = 1
  <2>1. PICK r \in Requests : exec[r].stage \in Waiting /\ EventKey(exec[r].tx) = key
    BY DEF ClientInv, Held
  <2>2. Holders(key) = {r}
    BY <2>1 DEF ClientInv, Held
  <2> QED BY <2>2, FS_Singleton
<1>2. \A r \in Requests : exec[r].stage \in Waiting => EventKey(exec[r].tx) \in registrations
  BY DEF ClientInv, Held
<1> QED BY <1>1, <1>2 DEF RegistrationsAreLive

(* A status comes with its event.                                          *)
LEMMA InvNotified ==
    ASSUME ClientInv
    PROVE  CommittedIsNotified
BY DEF ClientInv, StatusIsTrue, TrueStatus, CommittedIsNotified
=============================================================================
