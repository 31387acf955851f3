------------------------------- MODULE Ledger -------------------------------
(***************************************************************************)
(* The channel "motcert": the chaincode (app/chaincode/main.go) and, as    *)
(* external parts, the orderer and the peers that run it.                  *)
(*                                                                         *)
(* The chaincode only ever calls PutState in its two writing functions: a  *)
(* transaction has an empty read set, so no peer ever invalidates one and  *)
(* every ordered transaction takes effect.  Peers apply the same chain at  *)
(* their own pace; a query is answered from the state of one peer.         *)
(***************************************************************************)
EXTENDS Naturals, Sequences

CONSTANTS
    Certs,      \* certificate numbers (certId)
    Bodies,     \* the other fields of a certificate, as opaque contents
    Files,      \* contents of PDF files
    Peers,      \* peers of org1
    Requests,   \* HTTP requests being served
    NoCert,     \* "no value under this key" for certificates
    NoFile      \* "no value under this key" for files

(***************************************************************************)
(* What the chaincode stores: struct Certificate, its text fields folded   *)
(* into "body", and the PDF of FileStruct.                                 *)
(***************************************************************************)
Certificate == [body        : Bodies,
                isOpen      : BOOLEAN,
                isCompleted : BOOLEAN,
                isDeleted   : BOOLEAN,
                hasUpload   : BOOLEAN]

ASSUME SentinelsAreFresh == NoCert \notin Certificate /\ NoFile \notin Files

Database == [cert : [Certs -> Certificate \cup {NoCert}],
             file : [Certs -> Files \cup {NoFile}]]

TxId == Requests \X Nat

CertTx == [id : TxId, fcn : {"postCertificate"}, certId : Certs, value : Certificate]
FileTx == [id : TxId, fcn : {"postUploadFile"},  certId : Certs, value : Files]
Tx     == CertTx \cup FileTx

VARIABLES
    chain,      \* the blocks, one transaction each, with the state they lead to
    pool,       \* transactions handed to the orderer and not yet in a block
    height      \* how many blocks each peer has committed

ledgerVars == <<chain, pool, height>>

LedgerTypeOK ==
    /\ chain \in Seq([tx : Tx, db : Database])
    /\ pool \subseteq Tx
    /\ height \in [Peers -> 0 .. Len(chain)]

GenesisState == [cert |-> [c \in Certs |-> NoCert],
                 file |-> [c \in Certs |-> NoFile]]

LedgerInit ==
    /\ chain = <<>>
    /\ pool = {}
    /\ height = [p \in Peers |-> 0]

(* The world state after the first h blocks, at the tip and at a peer.     *)
StateAt(h) == IF h = 0 THEN GenesisState ELSE chain[h].db
TipState   == StateAt(Len(chain))
PeerState(p) == StateAt(height[p])

(***************************************************************************)
(* The effect of a transaction.  postCertificate and postUploadFile put    *)
(* the value under the composite key ("certId", id) or ("certFile", id),   *)
(* whatever was there before; UpdateDate is not part of "body".            *)
(***************************************************************************)
MutPutStateWrongKey(db, tx) ==
    IF tx.fcn = "postCertificate"
    THEN [db EXCEPT !.cert[tx.certId] = tx.value, !.file[tx.certId] = NoFile]
    ELSE [db EXCEPT !.file[tx.certId] = tx.value]

PutState(db, tx) ==
    IF tx.fcn = "postCertificate"
    THEN [db EXCEPT !.cert[tx.certId] = tx.value]
    ELSE [db EXCEPT !.file[tx.certId] = tx.value]

(* The solo orderer cuts a block with any transaction it has received.     *)
Order ==
    /\ \E tx \in pool :
          /\ pool' = pool \ {tx}
          /\ chain' = Append(chain, [tx |-> tx, db |-> PutState(TipState, tx)])
    /\ UNCHANGED height

(* A peer validates and commits its next block.                            *)
MutPeerCommit(p) ==
    /\ height[p] <= Len(chain)
    /\ height' = [height EXCEPT ![p] = @ + 1]
    /\ UNCHANGED <<chain, pool>>

PeerCommit(p) ==
    /\ height[p] < Len(chain)
    /\ height' = [height EXCEPT ![p] = @ + 1]
    /\ UNCHANGED <<chain, pool>>

Committed == {chain[i].tx.id : i \in 1 .. Len(chain)}
=============================================================================
