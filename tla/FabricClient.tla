---------------------------- MODULE FabricClient ----------------------------
(***************************************************************************)
(* app/fabricClient: Query and Execute, with the part of the vendored SDK  *)
(* they stand on (the channel client's commit handler and the dispatcher   *)
(* of the event service).                                                  *)
(*                                                                         *)
(* Execute registers for a chaincode event, submits the transaction, waits *)
(* for its commit status inside client.Execute and then for the event.     *)
(* Each wait may end in a timeout while the transaction is still on its    *)
(* way: an error says nothing about the ledger.                            *)
(***************************************************************************)
EXTENDS Ledger, FiniteSets

CONSTANTS
    NoTx,       \* "no transaction" in a call that has not begun
    Compiles,   \* certIds whose event name is a valid regular expression
    Matches,    \* <<c, d>>: the filter made from c matches the event of d
    Faults      \* which of "query", "endorse", "ack" and "crash" may happen

ASSUME ClientAssumption ==
    /\ NoTx \notin Tx
    /\ Compiles \subseteq Certs
    /\ Matches \subseteq Certs \X Certs

VARIABLES
    exec,           \* the call of Execute each request is making, or made last
    registrations,  \* keys of the dispatcher's ccRegistrations
    seen            \* number of blocks the dispatcher has published

clientVars == <<exec, registrations, seen>>
fabricVars == <<ledgerVars, clientVars>>

Waiting  == {"endorse", "commit", "event"}
Returned == {"ok", "err"}
Stages   == {"idle", "register"} \cup Waiting \cup Returned

Call == [stage    : Stages,
         n        : Nat,              \* calls this request has made
         tx       : Tx \cup {NoTx},
         status   : BOOLEAN,          \* commit status is in its channel
         notified : BOOLEAN]          \* a chaincode event is in its channel

EventKey(tx) == <<tx.fcn, tx.certId>>
EventKeys    == {"postCertificate", "postUploadFile"} \X Certs

FabricTypeOK ==
    /\ LedgerTypeOK
    /\ exec \in [Requests -> Call]
    /\ registrations \subseteq EventKeys
    /\ seen \in 0 .. Len(chain)

Idle == [stage |-> "idle", n |-> 0, tx |-> NoTx, status |-> FALSE, notified |-> FALSE]

FabricInit ==
    /\ LedgerInit
    /\ exec = [r \in Requests |-> Idle]
    /\ registrations = {}
    /\ seen = 0

-----------------------------------------------------------------------------
(* One call of Execute.                                                    *)

Enter(r, fcn, c, value) ==
    /\ exec[r].stage \in {"idle"} \cup Returned
    /\ exec' = [exec EXCEPT ![r] =
            [stage    |-> "register",
             n        |-> @.n + 1,
             tx       |-> [id |-> <<r, @.n>>, fcn |-> fcn, certId |-> c, value |-> value],
             status   |-> FALSE,
             notified |-> FALSE]]
    /\ UNCHANGED <<ledgerVars, registrations, seen>>

(* RegisterChaincodeEvent: the filter is compiled, and a second            *)
(* registration under the same filter is refused.                          *)
Registrable(tx) == tx.certId \in Compiles /\ EventKey(tx) \notin registrations

Register(r) ==
    /\ exec[r].stage = "register"
    /\ Registrable(exec[r].tx)
    /\ registrations' = registrations \cup {EventKey(exec[r].tx)}
    /\ exec' = [exec EXCEPT ![r].stage = "endorse"]
    /\ UNCHANGED <<ledgerVars, seen>>

RegisterRefused(r) ==
    /\ exec[r].stage = "register"
    /\ ~ Registrable(exec[r].tx)
    /\ exec' = [exec EXCEPT ![r].stage = "err"]
    /\ UNCHANGED <<ledgerVars, registrations, seen>>

(* Every return past the registration runs the deferred Unregister.        *)
(* Definitions named Mut... are variants that the checks put in the place  *)
(* of the definition after them, to see the properties fail.               *)
MutReturn(r, outcome) ==
    /\ exec' = [exec EXCEPT ![r].stage = outcome]
    /\ registrations' = IF outcome = "err" THEN registrations
                        ELSE registrations \ {EventKey(exec[r].tx)}

Return(r, outcome) ==
    /\ exec' = [exec EXCEPT ![r].stage = outcome]
    /\ registrations' = registrations \ {EventKey(exec[r].tx)}

(* client.Execute: endorse, register for the status, hand to the orderer.  *)
Submit(r) ==
    /\ exec[r].stage = "endorse"
    /\ exec' = [exec EXCEPT ![r].stage = "commit"]
    /\ pool' = pool \cup {exec[r].tx}
    /\ UNCHANGED <<chain, height, registrations, seen>>

(* No peer endorses, or the request runs out of time before it is sent.    *)
EndorseFails(r) ==
    /\ "endorse" \in Faults
    /\ exec[r].stage = "endorse"
    /\ Return(r, "err")
    /\ UNCHANGED <<ledgerVars, seen>>

(* The orderer's acknowledgement is lost: the transaction is on its way.   *)
MutAckLost(r) ==
    /\ "ack" \in Faults
    /\ exec[r].stage = "endorse"
    /\ UNCHANGED <<exec, registrations>>
    /\ pool' = pool \cup {exec[r].tx}
    /\ UNCHANGED <<chain, height, seen>>

AckLost(r) ==
    /\ "ack" \in Faults
    /\ exec[r].stage = "endorse"
    /\ Return(r, "err")
    /\ pool' = pool \cup {exec[r].tx}
    /\ UNCHANGED <<chain, height, seen>>

(* CommitTxHandler: the status, or the deadline of the request.            *)
MutCommitStatus(r) ==
    /\ exec[r].stage = "commit"
    /\ exec[r].status \/ exec[r].notified
    /\ exec' = [exec EXCEPT ![r].stage = "event"]
    /\ UNCHANGED <<ledgerVars, registrations, seen>>

CommitStatus(r) ==
    /\ exec[r].stage = "commit"
    /\ exec[r].status
    /\ exec' = [exec EXCEPT ![r].stage = "event"]
    /\ UNCHANGED <<ledgerVars, registrations, seen>>

MutCommitTimeout(r) ==
    /\ exec[r].stage = "commit"
    /\ exec[r].status
    /\ Return(r, "err")
    /\ UNCHANGED <<ledgerVars, seen>>

CommitTimeout(r) ==
    /\ exec[r].stage = "commit"
    /\ Return(r, "err")
    /\ UNCHANGED <<ledgerVars, seen>>

(* The select on the notifier and the 30 second timer.  The dispatcher     *)
(* publishes a status and the event of the same transaction in one go, so  *)
(* the timer wins only when no event is coming.                            *)
EventReceived(r) ==
    /\ exec[r].stage = "event"
    /\ exec[r].notified
    /\ Return(r, "ok")
    /\ UNCHANGED <<ledgerVars, seen>>

EventTimeout(r) ==
    /\ exec[r].stage = "event"
    /\ ~ exec[r].notified
    /\ Return(r, "err")
    /\ UNCHANGED <<ledgerVars, seen>>

ExecuteStep(r) ==
    \/ Register(r) \/ RegisterRefused(r)
    \/ Submit(r) \/ EndorseFails(r) \/ AckLost(r)
    \/ CommitStatus(r) \/ CommitTimeout(r)
    \/ EventReceived(r) \/ EventTimeout(r)

-----------------------------------------------------------------------------
(* The dispatcher publishes a block: the commit status to whoever waits    *)
(* for that transaction, then the chaincode event to every registration    *)
(* whose filter matches it.                                                *)
FilterMatches(reg, tx) == reg.fcn = tx.fcn /\ <<reg.certId, tx.certId>> \in Matches

MutNotify(call, tx) ==
    [call EXCEPT !.status   = @ \/ (call.stage = "commit" /\ call.tx.id = tx.id),
                 !.notified = @ \/ (call.stage = "event" /\ FilterMatches(call.tx, tx))]

Notify(call, tx) ==
    [call EXCEPT !.status   = @ \/ (call.stage = "commit" /\ call.tx.id = tx.id),
                 !.notified = @ \/ (call.stage \in Waiting /\ FilterMatches(call.tx, tx))]

Dispatch ==
    /\ \E p \in Peers : seen < height[p]
    /\ seen' = seen + 1
    /\ exec' = [r \in Requests |-> Notify(exec[r], chain[seen + 1].tx)]
    /\ UNCHANGED <<ledgerVars, registrations>>

(* The process dies and is started again: its memory is gone, what it gave *)
(* to the orderer is not.  The new event service starts at the newest      *)
(* block of the peer it connects to, which it may publish once more.       *)
Restart ==
    /\ "crash" \in Faults
    /\ exec' = [r \in Requests |-> [exec[r] EXCEPT !.stage = "idle", !.tx = NoTx,
                                       !.status = FALSE, !.notified = FALSE]]
    /\ registrations' = {}
    /\ \E p \in Peers : seen' \in {h \in 0 .. height[p] : h + 1 >= height[p]}
    /\ UNCHANGED ledgerVars

Network ==
    /\ \/ Order
       \/ \E p \in Peers : PeerCommit(p)
    /\ UNCHANGED clientVars

-----------------------------------------------------------------------------
(***************************************************************************)
(* Properties.                                                             *)
(***************************************************************************)

(* Execute returns a transaction id only for a transaction that a peer has *)
(* committed, whatever other requests write, whichever events match its    *)
(* filter and whatever times out (execute.go:26-39).                       *)
SuccessMeansCommitted ==
    \A r \in Requests : exec[r].stage = "ok" =>
        \E p \in Peers : \E i \in 1 .. height[p] : chain[i].tx = exec[r].tx

(* A call of Execute writes at most once: neither a lost acknowledgement   *)
(* nor a timeout makes it submit again (execute.go:26).                    *)
WrittenAtMostOnce ==
    \A i, j \in 1 .. Len(chain) : chain[i].tx.id = chain[j].tx.id => i = j

(* Registrations are exactly those of the calls past RegisterChaincodeEvent*)
(* and not returned, one call for each: no way out of Execute leaks one,   *)
(* which would refuse every later write of that certificate                *)
(* (execute.go:15-19), and none is taken from under a waiting call.        *)
RegistrationsAreLive ==
    LET Holders(key) == {r \in Requests : exec[r].stage \in Waiting /\ EventKey(exec[r].tx) = key}
    IN  /\ \A key \in registrations : Cardinality(Holders(key)) = 1
        /\ \A r \in Requests : exec[r].stage \in Waiting => EventKey(exec[r].tx) \in registrations

(* When a call has its commit status it also has its event, because it     *)
(* registered before it submitted (execute.go:15, 26) and the dispatcher   *)
(* publishes both from one block: the 30 second timer of execute.go:35     *)
(* only ever fires for certIds whose filter misses their own event.        *)
CommittedIsNotified ==
    \A r \in Requests :
        LET c == exec[r].tx.certId
        IN  exec[r].stage = "event" /\ <<c, c>> \in Matches => exec[r].notified

(* "Wait for the result of the submission" (execute.go:31): a committed    *)
(* submission is never reported as an error by that wait.  It does not     *)
(* hold: the event name is a regular expression to the SDK                 *)
(* (client/event/event.go:102), and one made from a certId with characters *)
(* like "(" need not match itself.                                         *)
ResultIsAwaited ==
    \A r \in Requests : exec[r].stage = "event" => exec[r].notified
=============================================================================
