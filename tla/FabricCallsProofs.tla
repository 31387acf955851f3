------------------------- MODULE FabricCallsProofs -------------------------
(***************************************************************************)
(* What Execute promises, for any number of requests that call it any      *)
(* number of times, any filters and any faults: success is a commit, no    *)
(* call writes twice, no registration leaks, no committed call misses its  *)
(* event.                                                                  *)
(***************************************************************************)
EXTENDS FabricCalls, FabricClientProofs

(* A request calls Execute with one of its arguments.                      *)
LEMMA CallInv ==
    ASSUME ClientInv, NEW r \in Requests, CallExecute(r)
    PROVE  ClientInv'
<1>1. PICK call \in Calls : Enter(r, call.fcn, call.certId, call.value)
  BY DEF CallExecute
<1>2. /\ call.certId \in Certs
      /\ \/ call.fcn = "postCertificate" /\ call.value \in Certificate
         \/ call.fcn = "postUploadFile" /\ call.value \in Files
  BY CallsAssumption DEF Argument
<1> QED BY <1>1, <1>2, EnterInv

(* The invariant of the client.                                            *)
THEOREM ClientInvariant == FabricSpec => []ClientInv
<1>1. FabricInit => ClientInv
  BY FabricInitInv
<1>2. ClientInv /\ [FabricNext]_fabricVars => ClientInv'
  <2> SUFFICES ASSUME ClientInv, [FabricNext]_fabricVars
               PROVE  ClientInv'
    OBVIOUS
  <2>1. ASSUME NEW r \in Requests, CallExecute(r) PROVE ClientInv'
    BY <2>1, CallInv
  <2>2. ASSUME NEW r \in Requests, ExecuteStep(r) PROVE ClientInv'
    BY <2>2, ExecuteStepInv
  <2>3. CASE Network
    BY <2>3, NetworkInv
  <2>4. CASE Dispatch
    BY <2>4, DispatchInv
  <2>5. CASE Restart
    BY <2>5, RestartInv
  <2>6. CASE UNCHANGED fabricVars
    BY <2>6, StutterInv
  <2>7. CASE Finished
    BY <2>6, <2>7 DEF Finished
  <2> QED BY <2>1, <2>2, <2>3, <2>4, <2>5, <2>6, <2>7 DEF FabricNext
<1> QED BY <1>1, <1>2, PTL DEF FabricSpec

-----------------------------------------------------------------------------
(* Every state of the client is well typed.                                *)
THEOREM ClientIsTyped == FabricSpec => []FabricTypeOK
<1>1. ClientInv => FabricTypeOK
  BY DEF ClientInv
<1> QED BY <1>1, ClientInvariant, PTL

(* Execute returns success only for a transaction that a peer has          *)
(* committed (execute.go:26-39), whatever the filters match and whatever   *)
(* fails.                                                                  *)
THEOREM SuccessIsCommit == FabricSpec => []SuccessMeansCommitted
<1>1. ClientInv => SuccessMeansCommitted
  BY InvSuccess
<1> QED BY <1>1, ClientInvariant, PTL

(* No call of Execute writes twice (execute.go:26).                        *)
THEOREM CallsWriteOnce == FabricSpec => []WrittenAtMostOnce
<1>1. ClientInv => WrittenAtMostOnce
  BY InvWritesOnce
<1> QED BY <1>1, ClientInvariant, PTL

(* Registrations are one to one with the calls past RegisterChaincodeEvent *)
(* and not returned (execute.go:15-19): none leaks on any way out.         *)
THEOREM NoRegistrationLeaks == FabricSpec => []RegistrationsAreLive
<1>1. ClientInv => RegistrationsAreLive
  BY InvRegistrations
<1> QED BY <1>1, ClientInvariant, PTL

(* A call that waits for its event has it, if its filter matches its own   *)
(* event: it registered before it submitted (execute.go:15, 26).           *)
THEOREM EventComesWithStatus == FabricSpec => []CommittedIsNotified
<1>1. ClientInv => CommittedIsNotified
  BY InvNotified
<1> QED BY <1>1, ClientInvariant, PTL
=============================================================================
