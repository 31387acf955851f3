---------------------------- MODULE FabricCalls -----------------------------
(***************************************************************************)
(* The client on its own: any request makes up to MaxCalls calls, one      *)
(* after another.  CertificateIO composes these actions with its handlers. *)
(***************************************************************************)
EXTENDS FabricClient

CONSTANTS
    MaxCalls,   \* bound on the calls of one request
    Calls       \* the calls it picks from

(* What the callers of Execute pass to it.                                 *)
Argument == [fcn : {"postCertificate"}, certId : Certs, value : Certificate] \cup
            [fcn : {"postUploadFile"},  certId : Certs, value : Files]

ASSUME CallsAssumption == MaxCalls \in Nat /\ Calls \subseteq Argument

CallExecute(r) ==
    /\ exec[r].n < MaxCalls
    /\ \E call \in Calls : Enter(r, call.fcn, call.certId, call.value)

Finished ==
    /\ \A r \in Requests : exec[r].n = MaxCalls /\ exec[r].stage \in Returned
    /\ UNCHANGED fabricVars

FabricNext ==
    \/ \E r \in Requests : CallExecute(r) \/ ExecuteStep(r)
    \/ Network
    \/ Dispatch
    \/ Restart
    \/ Finished

FabricSpec == FabricInit /\ [][FabricNext]_fabricVars
=============================================================================
