--------------------------- MODULE MCFabricCalls ---------------------------
(* Small instances of FabricCalls.                                         *)
EXTENDS FabricCalls, TLC

CONSTANTS c1, c2, b1, f1, p1, p2, r1, r2

MCCerts    == {c1, c2}
MCPeers    == {p1, p2}
MCRequests == {r1, r2}

PostCall(c) == [fcn |-> "postCertificate", certId |-> c,
                value |-> [body |-> b1, isOpen |-> FALSE, isCompleted |-> TRUE,
                           isDeleted |-> FALSE, hasUpload |-> FALSE]]

MCCalls == {PostCall(c1), PostCall(c2)}

(* Fit for the invariants, the only properties checked here.               *)
Symmetry == Permutations(MCPeers) \cup Permutations(MCRequests)

OwnEvents == {<<c, c>> : c \in Certs}

(* "12(3)" and "12": the filter of c1 compiles and does not match its own  *)
(* event, the filter of c2 matches the events of both.                     *)
MetaAndPrefix == {<<c2, c2>>, <<c2, c1>>}
=============================================================================
