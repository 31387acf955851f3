SPECIFICATION FabricSpec
CONSTANTS
    c1 = c1
    c2 = c2
    b1 = b1
    f1 = f1
    p1 = p1
    p2 = p2
    r1 = r1
    r2 = r2
    NoCert = NoCert
    NoFile = NoFile
    NoTx = NoTx
    Certs <- MCCerts
    Bodies = {b1}
    Files = {f1}
    Peers <- MCPeers
    Requests <- MCRequests
    Compiles = {c1, c2}
    Matches <- MetaAndPrefix
    Faults = {"endorse", "ack", "crash"}
    Calls <- MCCalls
    MaxCalls = 2
INVARIANTS
    FabricTypeOK
    SuccessMeansCommitted
    RegistrationsAreLive
    CommittedIsNotified
    WrittenAtMostOnce
SYMMETRY Symmetry
