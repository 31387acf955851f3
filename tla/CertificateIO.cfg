SPECIFICATION Spec
CONSTANTS
    c1 = c1
    c2 = c2
    b1 = b1
    f1 = f1
    p1 = p1
    p2 = p2
    r1 = r1
    r2 = r2
    NoCert = NoCert
    NoFile = NoFile
    NoTx = NoTx
    NoJob = NoJob
    NoAnswer = NoAnswer
    Certs <- TwoCerts
    Bodies = {b1}
    Files = {f1}
    Peers <- TwoPeers
    Requests <- TwoRequests
    Compiles <- TwoCerts
    Matches <- OwnEvents
    Faults = {"query", "endorse", "ack", "crash"}
    Jobs <- AllJobs
INVARIANTS
    TypeOK
    OpenCertHasFile
    HasUploadSound
    AnswerTellsLedger
    ClosedMarksAreWritten
    WritesAreDerived
PROPERTIES
    RequestsEnd
    ImplementsRegistry
