SPECIFICATION Spec
CONSTANTS
    c1 = c1
    c2 = c2
    c3 = c3
    b1 = b1
    b2 = b2
    p1 = p1
    p2 = p2
    r1 = r1
    w1 = w1
    NoCert = NoCert
    NoFile = NoFile
    NoQuery = NoQuery
    Start = Start
    Certs <- ThreeCerts
    Bodies = {b1, b2}
    Files = {}
    Peers <- TwoPeers
    Requests = {w1}
    Readers = {r1}
    Query <- Queries
    Writes <- FourWrites
    Dates = {1, 2}
    UpdateDate <- Clock
    Rank <- ByNumber
    TotalLimit = 2
INVARIANTS
    TypeOK
    BookmarksAdvance
    QuietListIsExact
PROPERTIES
    ListEnds
CHECK_DEADLOCK FALSE
