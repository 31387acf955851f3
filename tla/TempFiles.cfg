SPECIFICATION Spec
CONSTANTS
    c1 = c1
    c2 = c2
    long = long
    short = short
    text = text
    r1 = r1
    r2 = r2
    r3 = r3
    NoJob = NoJob
    NoInode = NoInode
    NoFile = NoFile
    Certs = {c1, c2}
    Files = {long, short, text}
    Pdfs = {long, short}
    Blocks <- Lengths
    Requests <- ThreeRequests
    Jobs <- ManyJobs
INVARIANTS
    TypeOK
    LoneUploadIsWhole
    LoneDownloadIsExact
    StoredBlocksAreOwn
    DescriptorsAreAccounted
SYMMETRY Symmetry
