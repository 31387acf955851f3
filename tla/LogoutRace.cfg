SPECIFICATION SessionSpec
CONSTANTS
    cl1 = cl1
    cl2 = cl2
    h1 = h1
    h2 = h2
    s1 = s1
    s2 = s2
    o1 = o1
    s3 = s3
    o2 = o2
    o3 = o3
    NoObj = NoObj
    NoCookie = NoCookie
    Unset = Unset
    Clients = {cl1}
    Handlers <- HandlerPair
    Sids <- SidPair
    Objects <- ObjectPair
    Ops = {"login", "logout"}
    MaxLife = 1
    MayRestart = FALSE
INVARIANTS
    LogoutNeverFails
