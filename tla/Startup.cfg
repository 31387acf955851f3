SPECIFICATION Spec
CONSTANTS
    p1 = p1
    p2 = p2
    Peers = {p1, p2}
    MaxRuns = 4
INVARIANTS
    TypeOK
    ReadyMeansDeployed
    OnlyTheCreatorStarts
    RunningIsInstalled
PROPERTIES
    ServesInTheEnd
CHECK_DEADLOCK FALSE
