\* One node replays a window and its Run is cancelled.
SPECIFICATION LiveSpec
CONSTANTS
    n1 = n1
    n2 = n2
    j1 = j1
    j2 = j2
    NoNode = NoNode
    Nodes = {n1}
    Jobs = {j1}
    Registry <- ReplayRegistry
    Backend = "memory"
    LeaderEnabled = FALSE
    HasGrace = TRUE
    TickInterval = 1
    FetchLimit = 1
    MaxCatchup = 3
    Skew <- NoSkew
    FaultKinds = {"cancel"}
    MaxFaults = 1
    MaxTime = 6
    MaxCopies = 1
PROPERTIES
    RunReturns
