\* Two nodes, the leader's connection is lost once.
SPECIFICATION Spec
CONSTANTS
    n1 = n1
    n2 = n2
    j1 = j1
    j2 = j2
    NoNode = NoNode
    Nodes = {n1, n2}
    Jobs = {j1}
    Registry <- ReplayRegistry
    Backend = "postgres"
    LeaderEnabled = TRUE
    HasGrace = TRUE
    TickInterval = 1
    FetchLimit = 1
    MaxCatchup = 3
    Skew <- NoSkew
    FaultKinds = {"connection"}
    MaxFaults = 1
    MaxTime = 6
    MaxCopies = 1
INVARIANTS
    OneReplay
