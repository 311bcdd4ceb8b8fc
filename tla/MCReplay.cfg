\* Two nodes and the leader lock, one RunAll job that can be missed by more than
\* 3 ticks; one node crashes.
SPECIFICATION Spec
CONSTANTS
    n1 = n1
    n2 = n2
    j1 = j1
    j2 = j2
    NoNode = NoNode
    Nodes = {n1, n2}
    Jobs = {j1}
    Registry <- ReplayRegistry
    Backend = "postgres"
    LeaderEnabled = TRUE
    HasGrace = TRUE
    TickInterval = 1
    FetchLimit = 1
    MaxCatchup = 3
    Skew <- NoSkew
    FaultKinds = {"crash"}
    MaxFaults = 1
    MaxTime = 6
    MaxCopies = 1
SYMMETRY NodeSymmetry
INVARIANTS
    OneReplay
    WindowReplayed
