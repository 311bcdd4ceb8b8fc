\* One node whose RunAll job misses three fires, with a replay cap of one; no faults.
SPECIFICATION Spec
CONSTANTS
    n1 = n1
    n2 = n2
    j1 = j1
    j2 = j2
    NoNode = NoNode
    Nodes = {n1}
    Jobs = {j1}
    Registry <- ReplayRegistry
    Backend = "postgres"
    LeaderEnabled = TRUE
    HasGrace = TRUE
    TickInterval = 1
    FetchLimit = 1
    MaxCatchup = 1
    Skew <- NoSkew
    FaultKinds = {"crash", "storage"}
    MaxFaults = 0
    MaxTime = 6
    MaxCopies = 1
INVARIANTS
    MissedFiresRun
