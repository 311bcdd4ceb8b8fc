\* One node, a RunAll job whose period is longer than the miss threshold; no
\* faults.
SPECIFICATION Spec
CONSTANTS
    n1 = n1
    n2 = n2
    j1 = j1
    j2 = j2
    NoNode = NoNode
    Nodes = {n1}
    Jobs = {j1}
    Registry <- HourlyRegistry
    Backend = "postgres"
    LeaderEnabled = TRUE
    HasGrace = TRUE
    TickInterval = 1
    FetchLimit = 1
    MaxCatchup = 3
    Skew <- NoSkew
    FaultKinds = {"crash", "storage"}
    MaxFaults = 0
    MaxTime = 6
    MaxCopies = 2
INVARIANTS
    ReplayedAtMostOnce
