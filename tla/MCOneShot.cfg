\* One node, one At job, no faults, MemoryStorage.
SPECIFICATION LiveSpec
CONSTANTS
    n1 = n1
    n2 = n2
    j1 = j1
    j2 = j2
    NoNode = NoNode
    Nodes = {n1}
    Jobs = {j1}
    Registry <- OneShotRegistry
    Backend = "memory"
    LeaderEnabled = FALSE
    HasGrace = TRUE
    TickInterval = 1
    FetchLimit = 1
    MaxCatchup = 3
    Skew <- NoSkew
    FaultKinds = {"crash", "storage"}
    MaxFaults = 0
    MaxTime = 4
    MaxCopies = 1
PROPERTIES
    OneShotFires
