\* Two nodes, one cron job that is retried once; one crash or one failed or
\* unanswered storage call.
SPECIFICATION Spec
CONSTANTS
    n1 = n1
    n2 = n2
    j1 = j1
    j2 = j2
    NoNode = NoNode
    Nodes = {n1, n2}
    Jobs = {j1}
    Registry <- RetryRegistry
    Backend = "postgres"
    LeaderEnabled = FALSE
    HasGrace = TRUE
    TickInterval = 1
    FetchLimit = 1
    MaxCatchup = 3
    Skew <- NoSkew
    FaultKinds = {"crash", "storage"}
    MaxFaults = 1
    MaxTime = 3
    MaxCopies = 1
SYMMETRY NodeSymmetry
INVARIANTS
    TypeOK
    OneHandlerPerWindow
    RetryBudget
    TrailComplete
PROPERTIES
    ImplementsClaims
