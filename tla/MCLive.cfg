\* Two nodes whose clocks differ by one, one leader-only job with the Skip policy; one fault of any
\* kind, a lost leader connection included.
SPECIFICATION LiveSpec
CONSTANTS
    n1 = n1
    n2 = n2
    j1 = j1
    j2 = j2
    NoNode = NoNode
    Nodes = {n1, n2}
    Jobs = {j1}
    Registry <- LiveRegistry
    Backend = "postgres"
    LeaderEnabled = TRUE
    HasGrace = TRUE
    TickInterval = 0
    FetchLimit = 1
    MaxCatchup = 3
    Skew <- OneAhead
    FaultKinds = {"crash", "cancel", "storage", "connection"}
    MaxFaults = 1
    MaxTime = 4
    MaxCopies = 1
PROPERTIES
    DueServed
    RunReturns
