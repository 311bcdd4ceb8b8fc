SPECIFICATION Spec
CONSTANTS
    MaxInstant = 6
    MaxLimit = 3
    MaxAttempt = 4
    MaxOptions = 3
    MaxRows = 4
INVARIANTS
    IterateIsWindow
    BackoffWithinJitter
    LeaderOnceNamed
    NodeIDAccepted
    FetchDueIsOldest
    JobsAreSorted
