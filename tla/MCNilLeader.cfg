\* One scheduler option at most.
SPECIFICATION Spec
CONSTANTS
    MaxInstant = 6
    MaxLimit = 3
    MaxAttempt = 4
    MaxOptions = 1
    MaxRows = 2
INVARIANTS
    LeaderAsDocumented
