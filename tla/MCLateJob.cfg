\* One scheduler without a leader, run by one goroutine; one job, which has
\* fires for ever.
SPECIFICATION LiveSpec
CONSTANTS
    s1 = s1
    s2 = s2
    l1 = l1
    l2 = l2
    j1 = j1
    j2 = j2
    c1 = c1
    c2 = c2
    NoNode = NoNode
    NoLeader = NoLeader
    Schedulers = {s1}
    Leaders = {l1}
    Callers = {c1}
    Names = {j1}
    ScheduleOf <- EndlessSchedule
    LeaderChoices <- OneChoice
    MaxTime = 2
PROPERTIES
    ScheduledIsPersisted
