\* Two schedulers in one process, each run by two goroutines, with a shared
\* leader, leaders of their own or none.
SPECIFICATION Spec
CONSTANTS
    s1 = s1
    s2 = s2
    l1 = l1
    l2 = l2
    j1 = j1
    j2 = j2
    c1 = c1
    c2 = c2
    NoNode = NoNode
    NoLeader = NoLeader
    Schedulers = {s1, s2}
    Leaders = {l1, l2}
    Callers = {c1, c2}
    Names = {j1, j2}
    ScheduleOf <- EndingSchedules
    LeaderChoices <- AllLeaders
    MaxTime = 2
SYMMETRY CallerSymmetry
INVARIANTS
    OneLoop
    EnsuredBeforeLoop
    NoDeadLeader
PROPERTIES
    LeadsWhileRunning
