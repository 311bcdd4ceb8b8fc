---------------------------- MODULE MCDispatcher ----------------------------
(***************************************************************************)
(* Instances of Dispatcher for TLC.                                        *)
(***************************************************************************)
EXTENDS Dispatcher, TLC

CONSTANTS n1, n2, j1, j2

Once == [maxAttempts |-> 1, initial |-> 1, max |-> 1, multiplier |-> [num |-> 3, den |-> 2]]
Twice == [maxAttempts |-> 2, initial |-> 1, max |-> 1, multiplier |-> [num |-> 3, den |-> 2]]

\* Cron expressions, by the instants they match; all go on beyond MaxTime.
EverySecond == [kind |-> "cron", fires |-> 1..20]
EveryOther == [kind |-> "cron", fires |-> {2 * i : i \in 1..10}]
Uneven == [kind |-> "cron", fires |-> {2, 4, 5, 8, 12}]

JobDef(schedule, leaderOnly, missedFire, retry) ==
    [schedule |-> schedule, leaderOnly |-> leaderOnly, missedFire |-> missedFire, retry |-> retry]

\* Every node registers the same jobs.
Same(jobs) == [n \in Nodes |-> jobs]

NoSkew == [n \in Nodes |-> 0]
OneAhead == (n1 :> 0) @@ (n2 :> 1)

RetryRegistry == Same(j1 :> JobDef(EverySecond, FALSE, "RunOnce", Twice))
ReplayRegistry == Same(j1 :> JobDef(Uneven, FALSE, "RunAll", Once))
LiveRegistry == Same(j1 :> JobDef(EveryOther, TRUE, "Skip", Once))
OneShotRegistry == Same(j1 :> JobDef([kind |-> "at", t |-> 2], FALSE, "RunOnce", Once))
IntervalRegistry == Same(j1 :> JobDef([kind |-> "every", d |-> 1], FALSE, "RunOnce", Once))
HourlyRegistry == Same(j1 :> JobDef([kind |-> "cron", fires |-> {2, 12}], FALSE, "RunAll", Once))

NodeSymmetry == Permutations(Nodes)
=============================================================================
