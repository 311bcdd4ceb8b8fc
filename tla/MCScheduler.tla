---------------------------- MODULE MCScheduler ----------------------------
(***************************************************************************)
(* Instances of Scheduler for TLC.                                         *)
(***************************************************************************)
EXTENDS Scheduler, TLC

CONSTANTS c1, c2, s1, s2, l1, l2, j1, j2

\* j1 has fires for ever, j2 none after the first instant.
EndingSchedules == (j1 :> [kind |-> "every", d |-> 1]) @@ (j2 :> [kind |-> "at", t |-> 2])
EndlessSchedule == [j \in Names |-> [kind |-> "every", d |-> 1]]

SharedLeader == [s \in Schedulers |-> l1]
OwnLeaders == (s1 :> l1) @@ (s2 :> l2)
NoLeaders == [s \in Schedulers |-> NoLeader]
AllLeaders == {SharedLeader, OwnLeaders, NoLeaders}
OneChoice == {NoLeaders}

CallerSymmetry == Permutations(Callers)
=============================================================================
