----------------------------- MODULE Scheduler -----------------------------
(***************************************************************************)
(* The lifecycle of the schedulers of one process (sundial.go): jobs are   *)
(* registered, Run is called, cancelled and called again by several        *)
(* goroutines, and Stop closes the registry.  Several schedulers share the *)
(* storage and may share a MemoryLeader.                                   *)
(*                                                                         *)
(* Everything under Scheduler.mu is one step; between two such sections    *)
(* other goroutines run.  What the loop does to rows and handlers is       *)
(* module Dispatcher; here a row only exists or not.                       *)
(***************************************************************************)
EXTENDS Schedule, MemoryLeader

CONSTANTS Callers,       \* goroutines that may call Run on a scheduler
          Names,         \* job names
          ScheduleOf,    \* name -> the schedule it is registered with
          NoLeader,      \* Scheduler.leader = nil
          LeaderChoices, \* what Scheduler.leader may be: functions of the scheduler
          MaxTime        \* bound: the last instant of the clock

ASSUME SchedulerAssumption ==
    /\ ScheduleOf \in [Names -> Schedules]
    /\ NoLeader \notin Leaders
    /\ LeaderChoices \subseteq [Schedulers -> Leaders \cup {NoLeader}]
    /\ MaxTime \in Nat

VARIABLES
    clock,
    leaderOf,   \* scheduler -> Scheduler.leader
    jobs,       \* scheduler -> names in Scheduler.jobs
    running,    \* scheduler -> Scheduler.running
    stopped,    \* scheduler -> Scheduler.stopped
    pc,         \* scheduler -> caller -> where its Run is
    slice,      \* scheduler -> caller -> the jobs Run copied under the lock
    left,       \* scheduler -> caller -> those it has still to ensure
    now,        \* scheduler -> caller -> the time Run read
    cancelled,  \* scheduler -> caller -> the context of its Run is cancelled
    rows        \* names with a row in the storage

runVars == <<pc, slice, left, now, cancelled>>
vars == <<clock, leaderOf, jobs, running, stopped, runVars, rows, leaderVars>>

Steps == {"idle", "ensure", "loop", "release", "mark"}

\* The values each variable can take.
TypeOK ==
    /\ LeaderTypeOK
    /\ clock \in Nat
    /\ leaderOf \in [Schedulers -> Leaders \cup {NoLeader}]
    /\ jobs \in [Schedulers -> SUBSET Names]
    /\ running \in [Schedulers -> BOOLEAN]
    /\ stopped \in [Schedulers -> BOOLEAN]
    /\ pc \in [Schedulers -> [Callers -> Steps]]
    /\ slice \in [Schedulers -> [Callers -> SUBSET Names]]
    /\ left \in [Schedulers -> [Callers -> SUBSET Names]]
    /\ now \in [Schedulers -> [Callers -> Nat]]
    /\ cancelled \in [Schedulers -> [Callers -> BOOLEAN]]
    /\ rows \subseteq Names

Each(x) == [s \in Schedulers |-> [c \in Callers |-> x]]

Init ==
    /\ LeaderInit
    /\ clock = 1
    /\ leaderOf \in LeaderChoices
    /\ jobs = [s \in Schedulers |-> {}]
    /\ running = [s \in Schedulers |-> FALSE]
    /\ stopped = [s \in Schedulers |-> FALSE]
    /\ pc = Each("idle")
    /\ slice = Each({})
    /\ left = Each({})
    /\ now = Each(0)
    /\ cancelled = Each(FALSE)
    /\ rows = {}

----------------------------------------------------------------------------
AdvanceClock ==
    /\ clock < MaxTime
    /\ clock' = clock + 1
    /\ UNCHANGED <<leaderOf, jobs, running, stopped, runVars, rows, leaderVars>>

\* A stopped scheduler and a name that is taken are refused.
Schedule(s, j) ==
    /\ ~ stopped[s] /\ j \notin jobs[s]
    /\ jobs' = [jobs EXCEPT ![s] = @ \cup {j}]
    /\ UNCHANGED <<clock, leaderOf, running, stopped, runVars, rows, leaderVars>>

Stop(s) ==
    /\ stopped' = [stopped EXCEPT ![s] = TRUE]
    /\ UNCHANGED <<clock, leaderOf, jobs, running, runVars, rows, leaderVars>>

----------------------------------------------------------------------------
(* Run.                                                                    *)

GoTo(s, c, step) == pc' = [pc EXCEPT ![s][c] = step]

\* Mutant: the running flag is set and never tested.
BeginUnchecked(s) == running' = [running EXCEPT ![s] = TRUE]

\* A Run in progress makes every other call return an error.
Begin(s) ==
    /\ ~ running[s]
    /\ running' = [running EXCEPT ![s] = TRUE]

Run(s, c) ==
    /\ pc[s][c] = "idle"
    /\ Begin(s)
    /\ slice' = [slice EXCEPT ![s][c] = jobs[s]]
    /\ left' = [left EXCEPT ![s][c] = jobs[s]]
    /\ now' = [now EXCEPT ![s][c] = clock]
    /\ GoTo(s, c, IF jobs[s] = {} THEN "loop" ELSE "ensure")
    /\ UNCHANGED <<clock, leaderOf, jobs, stopped, cancelled, rows, leaderVars>>

NoFire(j, t) == computeNextFire(ScheduleOf[j], t) = ZeroTime

\* Mutant: a job without a further fire ends the loop over the jobs.
RestAfterEnded(s, c, j) == IF NoFire(j, now[s][c]) THEN {} ELSE left[s][c] \ {j}

\* A job without a further fire is passed over.
Rest(s, c, j) == left[s][c] \ {j}

EnsureJob(s, c, j) ==
    /\ pc[s][c] = "ensure" /\ j \in left[s][c]
    /\ rows' = IF NoFire(j, now[s][c]) THEN rows ELSE rows \cup {j}
    /\ left' = [left EXCEPT ![s][c] = Rest(s, c, j)]
    /\ GoTo(s, c, IF Rest(s, c, j) = {} THEN "loop" ELSE "ensure")
    /\ UNCHANGED <<clock, leaderOf, jobs, running, stopped, slice, now, cancelled, leaderVars>>

\* The storage fails or the context is cancelled: Run ends without a loop.
EnsureFails(s, c) ==
    /\ pc[s][c] = "ensure"
    /\ GoTo(s, c, "mark")
    /\ UNCHANGED <<clock, leaderOf, jobs, running, stopped, slice, left, now, cancelled, rows, leaderVars>>

\* maybeRenewLeader, from the loop.
Renew(s, c) ==
    /\ pc[s][c] = "loop" /\ leaderOf[s] # NoLeader
    /\ TryAcquire(leaderOf[s], s)
    /\ UNCHANGED <<clock, leaderOf, jobs, running, stopped, runVars, rows>>

Cancel(s, c) ==
    /\ pc[s][c] # "idle" /\ ~ cancelled[s][c]
    /\ cancelled' = [cancelled EXCEPT ![s][c] = TRUE]
    /\ UNCHANGED <<clock, leaderOf, jobs, running, stopped, pc, slice, left, now, rows, leaderVars>>

\* Mutant: the scheduler is marked as not running before the leader is
\* released.
LeaveMarked(s) == running' = [running EXCEPT ![s] = FALSE]

\* The scheduler still counts as running when its loop has returned.
Leave(s) == UNCHANGED running

LoopReturns(s, c) ==
    /\ pc[s][c] = "loop" /\ cancelled[s][c]
    /\ GoTo(s, c, "release")
    /\ Leave(s)
    /\ UNCHANGED <<clock, leaderOf, jobs, stopped, slice, left, now, cancelled, rows, leaderVars>>

ReleaseLeader(s, c) ==
    /\ pc[s][c] = "release"
    /\ IF leaderOf[s] = NoLeader THEN UNCHANGED leaderVars ELSE Release(leaderOf[s])
    /\ GoTo(s, c, "mark")
    /\ UNCHANGED <<clock, leaderOf, jobs, running, stopped, slice, left, now, cancelled, rows>>

\* Run returns; the caller may call it again with a new context.
markStopped(s, c) ==
    /\ pc[s][c] = "mark"
    /\ running' = [running EXCEPT ![s] = FALSE]
    /\ GoTo(s, c, "idle")
    /\ slice' = [slice EXCEPT ![s][c] = {}]
    /\ left' = [left EXCEPT ![s][c] = {}]
    /\ now' = [now EXCEPT ![s][c] = 0]
    /\ cancelled' = [cancelled EXCEPT ![s][c] = FALSE]
    /\ UNCHANGED <<clock, leaderOf, jobs, stopped, rows, leaderVars>>

----------------------------------------------------------------------------
\* The steps of a call of Run once it has begun.
RunStep(s, c) ==
    \/ \E j \in Names : EnsureJob(s, c, j)
    \/ LoopReturns(s, c) \/ ReleaseLeader(s, c) \/ markStopped(s, c)

Next ==
    \/ AdvanceClock
    \/ \E s \in Schedulers : Stop(s) \/ \E j \in Names : Schedule(s, j)
    \/ \E s \in Schedulers, c \in Callers :
          Run(s, c) \/ RunStep(s, c) \/ EnsureFails(s, c) \/ Renew(s, c) \/ Cancel(s, c)

Spec == Init /\ [][Next]_vars

(* A Run that has begun goes on.  Nobody has to call Run, Schedule or Stop  *)
(* or to cancel a context.                                                  *)
LiveSpec == Spec /\ \A s \in Schedulers, c \in Callers : WF_vars(RunStep(s, c))

----------------------------------------------------------------------------
InProgress(s) == {c \in Callers : pc[s][c] # "idle"}

(* However many goroutines call Run, again and again, a scheduler has at   *)
(* most one dispatcher loop, and its running flag says whether it has one  *)
(* (sundial.go:298-303, 338-342).                                          *)
OneLoop ==
    \A s \in Schedulers : /\ \A c, d \in InProgress(s) : c = d
                          /\ running[s] <=> InProgress(s) # {}

(* "Before the first tick, Run persists every registered job"              *)
(* (sundial.go:294-296): in the loop every job that was registered when    *)
(* this Run began has a row, unless its schedule had ended by then, and    *)
(* whatever is registered meanwhile or ensured by other schedulers.        *)
EnsuredBeforeLoop ==
    \A s \in Schedulers, c \in Callers :
        pc[s][c] = "loop" =>
            \A j \in slice[s][c] : j \in rows \/ NoFire(j, now[s][c])

(* No leader lock is left behind: whoever holds one has a Run in its loop  *)
(* or on its way to Release (sundial.go:331-334), also when several        *)
(* schedulers release one shared MemoryLeader.                             *)
NoDeadLeader ==
    \A l \in Leaders : holder[l] # NoNode =>
        \E c \in Callers : pc[holder[l]][c] \in {"loop", "release"}

\* What Run has ensured so far: all of its copy of the jobs but `left`.
EnsureInv ==
    \A s \in Schedulers, c \in Callers :
        /\ pc[s][c] = "loop" => left[s][c] = {}
        /\ \A j \in slice[s][c] \ left[s][c] : j \in rows \/ NoFire(j, now[s][c])

\* A MemoryLeader's two fields always agree, and its holder is a scheduler
\* that was given it and is going to release it.
LeaderInv ==
    \A l \in Leaders :
        /\ holder[l] = myID[l]
        /\ holder[l] # NoNode =>
              /\ leaderOf[holder[l]] = l
              /\ \E c \in Callers : pc[holder[l]][c] \in {"loop", "release"}

IInv == TypeOK /\ OneLoop /\ EnsureInv /\ LeaderInv

Unshared(s) == leaderOf[s] # NoLeader /\ \A t \in Schedulers \ {s} : leaderOf[t] # leaderOf[s]

(* A scheduler that does not share its leader keeps the lead as long as    *)
(* its loop runs: the Release of an earlier Run of the same scheduler      *)
(* never comes late and takes it away (sundial.go:330-334).                *)
LeadsWhileRunning ==
    [][\A s \in Schedulers, c \in Callers :
          (Unshared(s) /\ IsLeader(leaderOf[s]) /\ pc[s][c] = "loop" /\ pc'[s][c] = "loop")
             => IsLeader(leaderOf[s])']_vars

(* "It does not persist the job to the database - that happens on the      *)
(* first tick or when Run is called" (sundial.go:219-220): a job           *)
(* registered with a running scheduler gets its row.                       *)
ScheduledIsPersisted ==
    \A s \in Schedulers, c \in Callers, j \in Names :
        (j \in jobs[s] /\ pc[s][c] = "loop") ~> (j \in rows \/ pc[s][c] # "loop")
=============================================================================
