----------------------------- MODULE Dispatcher -----------------------------
(***************************************************************************)
(* A cluster of sundial nodes on one storage: Scheduler.Run (sundial.go),  *)
(* the dispatcher loop and its handler goroutines (dispatcher.go), the     *)
(* Storage operations they call (storage.go) and the leader lock           *)
(* (leader.go).                                                            *)
(*                                                                         *)
(* Every node is one loop: ensure the rows, try to lead, then tick, renew  *)
(* and finally drain.  A claimed fire runs in a goroutine of its own, a    *)
(* replayed one inside the loop.  Storage calls are atomic except ClaimJob *)
(* which first takes the per-job advisory lock and then updates and        *)
(* commits; UPDATEs of one row serialise on PostgreSQL's row lock.         *)
(***************************************************************************)
EXTENDS Schedule, Leader, Functions

CONSTANTS
    Jobs,           \* names that may have a row in sundial_jobs
    Registry,       \* node -> (name -> JobDef): Scheduler.jobs of that process
    Backend,        \* "postgres" or "memory": which Storage
    LeaderEnabled,  \* dispatcher.leader # nil
    HasGrace,       \* ShutdownGrace > 0
    TickInterval,   \* Options.TickInterval; 0 stands for less than a third of a unit
    FetchLimit,     \* the limit tick passes to FetchDue
    MaxCatchup,     \* maxCatchupInstants
    Skew,           \* node -> how far its clock runs ahead of the slowest one
    FaultKinds,     \* subset of {"crash", "cancel", "storage", "connection"}
    MaxFaults,      \* bound: faults in one behaviour
    MaxTime,        \* bound: the last instant of the clock
    MaxCopies       \* bound: how many equal run records are told apart

Policies == {"RunOnce", "Skip", "RunAll"}

JobDefs == [schedule : Schedules, leaderOnly : BOOLEAN, missedFire : Policies,
            retry : RetryPolicies]

ASSUME RegistryAssumption ==
    \A n \in Nodes : /\ DOMAIN Registry[n] \subseteq Jobs
                     /\ \A j \in DOMAIN Registry[n] : Registry[n][j] \in JobDefs
ASSUME OptionsAssumption ==
    /\ Backend \in {"postgres", "memory"}
    /\ LeaderEnabled \in BOOLEAN /\ HasGrace \in BOOLEAN
    /\ TickInterval \in Nat /\ FetchLimit \in Nat /\ MaxCatchup \in Nat
    /\ Skew \in [Nodes -> Nat]
ASSUME BoundsAssumption ==
    /\ FaultKinds \subseteq {"crash", "cancel", "storage", "connection"}
    /\ MaxFaults \in Nat /\ MaxTime \in Nat /\ MaxCopies \in Nat \ {0}

VARIABLES
    clock,      \* real time
    rows,       \* job -> its row in sundial_jobs
    adv,        \* job -> node whose transaction holds its advisory lock
    runs,       \* sundial_runs: run record -> how often it is there
    pc,         \* node -> where its Run is
    cancelled,  \* node -> the context given to Run is cancelled
    todo,       \* node -> jobs Run has still to ensure
    now,        \* node -> the time Run or tick read when it began
    due,        \* node -> what FetchDue returned and is not dispatched yet
    fires,      \* node -> instants of a replay still to run
    attempts,   \* node -> job -> the dispatcher's attempt counter
    execs,      \* calls of execute in flight
    faults,     \* how many faults have happened
    epoch       \* history: job -> how often a retry pulled its row back

storageVars == <<rows, adv, runs, epoch>>
loopVars    == <<pc, todo, now, due, fires>>
vars == <<clock, storageVars, loopVars, leaderVars, cancelled, attempts, execs, faults>>

----------------------------------------------------------------------------
NoSchedule == [kind |-> "none"]
NoRow == [next |-> ZeroTime, sched |-> NoSchedule]

Rows == {NoRow} \cup [next : Nat, sched : Schedules]
DueJobs == [job : Jobs, next : Nat, sched : Schedules]
Outcomes == {"success", "failed", "dead-letter"}

\* One call of execute: for a claim (claimed) or inside a replay.  `target`
\* is its parameter claimedFor, `epoch` history.
Call(steps, outcomes) ==
    [node : Nodes, job : Jobs, fire : Nat, target : Nat, claimed : BOOLEAN,
     epoch : Nat, pc : steps, attempt : Nat, outcome : outcomes]

Execs == Call({"spawned", "running"}, {"none"}) \cup Call({"retry", "record"}, Outcomes)

\* RunRecord; `claimed` is history.
RunRecords == [node : Nodes, job : Jobs, fire : Nat, claimed : BOOLEAN,
               attempt : Nat, outcome : Outcomes]

Steps == {"down", "ensure", "elect", "tick", "select", "dispatch", "claim",
          "advance", "replay", "drain", "stopped"}

\* The values each variable can take; 0 is allowed where no time was read.
TypeOK ==
    /\ LeaderTypeOK
    /\ clock \in Nat
    /\ rows \in [Jobs -> Rows]
    /\ adv \in [Jobs -> Nodes \cup {NoNode}]
    /\ DOMAIN runs \subseteq RunRecords /\ runs \in [DOMAIN runs -> Nat]
    /\ pc \in [Nodes -> Steps]
    /\ cancelled \in [Nodes -> BOOLEAN]
    /\ todo \in [Nodes -> SUBSET Jobs]
    /\ now \in [Nodes -> Nat]
    /\ due \in [Nodes -> Seq(DueJobs)]
    /\ fires \in [Nodes -> Seq(Nat)]
    /\ attempts \in [Nodes -> [Jobs -> Nat]]
    /\ execs \subseteq Execs
    /\ faults \in Nat
    /\ epoch \in [Jobs -> Nat]

\* A node that dispatches has a job to dispatch, and only registered jobs
\* are ensured.
LoopInv ==
    \A n \in Nodes :
        /\ todo[n] \subseteq DOMAIN Registry[n]
        /\ pc[n] \in {"dispatch", "claim", "advance", "replay"} => due[n] # << >>

\* Rows are never deleted: what a node has fetched still has a row.
RowsExist == \A n \in Nodes : \A i \in DOMAIN due[n] : rows[due[n][i].job] # NoRow

IInv == TypeOK /\ LoopInv /\ RowsExist

\* A job that is claimed, replayed or executed is registered with the node.
Registered ==
    /\ \A n \in Nodes : pc[n] \in {"claim", "advance", "replay"} => Head(due[n]).job \in DOMAIN Registry[n]
    /\ \A e \in execs : e.job \in DOMAIN Registry[e.node]

Init ==
    /\ LeaderInit
    /\ clock = 1
    /\ rows = [j \in Jobs |-> NoRow]
    /\ adv = [j \in Jobs |-> NoNode]
    /\ runs = [r \in {} |-> 0]
    /\ pc = [n \in Nodes |-> "down"]
    /\ cancelled = [n \in Nodes |-> FALSE]
    /\ todo = [n \in Nodes |-> {}]
    /\ now = [n \in Nodes |-> 0]
    /\ due = [n \in Nodes |-> << >>]
    /\ fires = [n \in Nodes |-> << >>]
    /\ attempts = [n \in Nodes |-> [j \in Jobs |-> 0]]
    /\ execs = {}
    /\ faults = 0
    /\ epoch = [j \in Jobs |-> 0]

----------------------------------------------------------------------------
(* Clocks, faults and contexts.                                            *)

Clock(n) == clock + Skew[n]

AdvanceClock ==
    /\ clock < MaxTime
    /\ clock' = clock + 1
    /\ UNCHANGED <<storageVars, loopVars, leaderVars, cancelled, attempts, execs, faults>>

Fault(kind) ==
    /\ kind \in FaultKinds
    /\ faults < MaxFaults
    /\ faults' = faults + 1

\* pgx refuses a call on a cancelled context; MemoryStorage ignores contexts.
CtxDead(n) == cancelled[n] /\ Backend = "postgres"

\* A storage call of node n returns an error.
CallFails(n) == (CtxDead(n) /\ UNCHANGED faults) \/ Fault("storage")

\* A storage call of node n reaches the database.
CallReaches(n) == ~ CtxDead(n) /\ UNCHANGED faults

GoTo(n, step) == pc' = [pc EXCEPT ![n] = step]

----------------------------------------------------------------------------
(* Scheduler.Run before the loop: one EnsureJob per registered job that    *)
(* has a next fire.                                                        *)

FirstFire(n, j, t) == computeNextFire(Registry[n][j].schedule, t)

Run(n) ==
    LET missing == {j \in DOMAIN Registry[n] : FirstFire(n, j, Clock(n)) # ZeroTime}
    IN  /\ pc[n] = "down"
        /\ todo' = [todo EXCEPT ![n] = missing]
        /\ now' = [now EXCEPT ![n] = Clock(n)]
        /\ GoTo(n, IF missing = {} THEN "elect" ELSE "ensure")
        /\ UNCHANGED <<clock, storageVars, due, fires, leaderVars, cancelled, attempts, execs, faults>>

\* The upsert takes the new schedule and keeps an existing fire time.
EnsureJob(n, j) ==
    /\ pc[n] = "ensure" /\ j \in todo[n]
    /\ CallReaches(n)
    /\ rows' = [rows EXCEPT ![j] =
                  [next  |-> IF @ = NoRow THEN FirstFire(n, j, now[n]) ELSE @.next,
                   sched |-> Registry[n][j].schedule]]
    /\ todo' = [todo EXCEPT ![n] = @ \ {j}]
    /\ GoTo(n, IF todo[n] = {j} THEN "elect" ELSE "ensure")
    /\ UNCHANGED <<clock, adv, runs, epoch, now, due, fires, leaderVars, cancelled, attempts, execs>>

\* The first error ends Run before the loop begins.
EnsureFails(n) ==
    /\ pc[n] = "ensure"
    /\ CallFails(n)
    /\ GoTo(n, "stopped")
    /\ UNCHANGED <<clock, storageVars, todo, now, due, fires, leaderVars, cancelled, attempts, execs>>

----------------------------------------------------------------------------
(* dispatcher.run: one renewal and one tick at once, then select.          *)

maybeRenewLeader(n) ==
    /\ pc[n] = "elect" \/ (pc[n] = "select" /\ LeaderEnabled)
    /\ \/ LeaderEnabled /\ (IsLeader(n) \/ ~ CtxDead(n)) /\ TryAcquire(n) /\ UNCHANGED faults
       \/ LeaderEnabled /\ ~ IsLeader(n) /\ CallFails(n) /\ UNCHANGED leaderVars
       \/ ~ LeaderEnabled /\ UNCHANGED <<leaderVars, faults>>
    /\ GoTo(n, IF pc[n] = "elect" THEN "tick" ELSE "select")
    /\ UNCHANGED <<clock, storageVars, todo, now, due, fires, cancelled, attempts, execs>>

\* The rows due at t, oldest first, at most FetchLimit of them.  Rows due at
\* the same instant come in any order.
FetchDue(t) ==
    LET late == {j \in Jobs : rows[j] # NoRow /\ rows[j].next <= t}
        snapshot(j) == [job |-> j, next |-> rows[j].next, sched |-> rows[j].sched]
        oldest(q) == /\ IsInjective(q)
                     /\ \A i, k \in DOMAIN q : i < k => rows[q[i]].next <= rows[q[k]].next
                     /\ \A j \in late \ Range(q) : /\ Len(q) = FetchLimit
                                                   /\ \A i \in DOMAIN q : rows[q[i]].next <= rows[j].next
        picks == {q \in UNION {[1..k -> late] : k \in 0..FetchLimit} : oldest(q)}
    IN  {[i \in DOMAIN q |-> snapshot(q[i])] : q \in picks}

\* The case <-ticker.C of the select, and the first tick.  Go chooses among
\* ready cases at random, so a tick may still follow a cancellation.
tick(n) ==
    /\ pc[n] \in {"tick", "select"}
    /\ \/ /\ CallReaches(n)
          /\ \E q \in FetchDue(Clock(n)) :
                /\ due' = [due EXCEPT ![n] = q]
                /\ now' = [now EXCEPT ![n] = IF q = << >> THEN 0 ELSE Clock(n)]
                /\ GoTo(n, IF q = << >> THEN "select" ELSE "dispatch")
       \/ /\ CallFails(n)
          /\ now' = [now EXCEPT ![n] = 0]
          /\ GoTo(n, "select")
          /\ UNCHANGED due
    /\ UNCHANGED <<clock, storageVars, todo, fires, leaderVars, cancelled, attempts, execs>>

----------------------------------------------------------------------------
(* maybeDispatch: what happens to the first job of due[n].                 *)

Dj(n) == Head(due[n])

\* The value ClaimJob moves the row to: the next fire after the tick's now.
Target(n) == computeNextFire(Dj(n).sched, now[n])

Missed(n) == now[n] - Dj(n).next > 3 * TickInterval

Follower(n) == LeaderEnabled /\ ~ IsLeader(n)

Decision(n) ==
    LET job == Registry[n][Dj(n).job]
    IN  IF Dj(n).job \notin DOMAIN Registry[n] THEN "ignore"
        ELSE IF job.leaderOnly /\ Follower(n) THEN "ignore"
        ELSE IF Target(n) = ZeroTime THEN "ignore"
        ELSE IF Missed(n) /\ job.missedFire = "Skip" THEN "advance"
        ELSE IF Missed(n) /\ job.missedFire = "RunAll"
             THEN IF Follower(n) THEN "ignore" ELSE "replay"
        ELSE "claim"

\* maybeDispatch returns: on to the next due job, or back to the select.
NextDue(n) ==
    /\ due' = [due EXCEPT ![n] = Tail(@)]
    /\ IF Len(due[n]) = 1
       THEN GoTo(n, "select") /\ now' = [now EXCEPT ![n] = 0]
       ELSE GoTo(n, "dispatch") /\ UNCHANGED now

Ignore(n) ==
    /\ pc[n] = "dispatch" /\ Decision(n) = "ignore"
    /\ NextDue(n)
    /\ UNCHANGED <<clock, storageVars, todo, fires, leaderVars, cancelled, attempts, execs, faults>>

\* ClaimJob up to the advisory lock, which is tried and not waited for.
LockForClaim(n, step) ==
    /\ \/ CallFails(n) /\ NextDue(n) /\ UNCHANGED adv
       \/ CallReaches(n) /\ adv[Dj(n).job] # NoNode /\ NextDue(n) /\ UNCHANGED adv
       \/ /\ CallReaches(n) /\ adv[Dj(n).job] = NoNode
          /\ adv' = IF Backend = "postgres" THEN [adv EXCEPT ![Dj(n).job] = n] ELSE adv
          /\ GoTo(n, step)
          /\ UNCHANGED <<due, now>>
    /\ UNCHANGED <<clock, rows, runs, epoch, todo, fires, leaderVars, cancelled, attempts, execs>>

BeginClaim(n) ==
    /\ pc[n] = "dispatch" /\ Decision(n) \in {"claim", "advance"}
    /\ LockForClaim(n, Decision(n))

----------------------------------------------------------------------------
(* ClaimJob after the lock: the guarded UPDATE and the commit.             *)

MoveRow(j, t) == rows' = [rows EXCEPT ![j].next = t]

\* Mutant: an equal fire time counts as an advance.
AdvancesOrKeeps(n) == rows[Dj(n).job].next <= Target(n)

\* The WHERE clause of the UPDATE.
Advances(n) == rows[Dj(n).job].next < Target(n)

\* Mutant: the transaction stays open when the row was not advanced.
UnlockAfterAdvance(n) ==
    adv' = [adv EXCEPT ![Dj(n).job] = IF @ = n /\ Advances(n) THEN NoNode ELSE @]

\* Commit or rollback ends the transaction.
Unlock(n) == adv' = [adv EXCEPT ![Dj(n).job] = IF @ = n THEN NoNode ELSE @]

NewExec(n, j, f, t, claimed) ==
    [node |-> n, job |-> j, fire |-> f, target |-> t, claimed |-> claimed,
     epoch |-> epoch[j], pc |-> "spawned", attempt |-> 0, outcome |-> "none"]

\* A won claim spawns execute.  When the call fails the commit may have
\* happened all the same: the row has moved and nobody runs the fire.
ClaimJob(n) ==
    /\ pc[n] = "claim"
    /\ \/ /\ CallReaches(n) /\ Advances(n)
          /\ MoveRow(Dj(n).job, Target(n))
          /\ execs' = execs \cup {NewExec(n, Dj(n).job, Dj(n).next, Target(n), TRUE)}
       \/ CallReaches(n) /\ ~ Advances(n) /\ UNCHANGED <<rows, execs>>
       \/ CallFails(n) /\ UNCHANGED <<rows, execs>>
       \/ CallFails(n) /\ Advances(n) /\ MoveRow(Dj(n).job, Target(n)) /\ UNCHANGED execs
    /\ Unlock(n)
    /\ NextDue(n)
    /\ UNCHANGED <<clock, runs, epoch, todo, fires, leaderVars, cancelled, attempts>>

\* The claim of a skipped window, or of the end of a replay: the answer is
\* not looked at.
AdvanceRow(n) ==
    /\ pc[n] = "advance"
    /\ \/ CallReaches(n) /\ Advances(n) /\ MoveRow(Dj(n).job, Target(n))
       \/ CallReaches(n) /\ ~ Advances(n) /\ UNCHANGED rows
       \/ CallFails(n) /\ UNCHANGED rows
       \/ CallFails(n) /\ Advances(n) /\ MoveRow(Dj(n).job, Target(n))
    /\ Unlock(n)
    /\ NextDue(n)
    /\ UNCHANGED <<clock, runs, epoch, todo, fires, leaderVars, cancelled, attempts, execs>>

----------------------------------------------------------------------------
(* runAllMissed: every instant of the missed window runs inside the loop,  *)
(* one after the other, without a claim.                                   *)

Instants(n) == iterateSchedule(Dj(n).sched, Dj(n).next, now[n], MaxCatchup)

\* Mutant: the iterator spawns its fires and waits for none of them.
ReplayDetached(n) == FALSE

\* The replayed fire of node n has not returned yet.
Replaying(n) == \E e \in execs : e.node = n /\ ~ e.claimed

\* An empty window still runs the fire it was read with.
StartReplay(n) ==
    /\ pc[n] = "dispatch" /\ Decision(n) = "replay"
    /\ fires' = [fires EXCEPT ![n] = IF Instants(n) = << >> THEN <<Dj(n).next>> ELSE Instants(n)]
    /\ GoTo(n, "replay")
    /\ UNCHANGED <<clock, storageVars, todo, now, due, leaderVars, cancelled, attempts, execs, faults>>

executeAtFire(n) ==
    /\ pc[n] = "replay" /\ fires[n] # << >> /\ ~ Replaying(n)
    /\ execs' = execs \cup {NewExec(n, Dj(n).job, Head(fires[n]), Head(fires[n]), FALSE)}
    /\ fires' = [fires EXCEPT ![n] = Tail(@)]
    /\ UNCHANGED <<clock, storageVars, pc, todo, now, due, leaderVars, cancelled, attempts, faults>>

\* After a replay the row is advanced; after the single fire it is not.
EndReplay(n) ==
    /\ pc[n] = "replay" /\ fires[n] = << >> /\ ~ Replaying(n)
    /\ \/ Instants(n) # << >> /\ LockForClaim(n, "advance")
       \/ /\ Instants(n) = << >> /\ NextDue(n)
          /\ UNCHANGED <<clock, storageVars, todo, fires, leaderVars, cancelled, attempts, execs, faults>>

----------------------------------------------------------------------------
(* execute: one handler attempt.                                           *)

RetryPolicy(e) == Registry[e.node][e.job].retry

Become(e, f) == execs' = (execs \ {e}) \cup {f}

\* bumpAttempt, then the handler runs.
StartHandler(e) ==
    LET k == attempts[e.node][e.job] + 1
    IN  /\ e.pc = "spawned"
        /\ attempts' = [attempts EXCEPT ![e.node][e.job] = k]
        /\ Become(e, [e EXCEPT !.pc = "running", !.attempt = k])
        /\ UNCHANGED <<clock, storageVars, loopVars, leaderVars, cancelled, faults>>

forgetAttempt(e) == attempts' = [attempts EXCEPT ![e.node][e.job] = 0]

\* Mutant: the outcome is only set when the handler failed.
HandlerSucceedsSilently(e) ==
    /\ e.pc = "running"
    /\ Become(e, [e EXCEPT !.pc = "record"])
    /\ forgetAttempt(e)
    /\ UNCHANGED <<clock, storageVars, loopVars, leaderVars, cancelled, faults>>

HandlerSucceeds(e) ==
    /\ e.pc = "running"
    /\ Become(e, [e EXCEPT !.pc = "record", !.outcome = "success"])
    /\ forgetAttempt(e)
    /\ UNCHANGED <<clock, storageVars, loopVars, leaderVars, cancelled, faults>>

\* Mutant: a dead letter keeps the attempt counter.
HandlerFailsForgetless(e) ==
    /\ e.pc = "running"
    /\ Become(e, IF e.attempt < RetryPolicy(e).maxAttempts
                 THEN [e EXCEPT !.pc = "retry", !.outcome = "failed"]
                 ELSE [e EXCEPT !.pc = "record", !.outcome = "dead-letter"])
    /\ UNCHANGED <<clock, storageVars, loopVars, leaderVars, cancelled, attempts, faults>>

\* An error or a panic: retry while the budget lasts, else a dead letter.
HandlerFails(e) ==
    /\ e.pc = "running"
    /\ IF e.attempt < RetryPolicy(e).maxAttempts
       THEN /\ Become(e, [e EXCEPT !.pc = "retry", !.outcome = "failed"])
            /\ UNCHANGED attempts
       ELSE /\ Become(e, [e EXCEPT !.pc = "record", !.outcome = "dead-letter"])
            /\ forgetAttempt(e)
    /\ UNCHANGED <<clock, storageVars, loopVars, leaderVars, cancelled, faults>>

\* Mutant: ScheduleRetry without its WHERE clause.
PullBackAlways(j, t) ==
    /\ MoveRow(j, t)
    /\ epoch' = [epoch EXCEPT ![j] = @ + 1]

\* ScheduleRetry's UPDATE: never later than the fire that is due anyway.
PullBack(j, t) ==
    IF t < rows[j].next
    THEN MoveRow(j, t) /\ epoch' = [epoch EXCEPT ![j] = @ + 1]
    ELSE UNCHANGED <<rows, epoch>>

\* Mutant: execute returns once the retry is scheduled.
ScheduleRetryUnrecorded(e) ==
    /\ e.pc = "retry"
    /\ \/ /\ CallReaches(e.node)
          /\ \E b \in computeBackoff(RetryPolicy(e), e.attempt) : PullBack(e.job, Clock(e.node) + b)
       \/ CallFails(e.node) /\ UNCHANGED <<rows, epoch>>
    /\ execs' = execs \ {e}
    /\ UNCHANGED <<clock, adv, runs, loopVars, leaderVars, cancelled, attempts>>

ScheduleRetry(e) ==
    /\ e.pc = "retry"
    /\ \/ /\ CallReaches(e.node)
          /\ \E b \in computeBackoff(RetryPolicy(e), e.attempt) : PullBack(e.job, Clock(e.node) + b)
       \/ CallFails(e.node) /\ UNCHANGED <<rows, epoch>>
    /\ Become(e, [e EXCEPT !.pc = "record"])
    /\ UNCHANGED <<clock, adv, runs, loopVars, leaderVars, cancelled, attempts>>

\* The INSERT of RecordRun; there is no unique key, so equal records add up.
Insert(r) ==
    LET copies == IF r \in DOMAIN runs THEN runs[r] ELSE 0
    IN  [x \in DOMAIN runs \cup {r} |->
            IF x # r THEN runs[x] ELSE IF copies < MaxCopies THEN copies + 1 ELSE copies]

RecordRun(e) ==
    /\ e.pc = "record"
    /\ \/ /\ CallReaches(e.node)
          /\ runs' = Insert([node |-> e.node, job |-> e.job, fire |-> e.fire, claimed |-> e.claimed,
                             attempt |-> e.attempt, outcome |-> e.outcome])
       \/ CallFails(e.node) /\ UNCHANGED runs
    /\ execs' = execs \ {e}
    /\ UNCHANGED <<clock, rows, adv, epoch, loopVars, leaderVars, cancelled, attempts>>

----------------------------------------------------------------------------
(* Shutdown and crashes.                                                   *)

Cancel(n) ==
    /\ pc[n] \notin {"down", "stopped"} /\ ~ cancelled[n]
    /\ Fault("cancel")
    /\ cancelled' = [cancelled EXCEPT ![n] = TRUE]
    /\ UNCHANGED <<clock, storageVars, loopVars, leaderVars, attempts, execs>>

\* The case <-ctx.Done() of the select.
Drain(n) ==
    /\ pc[n] = "select" /\ cancelled[n]
    /\ GoTo(n, "drain")
    /\ UNCHANGED <<clock, storageVars, todo, now, due, fires, leaderVars, cancelled, attempts, execs, faults>>

\* Mutant: drain waits for the handlers and has no timer.
HandlersDone(n) == ~ \E e \in execs : e.node = n

\* drain returns when the handlers have, or when the grace is over.
Drained(n) == HasGrace \/ ~ \E e \in execs : e.node = n

\* Run then releases the leader lock and ignores an error, which is not
\* counted: that Run was cancelled is a fault already.
Stop(n) ==
    /\ pc[n] = "drain"
    /\ Drained(n)
    /\ GoTo(n, "stopped")
    /\ \/ Release(n)
       \/ "storage" \in FaultKinds /\ ReleaseFails(n)
    /\ UNCHANGED <<clock, storageVars, todo, now, due, fires, cancelled, attempts, execs, faults>>

\* The process ends: its goroutines die, the server drops its locks.
Gone(n) ==
    /\ Release(n)
    /\ GoTo(n, "down")
    /\ execs' = {e \in execs : e.node # n}
    /\ adv' = [j \in Jobs |-> IF adv[j] = n THEN NoNode ELSE adv[j]]
    /\ attempts' = [attempts EXCEPT ![n] = [j \in Jobs |-> 0]]
    /\ cancelled' = [cancelled EXCEPT ![n] = FALSE]
    /\ todo' = [todo EXCEPT ![n] = {}]
    /\ now' = [now EXCEPT ![n] = 0]
    /\ due' = [due EXCEPT ![n] = << >>]
    /\ fires' = [fires EXCEPT ![n] = << >>]
    /\ UNCHANGED <<clock, rows, runs, epoch>>

Exit(n) == pc[n] = "stopped" /\ Gone(n) /\ UNCHANGED faults

Crash(n) == pc[n] # "down" /\ Fault("crash") /\ Gone(n)

LoseConnection(n) ==
    /\ Fault("connection")
    /\ ConnectionLost(n)
    /\ UNCHANGED <<clock, storageVars, loopVars, cancelled, attempts, execs>>

----------------------------------------------------------------------------
\* What the loop goroutine of a node does next, outside the select.
LoopStep(n) ==
    \/ Run(n)
    \/ \E j \in Jobs : EnsureJob(n, j)
    \/ EnsureFails(n)
    \/ Ignore(n) \/ BeginClaim(n) \/ ClaimJob(n) \/ AdvanceRow(n)
    \/ StartReplay(n) \/ executeAtFire(n) \/ EndReplay(n)
    \/ Stop(n) \/ Exit(n)

\* What a handler goroutine does on its own, the handler itself excepted.
ExecStep(e) == StartHandler(e) \/ ScheduleRetry(e) \/ RecordRun(e)

HandlerReturns(e) == HandlerSucceeds(e) \/ HandlerFails(e)

Next ==
    \/ AdvanceClock
    \/ \E n \in Nodes : LoopStep(n) \/ maybeRenewLeader(n) \/ tick(n) \/ Drain(n)
    \/ \E n \in Nodes : Cancel(n) \/ Crash(n) \/ LoseConnection(n)
    \/ \E e \in execs : ExecStep(e) \/ HandlerReturns(e)

Spec == Init /\ [][Next]_vars

(***************************************************************************)
(* Fairness.  Goroutines run and processes are started again.  Go's select *)
(* chooses uniformly among the ready cases, so a case that is ready again  *)
(* and again is taken: strong fairness for the renewal and for ctx.Done.   *)
(* A handler is never assumed to return.                                   *)
(***************************************************************************)
Fairness ==
    /\ WF_vars(AdvanceClock)
    /\ \A n \in Nodes : /\ WF_vars(LoopStep(n)) /\ WF_vars(tick(n))
                        /\ SF_vars(maybeRenewLeader(n)) /\ SF_vars(Drain(n))
                        /\ WF_vars(\E e \in execs : e.node = n /\ ExecStep(e))

LiveSpec == Spec /\ Fairness

----------------------------------------------------------------------------
(* The detailed system implements the claim protocol.                      *)

ClaimTickets ==
    {[job |-> e.job, owner |-> e.node, fire |-> e.fire, target |-> e.target, epoch |-> e.epoch] :
        e \in {x \in execs : x.claimed}}

C == INSTANCE Claims WITH next <- [j \in Jobs |-> rows[j].next], live <- ClaimTickets

(* Whatever the nodes do, a row of sundial_jobs moves only as Claims       *)
(* allows: EnsureJob never resets a fire time, ClaimJob only moves it      *)
(* forward and spawns at most one handler for it, and nothing but a retry  *)
(* that is sooner moves it back (storage.go:57-95).                        *)
ImplementsClaims == C!Spec

(* At most one handler in the cluster runs on a claim of the same window   *)
(* of a job (storage.go:203-205), though the claim is decided on rows read *)
(* earlier and retries move rows back.                                     *)
OneHandlerPerWindow == C!OneClaimPerWindow

(* A node's attempt counter (dispatcher.go:45-59) stands at MaxAttempts or *)
(* beyond only while the attempts that got those numbers are running: once *)
(* the last attempt of a budget has returned the next fire counts from     *)
(* one, and no attempt beyond the budget starts unless a final attempt     *)
(* still runs.                                                             *)
RetryBudget ==
    \A n \in Nodes : \A j \in DOMAIN Registry[n] :
        \A k \in Registry[n][j].retry.maxAttempts .. attempts[n][j] :
            \E e \in execs : e.node = n /\ e.job = j /\ e.pc = "running" /\ e.attempt = k

(* The history of a retried job has no holes: while nothing fails, an      *)
(* attempt k of a job on a node, running or recorded, comes with a record  *)
(* of every attempt before it or with that attempt still on its way to     *)
(* RecordRun (dispatcher.go:283-327), though the retry is claimable, and   *)
(* may run and be recorded, before the attempt that asked for it is.  The  *)
(* record may be that of an earlier streak of failures of the same job.    *)
TrailComplete ==
    LET known == execs \cup DOMAIN runs
    IN  faults = 0 =>
            \A x \in known : \A k \in 1..(x.attempt - 1) :
                \E y \in known : y.node = x.node /\ y.job = x.job /\ y.attempt = k

(* "The iterator MUST serialise" and is leader-only (dispatcher.go:202-207 *)
(* and 393-396): at most one replayed handler of a job is in flight in the *)
(* whole cluster.                                                          *)
OneReplay ==
    \A e, f \in execs : ~ e.claimed /\ ~ f.claimed /\ e.job = f.job => e = f

\* Why OneReplay holds: the flags never disagree with the server, only a
\* leader is in a replay, and a loop waits for the fire it replays.
ReplayInv ==
    /\ \A n \in Nodes : held[n] => owner = n
    /\ \A n \in Nodes : pc[n] = "replay" => held[n]
    /\ \A e \in execs : ~ e.claimed => pc[e.node] = "replay"
    /\ \A e, f \in execs : ~ e.claimed /\ ~ f.claimed /\ e.node = f.node => e = f

\* Without a fault no Run is told to stop.
Quiet ==
    faults = 0 => \A n \in Nodes : ~ cancelled[n] /\ pc[n] \notin {"drain", "stopped"}

\* Why TrailComplete holds: the counter of a job is backed by the attempts it
\* has counted, and a call that has not started counts for none.
TrailInv ==
    /\ TrailComplete
    /\ \A e \in execs : e.pc = "spawned" => e.attempt = 0
    /\ faults = 0 =>
          \A n \in Nodes, j \in Jobs : \A k \in 1..attempts[n][j] :
              \E y \in execs \cup DOMAIN runs : y.node = n /\ y.job = j /\ y.attempt = k

(* When the replay of a missed window hands over to the regular cadence,   *)
(* every instant strictly inside the window has a run record (job.go:34-38 *)
(* "executes every missed fire ... one record per fire-time"), as long as  *)
(* no storage call failed.  It holds for windows of at most MaxCatchup     *)
(* instants; MissedFiresRun tells of the others and of the first instant.  *)
WindowReplayed ==
    \A n \in Nodes :
        (pc[n] = "advance" /\ Registry[n][Dj(n).job].missedFire = "RunAll" /\ faults = 0) =>
            \A t \in (Dj(n).next + 1)..(now[n] - 1) :
                Dj(n).sched.kind = "cron" /\ t \in Dj(n).sched.fires =>
                    \E r \in DOMAIN runs : r.job = Dj(n).job /\ r.fire = t /\ ~ r.claimed

\* Why WindowReplayed holds: an instant of the window that node n replays or
\* has replayed is still to run, is running or has its record.
Accounted(n, t) ==
    \/ pc[n] = "replay" /\ \E i \in DOMAIN fires[n] : fires[n][i] = t
    \/ pc[n] = "replay" /\ \E e \in execs : e.node = n /\ e.job = Dj(n).job /\ e.fire = t /\ ~ e.claimed
    \/ \E r \in DOMAIN runs : r.job = Dj(n).job /\ r.fire = t /\ ~ r.claimed

WindowAccounted(n) ==
    (\/ pc[n] = "replay"
     \/ pc[n] = "advance" /\ Registry[n][Dj(n).job].missedFire = "RunAll") =>
        \A i \in DOMAIN Instants(n) : Accounted(n, Instants(n)[i])

WindowInv == faults = 0 => \A n \in Nodes : WindowAccounted(n)

\* No window that has been replayed has more instants than the cap allows.
WindowsFit ==
    \A n \in Nodes : pc[n] = "advance" /\ Dj(n).sched.kind = "cron" =>
        Cardinality({t \in Dj(n).sched.fires : Dj(n).next < t /\ t < now[n]}) <= MaxCatchup

(* RunAll "executes every missed fire in (last_fire, now)" for jobs that   *)
(* "must produce one record per fire-time" (job.go:34-38): when the replay *)
(* hands over to the regular cadence and no call failed, every cron        *)
(* instant that was missed has a record.  The instant the row stood at is  *)
(* one of them: last_fire is the one before it.                            *)
MissedFiresRun ==
    \A n \in Nodes :
        (pc[n] = "advance" /\ Registry[n][Dj(n).job].missedFire = "RunAll" /\ faults = 0) =>
            \A t \in Dj(n).next..(now[n] - 1) :
                Dj(n).sched.kind = "cron" /\ t \in Dj(n).sched.fires =>
                    \E r \in DOMAIN runs : r.job = Dj(n).job /\ r.fire = t

(* Policies are applied at most once (job.go:19-20): while nothing fails,  *)
(* no fire is replayed a second time, by the same leader or by the next.   *)
ReplayedAtMostOnce ==
    faults = 0 =>
        \A r \in DOMAIN runs : ~ r.claimed =>
            /\ runs[r] = 1
            /\ \A s \in DOMAIN runs : ~ s.claimed /\ s.job = r.job /\ s.fire = r.fire => s = r

(* "exactly one of them will run each job at each fire time"               *)
(* (README.md:72): no two handlers that claimed the same fire time of a    *)
(* job run at once in the cluster.                                         *)
OneRunPerFire ==
    \A e, f \in execs :
        e.claimed /\ f.claimed /\ e.job = f.job /\ e.fire = f.fire => e = f

(* "At(...) schedules a one-shot fire" (docs/recipes.md:12): an At job     *)
(* whose instant has come is run.                                          *)
OneShotFires ==
    \A j \in Jobs : (rows[j].sched.kind = "at" /\ rows[j].next <= clock)
                      ~> (\E r \in DOMAIN runs : r.job = j)

(* A due cron fire is dealt with (dispatcher.go:148-239): the row leaves   *)
(* the instant it is due at, although claims are lost to other nodes and   *)
(* to a busy advisory lock, calls fail, and nodes crash or stop.  Checked  *)
(* for a leader-only job under Skip; At jobs and the empty window of       *)
(* RunAll are not served (OneShotFires, ReplayedAtMostOnce).               *)
DueServed ==
    \A j \in Jobs, f \in 1..MaxTime :
        (rows[j].next = f /\ f <= clock) ~> (rows[j].next # f)

(* A cancelled Run returns and the process ends (sundial.go:290-292), even *)
(* if the select keeps finding other cases ready and a handler hangs.      *)
RunReturns == \A n \in Nodes : cancelled[n] ~> (pc[n] = "down")
=============================================================================
