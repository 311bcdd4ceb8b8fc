# A TLA+ verification of sundial

sundial is a cron scheduler for Go programs: several processes ("nodes") share one
PostgreSQL database and divide the fires of their jobs among them. This directory holds
TLA+ modules translated from its source, TLC configurations that model-check them, and
TLAPS proofs. `PROJECT.json` maps every definition to the lines it models.

Run a check with `tlc -config MCRetry.cfg MCDispatcher`, a proof with
`tlapm DispatcherRefinement.tla`.

## 1. The system

| Component | State | Operations | Talks to |
|---|---|---|---|
| Schedules (`schedule.go`, `cron.go`) | none | `Next`, `iterateSchedule` | called by Run and the dispatcher |
| Storage (`storage.go`, migration) | rows of `sundial_jobs` (`next_fire_time`, schedule), `sundial_runs`, per-job advisory locks | `EnsureJob`, `FetchDue`, `ClaimJob`, `ScheduleRetry`, `RecordRun` | shared by all nodes |
| Leader (`leader.go`) | PostgreSQL: the server's lock, per node a pinned connection and the `held` flag; in memory: `holder` and `myID`, shared by whoever has the value | `TryAcquire`, `Release`, `IsLeader` | called by the loop and by Run |
| Dispatcher loop (`dispatcher.go`) | the due jobs of the current tick | `run`, `tick`, `maybeDispatch`, `runAllMissed`, `drain` | Storage, Leader, Schedules; spawns handlers |
| Handler execution (`dispatcher.go`) | attempt counter per job; goroutines in flight | `execute`, `bumpAttempt`, `forgetAttempt`, `computeBackoff` | Storage |
| Scheduler (`sundial.go`, `job.go`) | registry, `running`, `stopped` | `New`, `Schedule`, `Jobs`, `Stop`, `Run` | starts the dispatcher |
| Telemetry (`telemetry.go`) | counters and spans | - | output only |

A fire goes like this. Every tick a node reads its clock, fetches up to 64 rows whose
`next_fire_time` has come, and for each computes the first fire after the tick's time. If
the row is late by more than three ticks the job's policy decides: *Skip* only advances the
row, *RunAll* replays every instant of the window inside the loop (leader only, without
claiming), *RunOnce* goes on like a fire in time: `ClaimJob` takes the job's advisory lock
and advances the row with `UPDATE ... WHERE next_fire_time < new`. Whoever advanced the row
runs the handler in a goroutine. A failed handler pulls the row back with `ScheduleRetry`
until its attempts are used up.

What is hard about it, and what correctness means:

- the claim is decided on a row read earlier, while other nodes claim it and retries move it
  back: no window may be claimed twice (`OneHandlerPerWindow`), and rows may only move as the
  Storage interface promises (`ImplementsClaims`);
- the attempt counter is shared by overlapping executions of a job and dies with the process:
  a used-up budget may not leak into the next fire (`RetryBudget`);
- a replay has no claim, only the leader lock and the loop's order protect it (`OneReplay`,
  `WindowReplayed`, `ReplayedAtMostOnce`), and it should miss no fire (`MissedFiresRun`);
- crashes, lost answers, busy advisory locks and leader changes must not strand a due row
  (`DueServed`), and a cancelled `Run` must return though handlers hang (`RunReturns`);
- strict and non-strict comparisons of instants, the cap of the iterator and the clamp of the
  backoff are boundary cases (`IterateIsWindow`, `BackoffWithinJitter`);
- the retry is scheduled before the attempt is recorded, so records come in any order: none may
  be missing in the end (`TrailComplete`);
- goroutines call `Run`, cancel it, call it again and register jobs meanwhile: there may be one
  loop only (`OneLoop`), it may not begin before its jobs have rows (`EnsuredBeforeLoop`), and
  the leader lock may neither be left behind (`NoDeadLeader`) nor be released by a Run that is
  over (`LeadsWhileRunning`);
- options are functions applied in order, maps have no order, and two sorts are written by hand
  (`LeaderAsDocumented`, `LeaderOnceNamed`, `NodeIDAccepted`, `FetchDueIsOldest`,
  `JobsAreSorted`).

`PROJECT.json` lists these hazards line by line.

## 2. Modules

| Module | Models |
|---|---|
| `Schedule` | `Next` of the three kinds of schedule, `computeNextFire`, `iterateSchedule`, `computeBackoff` |
| `Leader` | `PostgresLeader`: the cached flag `held` and the server's `owner` of the lock |
| `Claims` | abstract: what Storage promises about `next_fire_time`, as tickets to run a handler |
| `Dispatcher` | the cluster: Run, the loop, handlers, Storage, shutdown, crashes; instantiates `Claims` |
| `Config` | `New` with its options and defaults, `AutoNodeID`, `withDefaults` |
| `Sorting` | `MemoryStorage.FetchDue` and `Scheduler.Jobs`: insertion sorts over a map |
| `MemoryLeader` | `MemoryLeader`: `holder` and `myID` |
| `Scheduler` | the lifecycle of the schedulers of one process: `Schedule`, `Stop`, `Run`; extends `Schedule` and `MemoryLeader` |
| `MCPure`, `MCDispatcher`, `MCScheduler` | instances for TLC |
| `ScheduleProofs`, `PureProofs` | theorems about the pure operators; `PureProofs` extends `MCPure` |
| `ClaimsProofs`, `DispatcherProofs`, `DispatcherRefinement`, `ReplayProofs`, `HistoryProofs` | theorems about the cluster |
| `SchedulerProofs` | theorems about the lifecycle |

How state and actions of `Dispatcher` correspond to the code:

- `pc[n]` is the place of the node's single loop goroutine: `down`, `ensure` (the `EnsureJob`
  calls of `Run`), `elect` and `tick` (the first renewal and tick), `select`, `dispatch` (in
  `maybeDispatch`, for `Head(due[n])`), `claim` and `advance` (in `ClaimJob`, lock taken),
  `replay` (in `runAllMissed`), `drain`, `stopped` (`Run` has returned).
- `execs` are the calls of `execute` in flight: `spawned`, `running` (in the handler), `retry`
  (about to call `ScheduleRetry`), `record` (about to call `RecordRun`).
- `Decision` is the chain of early returns of `maybeDispatch`; `Ignore`, `BeginClaim` and
  `StartReplay` are its outcomes. `ClaimJob` and `AdvanceRow` are the second half of the claim
  transaction for a caller that does or does not run a handler.
- Storage calls are atomic, except that `ClaimJob` has two steps, since another node may find
  its advisory lock taken. Its UPDATE and commit are one step: `ScheduleRetry`'s UPDATE waits
  for the row lock in between, and the upsert of `EnsureJob` does not touch the fire time. The
  time that `tick` and a failed `execute` read just before their storage call is read in the
  same step as the call: a delay between the two is left out, it makes the time older, as a
  clock that is behind does (`Skew`).
- Faults: a node crashes at any step; the caller cancels the context; a storage call fails, in
  the case of `ClaimJob` also after its commit; the leader's pinned connection dies; the unlock
  of `Release` fails, after which the pooled session keeps the lock until the process ends. A failed
  `ScheduleRetry` or `RecordRun` that took effect all the same equals one that succeeded,
  because the answer is only logged; a failed `EnsureJob` that took effect equals one followed
  by a crash. After a cancellation every call on PostgreSQL fails (`CtxDead`);
  `Backend = "memory"` ignores contexts and has no advisory locks.
- History: `epoch[j]` counts the times a retry moved a row back, `claimed` in a run record
  tells replayed from claimed executions; no guard reads them.

How `Scheduler` corresponds to the code: everything under `Scheduler.mu` is one step. `pc[s][c]`
is where goroutine `c` is in `Run` of scheduler `s`: `idle`, `ensure` (between two `EnsureJob`
calls), `loop` (in `dispatcher.run`), `release` (the loop has returned), `mark` (about to call
`markStopped`). `slice` is the copy of the registry `Run` made, `left` what is still to be
ensured; both are cleared when `Run` returns. Reading the time after the unlock is part of the
first step: nothing the other goroutines do in between depends on it. What the loop does to rows
is left to `Dispatcher`; of the rows only their existence matters here, and of the loop only that
it renews the leader lock and ends when its context is cancelled. `Dispatcher` in turn takes the
registry of a node as fixed.

Abstractions. Time is a natural number; instants finer than that are equal. A tick interval of
0 stands for one below a third of a unit, so that every late row counts as missed. A cron expression is the set of instants
it matches. Parse errors of stored expressions do not occur, as only `EnsureJob` writes them.
Durations are integers and multipliers fractions with exact arithmetic; NaN, infinities and
durations near 2^63 are left out. The pure module takes any policy a caller can write, while in
the cluster every field of a policy is positive, as after `withDefaults` if none was negative; a
negative `MaxAttempts` would behave like 1. Rows that are due at the same instant are fetched
in any order. `advisoryKey` never collides. Node identities are distinct. A node runs again
only after its process has ended: a second `Run` in a process whose handlers outlived the grace
is not modelled. The handler may return success or failure at any time, or never.

## 3. Runs

| Run | Instance | Checks |
|---|---|---|
| `pure` | all schedules, windows and caps up to instant 6, policies with zero, negative and fractional fields up to 4 attempts, up to 3 scheduler options, up to 4 rows in any order | `IterateIsWindow`, `BackoffWithinJitter`, `LeaderOnceNamed`, `NodeIDAccepted`, `FetchDueIsOldest`, `JobsAreSorted` against definitions that do not iterate |
| `retry` | 2 nodes, 1 cron job, 2 attempts, clock to 3, one crash or storage fault | `TypeOK`, `OneHandlerPerWindow`, `RetryBudget`, `TrailComplete`, `ImplementsClaims` |
| `replay` | 2 nodes, leader lock, 1 RunAll job, clock to 6, one crash | `OneReplay`, `WindowReplayed` |
| `live` | 2 nodes whose clocks differ by 1, leader lock, 1 leader-only Skip job, clock to 4, one fault of any kind | `DueServed`, `RunReturns` |
| `lifecycle` | 2 schedulers with 2 goroutines each; a shared leader, own leaders or none; 2 jobs, one of which has no fire after instant 1 | `OneLoop`, `EnsuredBeforeLoop`, `NoDeadLeader`, `LeadsWhileRunning` |
| `at_never_fires` | 1 node, MemoryStorage, an At job, no faults | `OneShotFires` is violated |
| `stale_claim` | 2 nodes, an Every job, no faults | `OneRunPerFire` is violated |
| `two_leaders` | 2 nodes, RunAll, one lost connection | `OneReplay` is violated |
| `catchup_repeats` | 1 node, RunAll, no faults | `ReplayedAtMostOnce` is violated |
| `missed_fires_dropped` | 1 node, RunAll, three missed fires, a cap of 1, no faults | `MissedFiresRun` is violated |
| `late_job` | 1 scheduler, 1 goroutine, 1 job | `ScheduledIsPersisted` is violated |
| `nil_leader` | `New` with at most one option | `LeaderAsDocumented` is violated |

`MCHungReplay.cfg` is one more instance (1 node, MemoryStorage, RunAll, one cancellation), on
which TLC finds `RunReturns` violated; see section 4.

The bounds. `MaxTime` ends the clock: 3 is enough for two regular fires, a failure, its retry
and the final attempt to overlap on two nodes; 6 is the first time at which a row due at 2 is
missed by more than three ticks and two instants lie inside the window. `MaxFaults` is one:
the code keeps no state about faults, and the theorems of section 5 have no such bound.
`MaxCopies` is how many equal run records are told apart: 1 where no property counts them.
Three
options are enough for a leader to be set, reset and followed by an unrelated option; four rows
exceed the largest limit of three. Node and goroutine symmetry is used in the safety runs only. No run has a state without a successor.

Fairness (`live`, `at_never_fires`, and `MCHungReplay.cfg`). Time passes and goroutines make progress (weak fairness of
the clock, of the loop outside the select, of ticks and of the storage steps of handlers); a
process that ended is started again, as under a supervisor. Go's select chooses uniformly among
ready cases, so a case that is ready again and again is taken: strong fairness for the renewal
and for `ctx.Done`. Handlers get no fairness: they may hang. In
`late_job` a Run that has begun goes on; nobody has to call, cancel or stop anything.

## 4. What the runs show

The claim protocol works: within an epoch no two handlers run on the same window, in spite of
crashes and lost answers, and the strict `<` of the UPDATE is what it needs (its mutant `<=`
breaks it). A due row of a leader-only cron job with the Skip policy is always dealt with, also
when the clocks of the nodes differ and whoever of them leads; for At jobs and for replayed ones
that is not so (1 and 4 below). A Run that is not replaying returns within its grace. Replays are
serialised in the cluster while no leader connection is lost. The lifecycle is sound: clearing
`running` after `Release` is what keeps an old Run's Release away from a new Run's lead.

Eight statements of the repository do not hold:

1. **`At` jobs never run** (`dispatcher.go:171`). When the row is due `At.Next(now)` is already
   zero and `maybeDispatch` returns. `docs/recipes.md:12`: "`At(...)` schedules a one-shot fire".
2. **Two nodes can run the same fire of an `Every` job** (`storage.go:209`). `Next(now)` depends
   on the node's tick, so a late claim still advances the row. `README.md:72`: "exactly one of
   them will run each job at each fire time". Cron targets do not depend on it as long as both
   ticks lie before the same next instant.
3. **Two leaders after a lost connection** (`leader.go:86`). `held` is never verified again.
   `job.go:40-42`: "the handler does not run N times per missed fire".
4. **A missed RunAll fire with an empty window runs on every tick** (`dispatcher.go:367-372`):
   the row is not advanced. The comment there: "Single catch-up fire".
5. **RunAll drops the first missed fire** (`dispatcher.go:366`). The window is open at
   `NextFireTime`, which is a missed fire itself; it is run only if it is the only one.
   `job.go:34-38`: "executes every missed fire in (last_fire, now)", `docs/recipes.md:94`: "MUST
   execute one fire per missed instant". `WindowReplayed` says what does hold: all instants
   strictly inside the window, as `dispatcher.go:348` has it, if the cap does not cut them.
6. **RunAll drops what is past its cap** (`dispatcher.go:386`): the row moves past `now`.
   `docs/recipes.md:119-120`: "then the next 256 on the second tick". The run
   `missed_fires_dropped` ends in a state that shows both: of the missed fires 2, 4 and 5 only 4
   has a record.
7. **A job registered during Run is not persisted** (`sundial.go:304`): the registry is copied
   once. `sundial.go:219-220`: "that happens on the first tick or when Run is called".
8. **A lone `WithLeader(nil)` does not disable leadership** (`sundial.go:197`): the sentinel
   cannot tell it from no option, so with a pool the Postgres leader is made. `sundial.go:133`:
   "Pass nil to disable leadership entirely". `LeaderOnceNamed` says what does hold: a nil after
   a leader works.

The grace does not bound a Run that replays (`dispatcher.go:382`): replayed handlers run in the
loop, which sees the cancellation only after the whole window, against `sundial.go:290-292`
("waits up to ShutdownGrace for in-flight handlers to finish, then returns"). `MCHungReplay.cfg`
shows it.

Observations without a run of their own:

- The `ClaimJob` which ends a replay may find the advisory lock busy and its result is ignored;
  the window is then replayed again, a second way to violate `ReplayedAtMostOnce`. The run
  `catchup_repeats` has one node and shows the first way only.
- A replayed fire that fails is never retried: its row still stands in the past, so the WHERE of
  `ScheduleRetry` matches nothing, and the replay then moves the row on. `dispatcher.go:349-351`
  says the retry budget applies to catch-up fires as to live ones. The failure does count in the
  job's attempt counter.
- A crash during retries restarts the whole budget, since the counter is gone and the row is
  still pulled back; `dispatcher.go:33-34` speaks of "one extra duplicate attempt".
- `IsLeader` of a shared `MemoryLeader` answers for the value, not for the asking scheduler
  (`leader.go:193`), so all sharers act as leader at once and any of them may release the lock.

## 5. Proofs

The theorems about the cluster hold for every set of nodes and jobs, every registry, skew of clocks, fault set
and bound that satisfies the assumptions `NoNodeAssumption`, `RegistryAssumption`,
`OptionsAssumption` and `BoundsAssumption`, which say no more than that the constants have
their types. Those of `PureProofs` assume that the bounds are natural numbers (`BoundsAreNat`).

- `ScheduleProofs!NextFireIsLater`: `Next` is zero or strictly later than its argument.
  `IterateIsOldest`: the iterator, whose loop tests only for zero and for `until`, returns the
  instants the schedule names strictly inside the window; what is missing comes after all that is
  returned and only because of the cap. The induction is over the calls of `Next`: the last
  instant returned is one the schedule names, and nothing before it was passed over
  (`NextIsFirst`). `BackoffBounded`: the clamp and the jitter for every policy a caller can write
  and every attempt; its lower bound needs a positive law. `BackoffGrows`: with positive fields
  and a multiplier of at least one the next delay is more than a third of this one; below one
  delays shrink and there is no such bound.
- `PureProofs`: each of the six properties of the run `pure`, for every value of the bounds of
  `MCPure` (`InputOK` says what a step can pick). Behind them are lemmas about the operators for
  all arguments: `DefaultsOfPolicy` and `LawPositive` for every policy, `JobsSorts` and
  `FetchDueCuts` for maps of any size, `OptionsLeave` for option lists of any length. A loop of
  the code is a `FoldLeft`; `FoldExists` and `FoldTurns` bring it back to its turns, after which
  `InsertionSorts` (every prefix is sorted and has the right members) or `LeaderKnown` (the
  leader is that of the last `WithLeader` so far, and counts as configured once one named a
  leader) is the loop invariant.
- `ClaimsProofs!OneClaimPerWindowHolds`. `OneClaimPerWindow` is not inductive: a claim could
  collide with a ticket whose target is ahead of the row. `ClaimedWindowsPassed` adds that the
  row has reached every target handed out in its epoch.
- `DispatcherProofs!TypeCorrect`. `TypeOK` is not inductive: `maybeDispatch` needs a due job,
  and an advanced row must exist to have a schedule. `IInv` adds `LoopInv` and `RowsExist`.
  `Registered` adds that a node's calls are for jobs of its registry, whose policies give the
  backoff its type. One lemma per action.
- `DispatcherProofs!RetryBudgetHolds`: from `IInv` and the step lemma `RetryBudgetStep`; a
  counter value at or beyond the budget has a running owner, and each way in which that owner
  ends resets the counter. It says nothing across a crash, which takes the counter with it.
- `DispatcherRefinement!DispatcherImplementsClaims`: under the mapping `next <- rows[j].next`,
  `live <- ClaimTickets` every step is a step of `Claims` or invisible to it.
- `DispatcherRefinement!OneHandlerPerWindowHolds`: the two theorems about `Claims` combined.
- `ReplayProofs!OneReplayHolds`, if `LeaderEnabled` and no connection is lost (the run
  `two_leaders` shows that the latter is needed). `OneReplay` is not inductive; `ReplayInv` adds
  that a `held` flag agrees with the server, that only a leader is in a replay, and that a
  replayed handler's node waits for it in the loop.
- `HistoryProofs!TrailCompleteHolds`. `TrailComplete` is not inductive: a new attempt gets its
  number from the counter, so `TrailInv` adds that every number the counter has reached belongs
  to a call or a record of the node, and that a call which has not started has no number.
- `HistoryProofs!WindowReplayedHolds`: `WindowReplayed` wherever `WindowsFit`, that is, where the
  window has at most `MaxCatchup` instants (the run `missed_fires_dropped`
  ends in a state where it fails without that).
  The invariant `WindowInv` follows the instants of the iterator, whatever their number: each is
  still to run, is running or has its record (`Accounted`). That the iterator's instants are
  those of the window comes from `IterateIsOldest` by counting (`IterateCovers`). Both proofs use
  `Quiet`: a Run is only told to stop by a fault.
- `SchedulerProofs`: `LifecycleTypes`, `OneLoopHolds`, `EnsuredBeforeLoopHolds`,
  `NoDeadLeaderHolds` and the action property `LeadsWhileRunningHolds`, for any number of
  schedulers, goroutines, jobs and leaders, from `SchedulerAssumption` (types) and
  `NoNodeAssumption`. The inductive invariant adds to `OneLoop` what a Run has ensured so far
  (`EnsureInv`) and that a leader's two fields agree and its holder was given it and is going to
  release it (`LeaderInv`).

TLC checked `IInv`, `ReplayInv`, `TrailInv` and `WindowInv` as invariants on the instances of
section 3 before they were proved.

Induction over data. The induction theorems of the library take a predicate as a parameter, which
the provers cannot instantiate. `InductionOnNat` takes a set instead (a set of natural numbers
with zero and with the successor of each member is `Nat`; proved from the least counterexample),
and `RecursionOnNat` gives the function that a first value and a step determine. The power of the
backoff is written as the recursive function `Pow`, for which `PowUnfolds` proves the two
equations of a power; the prover has no facts about `^`.

Only model-checked: the liveness properties `DueServed` and `RunReturns` with their fairness, and
the violations. Every invariant and action property of a passing run is also a theorem,
`OneReplay` and `WindowReplayed` under the conditions named above.

## 6. Not modelled, and the plan

Not modelled: telemetry and logging (output only, never read back), cron parsing (library), SQL
text, the connection pool (a leader pins one of its connections), the example program, and
handlers that outlive the grace into a second `Run` of the same process.

Left of the plan:

1. Two jobs with `FetchLimit` 1 under fairness: rows nobody serves keep others from being
   fetched. The instance has too many states for a fair run as it stands.
2. A cluster-wide statement of the retry budget: attempt counters are per node, so a job whose
   retries move between nodes may run more often than `MaxAttempts`; what bound remains is open.
