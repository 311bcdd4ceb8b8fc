-------------------------- MODULE DispatcherProofs --------------------------
(***************************************************************************)
(* Safety of Dispatcher for every cluster, registry, clock skew, limit and *)
(* number of faults.                                                       *)
(***************************************************************************)
EXTENDS Dispatcher, ScheduleProofs

(* A schedule in the registry of a node is a schedule.                     *)
LEMMA RegisteredSchedule ==
    ASSUME NEW n \in Nodes, NEW j \in DOMAIN Registry[n]
    PROVE  j \in Jobs /\ Registry[n][j].schedule \in Schedules
BY RegistryAssumption DEF JobDefs

(* The clock of a node is a natural number.                                *)
LEMMA ClockType ==
    ASSUME TypeOK, NEW n \in Nodes
    PROVE  Clock(n) \in Nat
BY OptionsAssumption DEF TypeOK, Clock

(* What a node dispatches is a fetched job, and its target an instant.     *)
LEMMA HeadType ==
    ASSUME IInv, NEW n \in Nodes, due[n] # << >>
    PROVE  /\ Dj(n) \in DueJobs
           /\ Target(n) \in Nat
           /\ rows[Dj(n).job] # NoRow
<1>1. due[n] \in Seq(DueJobs) /\ now[n] \in Nat
  BY DEF IInv, TypeOK
<1>2. Dj(n) = due[n][1] /\ 1 \in DOMAIN due[n]
  BY <1>1 DEF Dj
<1>3. Dj(n) \in DueJobs
  BY <1>1, <1>2
<1>4. rows[Dj(n).job] # NoRow
  BY <1>2 DEF IInv, RowsExist
<1>5. Target(n) \in Nat
  BY <1>1, <1>3, NextFireIsLater DEF Target, DueJobs
<1>6. QED
  BY <1>3, <1>4, <1>5

(* Going on to the next due job keeps the loop's variables in order.       *)
LEMMA NextDueKeeps ==
    ASSUME IInv, NEW n \in Nodes, due[n] # << >>, NextDue(n)
    PROVE  /\ pc' \in [Nodes -> Steps]
           /\ now' \in [Nodes -> Nat]
           /\ due' \in [Nodes -> Seq(DueJobs)]
           /\ \A m \in Nodes : pc'[m] \in {"dispatch", "claim", "advance", "replay"} => due'[m] # << >>
           /\ \A m \in Nodes : \A i \in DOMAIN due'[m] :
                \E k \in DOMAIN due[m] : due'[m][i] = due[m][k]
<1>1. /\ due \in [Nodes -> Seq(DueJobs)] /\ pc \in [Nodes -> Steps] /\ now \in [Nodes -> Nat]
      /\ due[n] \in Seq(DueJobs) /\ Len(due[n]) \in Nat
  BY DEF IInv, TypeOK
<1>2. /\ Tail(due[n]) \in Seq(DueJobs)
      /\ Len(due[n]) # 1 => Tail(due[n]) # << >>
      /\ \A i \in DOMAIN Tail(due[n]) : i + 1 \in DOMAIN due[n] /\ Tail(due[n])[i] = due[n][i + 1]
  <2>1. ASSUME NEW q \in Seq(DueJobs), q # << >>
        PROVE  /\ Tail(q) \in Seq(DueJobs)
               /\ Len(q) # 1 => Tail(q) # << >>
               /\ \A i \in DOMAIN Tail(q) : i + 1 \in DOMAIN q /\ Tail(q)[i] = q[i + 1]
    <3>1. Len(Tail(q)) = Len(q) - 1 /\ Tail(q) \in Seq(DueJobs)
      BY <2>1
    <3>2. \A i \in DOMAIN Tail(q) : i + 1 \in DOMAIN q /\ Tail(q)[i] = q[i + 1]
      BY <2>1
    <3>3. Tail(q) = << >> => Len(Tail(q)) = 0
      <4>1. Len(<< >>) = 0
        OBVIOUS
      <4>2. QED
        BY <4>1, Zenon
    <3>4. Len(q) \in Nat
      OBVIOUS
    <3>5. QED
      BY <3>1, <3>2, <3>3, <3>4
  <2>2. QED
    BY <1>1, <2>1
<1>3. due' = [due EXCEPT ![n] = Tail(due[n])]
  BY DEF NextDue
<1>4. pc' \in [Nodes -> Steps] /\ now' \in [Nodes -> Nat]
  <2>1. \/ pc' = [pc EXCEPT ![n] = "select"] /\ now' = [now EXCEPT ![n] = 0]
        \/ pc' = [pc EXCEPT ![n] = "dispatch"] /\ now' = now
    BY Zenon DEF NextDue, GoTo
  <2>2. pc' \in [Nodes -> Steps]
    BY <1>1, <2>1 DEF Steps
  <2>3. now' \in [Nodes -> Nat]
    BY <1>1, <2>1
  <2>4. QED
    BY <2>2, <2>3
<1>5. due' \in [Nodes -> Seq(DueJobs)]
  BY <1>1, <1>2, <1>3
<1>6. ASSUME NEW m \in Nodes, pc'[m] \in {"dispatch", "claim", "advance", "replay"}
      PROVE  due'[m] # << >>
  BY <1>1, <1>2, <1>6 DEF NextDue, GoTo, IInv, LoopInv
<1>7. ASSUME NEW m \in Nodes, NEW i \in DOMAIN due'[m]
      PROVE  \E k \in DOMAIN due[m] : due'[m][i] = due[m][k]
  BY <1>1, <1>2, <1>3, <1>7
<1>8. QED
  BY <1>4, <1>5, <1>6, <1>7

----------------------------------------------------------------------------
(* One lemma per action, or per group of actions that touch the same       *)
(* variables.                                                              *)

(* Time passes.                                                            *)
LEMMA AdvanceClockStep == ASSUME IInv, AdvanceClock PROVE IInv'
BY DEF IInv, TypeOK, LeaderTypeOK, LoopInv, RowsExist, AdvanceClock,
       storageVars, loopVars, leaderVars

(* Scheduler.Run and its EnsureJob calls.                                  *)
LEMMA RunStep == ASSUME IInv, NEW n \in Nodes, Run(n) PROVE IInv'
<1>1. Clock(n) \in Nat
  BY ClockType DEF IInv
<1> DEFINE missing == {j \in DOMAIN Registry[n] : FirstFire(n, j, Clock(n)) # ZeroTime}
<1>2. missing \subseteq DOMAIN Registry[n] /\ missing \subseteq Jobs
  BY RegistryAssumption
<1>3. /\ pc[n] = "down" /\ todo' = [todo EXCEPT ![n] = missing] /\ now' = [now EXCEPT ![n] = Clock(n)]
      /\ pc' = [pc EXCEPT ![n] = "elect"] \/ pc' = [pc EXCEPT ![n] = "ensure"]
      /\ UNCHANGED <<clock, storageVars, due, fires, leaderVars, cancelled, attempts, execs, faults>>
  BY DEF Run, GoTo
<1> HIDE DEF missing
<1>4. TypeOK'
  BY <1>1, <1>2, <1>3 DEF IInv, TypeOK, LeaderTypeOK, storageVars, leaderVars, Steps
<1>5. LoopInv'
  BY <1>2, <1>3 DEF IInv, TypeOK, LoopInv
<1>6. RowsExist'
  BY <1>3 DEF IInv, RowsExist, storageVars
<1>7. QED
  BY <1>4, <1>5, <1>6 DEF IInv

(* EnsureJob's upsert (storage.go:120-145) keeps IInv: the row it leaves   *)
(* has a fire time and a schedule of the registry.                         *)
LEMMA EnsureJobStep == ASSUME IInv, NEW n \in Nodes, NEW j \in Jobs, EnsureJob(n, j) PROVE IInv'
<1>1. j \in DOMAIN Registry[n] /\ now[n] \in Nat /\ rows[j] \in Rows
  BY DEF IInv, TypeOK, LoopInv, EnsureJob
<1>2. Registry[n][j].schedule \in Schedules /\ FirstFire(n, j, now[n]) \in Nat
  BY <1>1, RegisteredSchedule, NextFireIsLater DEF FirstFire
<1> DEFINE row == [next  |-> IF rows[j] = NoRow THEN FirstFire(n, j, now[n]) ELSE rows[j].next,
                   sched |-> Registry[n][j].schedule]
<1>3. row \in [next : Nat, sched : Schedules]
  BY <1>1, <1>2 DEF Rows
<1>4. row # NoRow
  BY <1>2, <1>3 DEF NoRow, NoSchedule, Schedules
<1>5. /\ rows' = [rows EXCEPT ![j] = row] /\ todo' = [todo EXCEPT ![n] = @ \ {j}]
      /\ pc[n] = "ensure"
      /\ pc' = [pc EXCEPT ![n] = "elect"] \/ pc' = [pc EXCEPT ![n] = "ensure"]
      /\ UNCHANGED <<clock, adv, runs, epoch, now, due, fires, leaderVars, cancelled, attempts, execs, faults>>
  BY DEF EnsureJob, GoTo, CallReaches
<1> HIDE DEF row
<1>6. TypeOK'
  BY <1>3, <1>5 DEF IInv, TypeOK, LeaderTypeOK, leaderVars, Steps, Rows
<1>7. LoopInv'
  BY <1>5 DEF IInv, TypeOK, LoopInv
<1>8. RowsExist'
  BY <1>4, <1>5 DEF IInv, TypeOK, RowsExist
<1>9. QED
  BY <1>6, <1>7, <1>8 DEF IInv

(* A failed storage call counts at most one fault.                         *)
LEMMA CallFailsType == ASSUME IInv, NEW n \in Nodes, CallFails(n) PROVE faults' \in Nat
BY DEF IInv, TypeOK, CallFails, Fault

(* Run's return on the first EnsureJob error keeps IInv.                   *)
LEMMA EnsureFailsStep == ASSUME IInv, NEW n \in Nodes, EnsureFails(n) PROVE IInv'
<1>1. faults' \in Nat
  BY CallFailsType DEF EnsureFails
<1>2. /\ pc' = [pc EXCEPT ![n] = "stopped"]
      /\ UNCHANGED <<clock, storageVars, todo, now, due, fires, leaderVars, cancelled, attempts, execs>>
  BY DEF EnsureFails, GoTo
<1>3. QED
  BY <1>1, <1>2 DEF IInv, TypeOK, LeaderTypeOK, LoopInv, RowsExist, storageVars, leaderVars, Steps

(* Leader renewal, fetch, drain and stop move only the loop of a node.     *)
LEMMA RenewStep == ASSUME IInv, NEW n \in Nodes, maybeRenewLeader(n) PROVE IInv'
<1>1. faults' \in Nat
  BY CallFailsType DEF maybeRenewLeader, IInv, TypeOK
<1>2. LeaderTypeOK'
  BY DEF maybeRenewLeader, TryAcquire, leaderVars, LeaderTypeOK, IInv, TypeOK
<1>3. /\ pc' = [pc EXCEPT ![n] = "tick"] \/ pc' = [pc EXCEPT ![n] = "select"]
      /\ UNCHANGED <<clock, storageVars, todo, now, due, fires, cancelled, attempts, execs>>
  BY DEF maybeRenewLeader, GoTo
<1>4. TypeOK'
  BY <1>1, <1>2, <1>3 DEF IInv, TypeOK, storageVars, Steps
<1>5. LoopInv' /\ RowsExist'
  BY <1>3 DEF IInv, TypeOK, LoopInv, RowsExist, storageVars
<1>6. QED
  BY <1>4, <1>5 DEF IInv

(* What FetchDue returns are snapshots of rows that exist.                 *)
LEMMA FetchDueType ==
    ASSUME IInv, NEW t \in Nat, NEW q \in FetchDue(t)
    PROVE  q \in Seq(DueJobs) /\ \A i \in DOMAIN q : rows[q[i].job] # NoRow
<1> DEFINE late == {j \in Jobs : rows[j] # NoRow /\ rows[j].next <= t}
           snapshot(j) == [job |-> j, next |-> rows[j].next, sched |-> rows[j].sched]
<1>0. PICK k \in 0..FetchLimit : \E p \in [1..k -> late] : q = [i \in DOMAIN p |-> snapshot(p[i])]
  BY Zenon DEF FetchDue
<1>1. PICK p \in [1..k -> late] : q = [i \in DOMAIN p |-> snapshot(p[i])]
  BY <1>0
<1>2. k \in Nat
  BY OptionsAssumption
<1>3. ASSUME NEW j \in late PROVE snapshot(j) \in DueJobs /\ rows[snapshot(j).job] # NoRow
  BY DEF IInv, TypeOK, Rows, DueJobs
<1>4. q = [i \in 1..k |-> snapshot(p[i])]
  BY <1>1
<1>5. \A i \in 1..k : p[i] \in late
  BY <1>1
<1> HIDE DEF late, snapshot
<1>6. QED
  BY <1>2, <1>3, <1>4, <1>5

(* tick keeps IInv: FetchDue returns snapshots of rows that exist, and the *)
(* loop dispatches only if there are some.                                 *)
LEMMA TickStep == ASSUME IInv, NEW n \in Nodes, tick(n) PROVE IInv'
<1>1. Clock(n) \in Nat
  BY ClockType DEF IInv
<1>2. UNCHANGED <<clock, storageVars, todo, fires, leaderVars, cancelled, attempts, execs>>
  BY DEF tick
<1>3. CASE CallReaches(n) /\ \E q \in FetchDue(Clock(n)) :
                /\ due' = [due EXCEPT ![n] = q]
                /\ now' = [now EXCEPT ![n] = IF q = << >> THEN 0 ELSE Clock(n)]
                /\ GoTo(n, IF q = << >> THEN "select" ELSE "dispatch")
  <2>1. PICK q \in FetchDue(Clock(n)) :
                /\ due' = [due EXCEPT ![n] = q]
                /\ now' = [now EXCEPT ![n] = IF q = << >> THEN 0 ELSE Clock(n)]
                /\ GoTo(n, IF q = << >> THEN "select" ELSE "dispatch")
    BY <1>3
  <2>2. q \in Seq(DueJobs) /\ \A i \in DOMAIN q : rows[q[i].job] # NoRow
    BY <1>1, FetchDueType
  <2>3. faults' = faults
    BY <1>3 DEF CallReaches
  <2>4. TypeOK'
    BY <1>1, <1>2, <2>1, <2>2, <2>3 DEF IInv, TypeOK, LeaderTypeOK, storageVars, leaderVars, Steps, GoTo
  <2>5. LoopInv'
    BY <1>2, <2>1 DEF IInv, TypeOK, LoopInv, GoTo
  <2>6. RowsExist'
    BY <1>2, <2>1, <2>2 DEF IInv, TypeOK, RowsExist, storageVars
  <2>7. QED
    BY <2>4, <2>5, <2>6 DEF IInv
<1>4. CASE CallFails(n) /\ now' = [now EXCEPT ![n] = 0] /\ GoTo(n, "select") /\ UNCHANGED due
  <2>1. faults' \in Nat
    BY <1>4, CallFailsType
  <2>2. TypeOK'
    BY <1>2, <1>4, <2>1 DEF IInv, TypeOK, LeaderTypeOK, storageVars, leaderVars, Steps, GoTo
  <2>3. LoopInv' /\ RowsExist'
    BY <1>2, <1>4 DEF IInv, TypeOK, LoopInv, RowsExist, storageVars, GoTo
  <2>4. QED
    BY <2>2, <2>3 DEF IInv
<1>5. QED
  BY <1>3, <1>4 DEF tick

(* maybeDispatch goes on to the next due job and no row disappears.        *)
LEMMA NextDueInv ==
    ASSUME IInv, NEW n \in Nodes, due[n] # << >>, NextDue(n), UNCHANGED todo,
           \A j \in Jobs : rows[j] # NoRow => rows'[j] # NoRow
    PROVE  LoopInv' /\ RowsExist'
<1>1. LoopInv'
  BY NextDueKeeps DEF IInv, LoopInv
<1>2. ASSUME NEW m \in Nodes, NEW i \in DOMAIN due'[m] PROVE rows'[due'[m][i].job] # NoRow
  <2>1. PICK k \in DOMAIN due[m] : due'[m][i] = due[m][k]
    BY <1>2, NextDueKeeps
  <2>2. rows[due[m][k].job] # NoRow
    BY DEF IInv, RowsExist
  <2>3. due[m] \in Seq(DueJobs)
    BY DEF IInv, TypeOK
  <2>4. due[m][k].job \in Jobs
    <3>1. due[m][k] \in DueJobs
      BY <2>3
    <3>2. QED
      BY <3>1 DEF DueJobs
  <2>5. QED
    BY <2>1, <2>2, <2>4
<1>3. QED
  BY <1>1, <1>2 DEF RowsExist

(* maybeDispatch's early returns keep IInv.                                *)
LEMMA IgnoreStep == ASSUME IInv, NEW n \in Nodes, Ignore(n) PROVE IInv'
<1>1. due[n] # << >>
  BY DEF Ignore, IInv, LoopInv
<1>2. TypeOK'
  BY <1>1, NextDueKeeps DEF Ignore, IInv, TypeOK, LeaderTypeOK, storageVars, leaderVars
<1>3. LoopInv' /\ RowsExist'
  BY <1>1, NextDueInv DEF Ignore, storageVars
<1>4. QED
  BY <1>2, <1>3 DEF IInv

(* The first half of ClaimJob.                                             *)
LEMMA LockStep ==
    ASSUME IInv, NEW n \in Nodes, due[n] # << >>,
           NEW step \in {"claim", "advance"}, LockForClaim(n, step)
    PROVE  IInv'
<1>1. /\ UNCHANGED <<clock, rows, runs, epoch, todo, fires, leaderVars, cancelled, attempts, execs>>
      /\ faults' \in Nat
  BY CallFailsType DEF LockForClaim, CallReaches, IInv, TypeOK
<1>2. CASE NextDue(n) /\ UNCHANGED adv
  <2>1. TypeOK'
    BY <1>1, <1>2, NextDueKeeps DEF IInv, TypeOK, LeaderTypeOK, leaderVars
  <2>2. LoopInv' /\ RowsExist'
    BY <1>1, <1>2, NextDueInv
  <2>3. QED
    BY <2>1, <2>2 DEF IInv
<1>3. CASE /\ adv' = IF Backend = "postgres" THEN [adv EXCEPT ![Dj(n).job] = n] ELSE adv
           /\ GoTo(n, step) /\ UNCHANGED <<due, now>>
  <2>1. TypeOK'
    BY <1>1, <1>3 DEF IInv, TypeOK, LeaderTypeOK, leaderVars, GoTo, Steps
  <2>2. LoopInv' /\ RowsExist'
    BY <1>1, <1>3 DEF IInv, TypeOK, LoopInv, RowsExist, GoTo
  <2>3. QED
    BY <2>1, <2>2 DEF IInv
<1>4. QED
  BY <1>2, <1>3 DEF LockForClaim

(* ClaimJob up to the advisory lock keeps IInv.                            *)
LEMMA BeginClaimStep == ASSUME IInv, NEW n \in Nodes, BeginClaim(n) PROVE IInv'
<1>1. due[n] # << >>
  BY DEF BeginClaim, IInv, LoopInv
<1>2. QED
  BY <1>1, LockStep DEF BeginClaim

(* A new call of execute is well formed.                                   *)
LEMMA NewExecType ==
    ASSUME IInv, NEW n \in Nodes, NEW j \in Jobs, NEW f \in Nat, NEW t \in Nat, NEW c \in BOOLEAN
    PROVE  NewExec(n, j, f, t, c) \in Execs
BY DEF IInv, TypeOK, NewExec, Execs, Call

(* Moving an existing row leaves a row.                                    *)
LEMMA MoveRowType ==
    ASSUME IInv, NEW j \in Jobs, NEW t \in Nat, rows[j] # NoRow, MoveRow(j, t)
    PROVE  /\ rows' \in [Jobs -> Rows]
           /\ \A k \in Jobs : rows[k] # NoRow => rows'[k] # NoRow
           /\ \A k \in Jobs : rows'[k].next = IF k = j THEN t ELSE rows[k].next
<1>1. rows[j] \in [next : Nat, sched : Schedules] /\ rows \in [Jobs -> Rows]
  BY DEF IInv, TypeOK, Rows
<1> DEFINE row == [rows[j] EXCEPT !.next = t]
<1>2. row \in [next : Nat, sched : Schedules] /\ row.next = t
  BY <1>1
<1>3. row # NoRow
  BY <1>2 DEF NoRow, NoSchedule, Schedules
<1>4. rows' = [rows EXCEPT ![j] = row]
  BY DEF MoveRow
<1> HIDE DEF row
<1>5. QED
  BY <1>1, <1>2, <1>3, <1>4 DEF Rows

(* The second half of ClaimJob, for both of its uses.                      *)
LEMMA ClaimJobStep == ASSUME IInv, NEW n \in Nodes, ClaimJob(n) \/ AdvanceRow(n) PROVE IInv'
<1>1. due[n] # << >>
  BY DEF ClaimJob, AdvanceRow, IInv, LoopInv
<1>2. /\ Dj(n).job \in Jobs /\ Dj(n).next \in Nat /\ Target(n) \in Nat
      /\ rows[Dj(n).job] # NoRow
  BY <1>1, HeadType DEF DueJobs
<1>3. /\ Unlock(n) /\ NextDue(n) /\ faults' \in Nat
      /\ UNCHANGED <<clock, runs, epoch, todo, fires, leaderVars, cancelled, attempts>>
      /\ UNCHANGED rows \/ MoveRow(Dj(n).job, Target(n))
      /\ \/ UNCHANGED execs
         \/ execs' = execs \cup {NewExec(n, Dj(n).job, Dj(n).next, Target(n), TRUE)}
  BY CallFailsType DEF ClaimJob, AdvanceRow, CallReaches, IInv, TypeOK
<1>4. rows' \in [Jobs -> Rows] /\ \A k \in Jobs : rows[k] # NoRow => rows'[k] # NoRow
  BY <1>2, <1>3, MoveRowType DEF IInv, TypeOK
<1>5. execs' \subseteq Execs
  <2>1. NewExec(n, Dj(n).job, Dj(n).next, Target(n), TRUE) \in Execs
    BY <1>2, NewExecType
  <2>2. QED
    BY <1>3, <2>1 DEF IInv, TypeOK
<1>6. adv' \in [Jobs -> Nodes \cup {NoNode}]
  BY <1>2, <1>3 DEF Unlock, IInv, TypeOK
<1>7. TypeOK'
  BY <1>1, <1>3, <1>4, <1>5, <1>6, NextDueKeeps DEF IInv, TypeOK, LeaderTypeOK, leaderVars
<1>8. LoopInv' /\ RowsExist'
  BY <1>1, <1>3, <1>4, NextDueInv
<1>9. QED
  BY <1>7, <1>8 DEF IInv

(* runAllMissed.                                                           *)
LEMMA StartReplayStep == ASSUME IInv, NEW n \in Nodes, StartReplay(n) PROVE IInv'
<1>1. due[n] # << >>
  BY DEF StartReplay, IInv, LoopInv
<1>2. Dj(n).sched \in Schedules /\ Dj(n).next \in Nat /\ now[n] \in Nat /\ MaxCatchup \in Nat
  BY <1>1, HeadType, OptionsAssumption DEF DueJobs, IInv, TypeOK
<1>5. Instants(n) \in Seq(Nat)
  BY <1>2, IterateLength DEF Instants
<1> DEFINE replay == IF Instants(n) = << >> THEN <<Dj(n).next>> ELSE Instants(n)
<1>6. replay \in Seq(Nat)
  BY <1>2, <1>5
<1>7. /\ fires' = [fires EXCEPT ![n] = replay] /\ pc' = [pc EXCEPT ![n] = "replay"]
      /\ UNCHANGED <<clock, storageVars, todo, now, due, leaderVars, cancelled, attempts, execs, faults>>
  BY DEF StartReplay, GoTo
<1> HIDE DEF replay
<1>8. TypeOK'
  BY <1>6, <1>7 DEF IInv, TypeOK, LeaderTypeOK, storageVars, leaderVars, Steps
<1>9. LoopInv' /\ RowsExist'
  BY <1>1, <1>7 DEF IInv, TypeOK, LoopInv, RowsExist, storageVars
<1>10. QED
  BY <1>8, <1>9 DEF IInv

(* Starting the next fire of a replay keeps IInv.                          *)
LEMMA executeAtFireStep == ASSUME IInv, NEW n \in Nodes, executeAtFire(n) PROVE IInv'
<1>1. due[n] # << >> /\ fires[n] # << >> /\ fires[n] \in Seq(Nat)
  BY DEF executeAtFire, IInv, LoopInv, TypeOK
<1>2. Head(fires[n]) \in Nat /\ Tail(fires[n]) \in Seq(Nat)
  BY <1>1
<1>3. Dj(n).job \in Jobs
  BY <1>1, HeadType DEF DueJobs
<1>4. execs' \subseteq Execs
  <2>1. NewExec(n, Dj(n).job, Head(fires[n]), Head(fires[n]), FALSE) \in Execs
    BY <1>2, <1>3, NewExecType
  <2>2. QED
    BY <2>1 DEF executeAtFire, IInv, TypeOK
<1>5. /\ fires' = [fires EXCEPT ![n] = Tail(fires[n])]
      /\ UNCHANGED <<clock, storageVars, pc, todo, now, due, leaderVars, cancelled, attempts, faults>>
  BY DEF executeAtFire
<1>6. TypeOK'
  BY <1>2, <1>4, <1>5 DEF IInv, TypeOK, LeaderTypeOK, storageVars, leaderVars
<1>7. LoopInv' /\ RowsExist'
  BY <1>5 DEF IInv, LoopInv, RowsExist, storageVars
<1>8. QED
  BY <1>6, <1>7 DEF IInv

(* The end of a replay keeps IInv.                                         *)
LEMMA EndReplayStep == ASSUME IInv, NEW n \in Nodes, EndReplay(n) PROVE IInv'
<1>1. due[n] # << >>
  BY DEF EndReplay, IInv, LoopInv
<1>2. CASE LockForClaim(n, "advance")
  BY <1>1, <1>2, LockStep
<1>3. CASE /\ NextDue(n)
           /\ UNCHANGED <<clock, storageVars, todo, fires, leaderVars, cancelled, attempts, execs, faults>>
  <2>1. TypeOK'
    BY <1>1, <1>3, NextDueKeeps DEF IInv, TypeOK, LeaderTypeOK, storageVars, leaderVars
  <2>2. LoopInv' /\ RowsExist'
    BY <1>1, <1>3, NextDueInv DEF storageVars
  <2>3. QED
    BY <2>1, <2>2 DEF IInv
<1>4. QED
  BY <1>2, <1>3 DEF EndReplay

(* execute: what a handler goroutine does to its own record and counter.   *)
LEMMA HandlerStep ==
    ASSUME IInv, NEW e \in execs, StartHandler(e) \/ HandlerReturns(e)
    PROVE  IInv'
<1>1. e \in Execs /\ attempts[e.node][e.job] \in Nat
  BY DEF IInv, TypeOK, Execs, Call
<1>2. UNCHANGED <<clock, storageVars, loopVars, leaderVars, cancelled, faults>>
  BY DEF StartHandler, HandlerReturns, HandlerSucceeds, HandlerFails
<1>3. PICK k \in Nat : attempts' = [attempts EXCEPT ![e.node][e.job] = k]
  <2>1. attempts = [attempts EXCEPT ![e.node][e.job] = attempts[e.node][e.job]]
    BY <1>1 DEF IInv, TypeOK, Execs, Call
  <2>2. QED
    BY <1>1, <2>1 DEF StartHandler, HandlerReturns, HandlerSucceeds, HandlerFails, forgetAttempt
<1>4. PICK f \in Execs : execs' = (execs \ {e}) \cup {f}
  <2>1. CASE StartHandler(e)
    <3>1. PICK a \in Nat : a = attempts[e.node][e.job] + 1
      BY <1>1
    <3>2. [e EXCEPT !.pc = "running", !.attempt = a] \in Execs
      <4>1. e \in Call({"spawned", "running"}, {"none"})
        BY <1>1, <2>1 DEF Execs, Call, StartHandler
      <4>2. QED
        BY <4>1 DEF Execs, Call
    <3>3. QED
      BY <2>1, <3>1, <3>2 DEF StartHandler, Become
  <2>2. CASE HandlerReturns(e)
    <3>1. /\ [e EXCEPT !.pc = "record", !.outcome = "success"] \in Execs
          /\ [e EXCEPT !.pc = "retry", !.outcome = "failed"] \in Execs
          /\ [e EXCEPT !.pc = "record", !.outcome = "dead-letter"] \in Execs
      BY <1>1 DEF Execs, Call, Outcomes
    <3>2. QED
      BY <2>2, <3>1 DEF HandlerReturns, HandlerSucceeds, HandlerFails, Become
  <2>3. QED
    BY <2>1, <2>2
<1>5. TypeOK'
  BY <1>1, <1>2, <1>3, <1>4
     DEF IInv, TypeOK, LeaderTypeOK, storageVars, loopVars, leaderVars, Execs, Call
<1>6. LoopInv' /\ RowsExist'
  BY <1>2 DEF IInv, LoopInv, RowsExist, storageVars, loopVars
<1>7. QED
  BY <1>5, <1>6 DEF IInv

(* The backoff of a registered job is a duration.                          *)
LEMMA BackoffType ==
    ASSUME IInv, Registered, NEW e \in execs, NEW b \in computeBackoff(RetryPolicy(e), e.attempt)
    PROVE  b \in Nat
<1>1. e.node \in Nodes /\ e.job \in DOMAIN Registry[e.node] /\ e.attempt \in Int
  BY DEF IInv, TypeOK, Execs, Call, Registered
<1>2. RetryPolicy(e) \in RetryPolicies
  BY <1>1, RegistryAssumption DEF RetryPolicy, JobDefs
<1>3. /\ RetryPolicy(e) \in RawPolicies /\ RetryPolicy(e).max > 0
      /\ Grown(RetryPolicy(e), e.attempt) > 0
  BY <1>1, <1>2, GrownPositive
<1> QED
  BY <1>1, <1>3, BackoffBounded

(* ScheduleRetry's UPDATE keeps the row's type and its existence.          *)
LEMMA PullBackKeeps ==
    ASSUME IInv, NEW j \in Jobs, NEW t \in Nat, PullBack(j, t)
    PROVE  /\ rows' \in [Jobs -> Rows] /\ epoch' \in [Jobs -> Nat]
           /\ \A k \in Jobs : rows[k] # NoRow => rows'[k] # NoRow
<1>1. CASE t < rows[j].next
  <2>1. rows[j] # NoRow
    BY <1>1 DEF NoRow, ZeroTime
  <2>2. MoveRow(j, t) /\ epoch' = [epoch EXCEPT ![j] = @ + 1]
    BY <1>1 DEF PullBack
  <2>3. QED
    BY <2>1, <2>2, MoveRowType DEF IInv, TypeOK
<1>2. CASE ~ (t < rows[j].next)
  BY <1>2 DEF PullBack, IInv, TypeOK
<1>3. QED
  BY <1>1, <1>2

(* The retry step of execute keeps IInv.                                   *)
LEMMA ScheduleRetryStep == ASSUME IInv, Registered, NEW e \in execs, ScheduleRetry(e) PROVE IInv'
<1>1. e \in Execs /\ e.node \in Nodes /\ e.job \in Jobs
  BY DEF IInv, TypeOK, Execs, Call
<1>2. /\ faults' \in Nat
      /\ UNCHANGED <<clock, adv, runs, loopVars, leaderVars, cancelled, attempts>>
  BY <1>1, CallFailsType DEF ScheduleRetry, CallReaches, IInv, TypeOK
<1>3. /\ rows' \in [Jobs -> Rows] /\ epoch' \in [Jobs -> Nat]
      /\ \A k \in Jobs : rows[k] # NoRow => rows'[k] # NoRow
  <2>1. CASE UNCHANGED <<rows, epoch>>
    BY <2>1 DEF IInv, TypeOK
  <2>2. CASE \E b \in computeBackoff(RetryPolicy(e), e.attempt) : PullBack(e.job, Clock(e.node) + b)
    <3>1. PICK b \in computeBackoff(RetryPolicy(e), e.attempt) : PullBack(e.job, Clock(e.node) + b)
      BY <2>2
    <3>2. Clock(e.node) + b \in Nat
      <4>1. b \in Nat
        BY BackoffType
      <4>2. Clock(e.node) \in Nat
        BY <1>1, ClockType DEF IInv
      <4> QED
        BY <4>1, <4>2
    <3>3. QED
      BY <1>1, <3>1, <3>2, PullBackKeeps
  <2>3. QED
    BY <2>1, <2>2 DEF ScheduleRetry
<1>4. execs' \subseteq Execs
  <2>1. [e EXCEPT !.pc = "record"] \in Execs
    <3>1. e \in Call({"retry", "record"}, Outcomes)
      BY <1>1 DEF Execs, Call, ScheduleRetry
    <3>2. QED
      BY <3>1 DEF Execs, Call
  <2>2. QED
    BY <2>1 DEF ScheduleRetry, Become, IInv, TypeOK
<1>5. TypeOK'
  BY <1>2, <1>3, <1>4 DEF IInv, TypeOK, LeaderTypeOK, loopVars, leaderVars
<1>6. LoopInv'
  BY <1>2 DEF IInv, LoopInv, loopVars
<1>7. RowsExist'
  <2>1. ASSUME NEW n \in Nodes, NEW i \in DOMAIN due[n] PROVE due[n][i].job \in Jobs
    <3>1. due[n] \in Seq(DueJobs)
      BY DEF IInv, TypeOK
    <3>2. due[n][i] \in DueJobs
      BY <3>1
    <3>3. QED
      BY <3>2 DEF DueJobs
  <2>2. QED
    BY <1>2, <1>3, <2>1 DEF IInv, RowsExist, loopVars
<1>8. QED
  BY <1>5, <1>6, <1>7 DEF IInv

(* A finished run is recorded with its outcome.                            *)
LEMMA RecordRunStep == ASSUME IInv, NEW e \in execs, RecordRun(e) PROVE IInv'
<1>1. e \in Execs /\ e.node \in Nodes /\ e.outcome \in Outcomes
  BY DEF IInv, TypeOK, Execs, Call, RecordRun
<1> DEFINE r == [node |-> e.node, job |-> e.job, fire |-> e.fire, claimed |-> e.claimed,
                 attempt |-> e.attempt, outcome |-> e.outcome]
<1>2. r \in RunRecords
  BY <1>1 DEF Execs, Call, RunRecords
<1>3. /\ faults' \in Nat
      /\ UNCHANGED <<clock, rows, adv, epoch, loopVars, leaderVars, cancelled, attempts>>
      /\ execs' = execs \ {e}
      /\ runs' = Insert(r) \/ UNCHANGED runs
  BY <1>1, CallFailsType DEF RecordRun, CallReaches, IInv, TypeOK
<1> HIDE DEF r
<1>4. DOMAIN runs' \subseteq RunRecords /\ runs' \in [DOMAIN runs' -> Nat]
  <2>1. CASE UNCHANGED runs
    BY <2>1 DEF IInv, TypeOK
  <2>2. CASE runs' = Insert(r)
    <3>1. DOMAIN runs' = DOMAIN runs \cup {r}
      BY <2>2 DEF Insert
    <3>2. ASSUME NEW x \in DOMAIN runs \cup {r} PROVE runs'[x] \in Nat
      <4>1. ASSUME NEW y \in DOMAIN runs PROVE runs[y] \in Nat
        BY DEF IInv, TypeOK
      <4>2. QED
        BY <2>2, <4>1 DEF Insert
    <3>3. runs' = [x \in DOMAIN runs \cup {r} |-> runs'[x]]
      BY <2>2 DEF Insert
    <3>4. QED
      BY <1>2, <3>1, <3>2, <3>3 DEF IInv, TypeOK
  <2>3. QED
    BY <1>3, <2>1, <2>2
<1>5. TypeOK'
  BY <1>3, <1>4 DEF IInv, TypeOK, LeaderTypeOK, loopVars, leaderVars
<1>6. LoopInv' /\ RowsExist'
  BY <1>3 DEF IInv, LoopInv, RowsExist, loopVars
<1>7. QED
  BY <1>5, <1>6 DEF IInv

(* Shutdown, crashes and lost connections.                                 *)
LEMMA CancelStep == ASSUME IInv, NEW n \in Nodes, Cancel(n) PROVE IInv'
BY DEF IInv, TypeOK, LeaderTypeOK, LoopInv, RowsExist, Cancel, Fault, storageVars, loopVars, leaderVars

(* The ctx.Done case of the select keeps IInv.                             *)
LEMMA DrainStep == ASSUME IInv, NEW n \in Nodes, Drain(n) PROVE IInv'
<1>1. /\ pc' = [pc EXCEPT ![n] = "drain"]
      /\ UNCHANGED <<clock, storageVars, todo, now, due, fires, leaderVars, cancelled, attempts, execs, faults>>
  BY DEF Drain, GoTo
<1>2. QED
  BY <1>1 DEF IInv, TypeOK, LeaderTypeOK, LoopInv, RowsExist, storageVars, leaderVars, Steps

(* drain and the release of the leader lock keep IInv.                     *)
LEMMA StopStep == ASSUME IInv, NEW n \in Nodes, Stop(n) PROVE IInv'
<1>1. /\ pc' = [pc EXCEPT ![n] = "stopped"]
      /\ UNCHANGED <<clock, storageVars, todo, now, due, fires, cancelled, attempts, execs, faults>>
  BY DEF Stop, GoTo
<1>2. LeaderTypeOK'
  BY DEF Stop, Release, ReleaseFails, LeaderTypeOK, IInv, TypeOK
<1>3. QED
  BY <1>1, <1>2 DEF IInv, TypeOK, LoopInv, RowsExist, storageVars, Steps

(* The end of a process, with everything it holds, keeps IInv.             *)
LEMMA GoneStep == ASSUME IInv, NEW n \in Nodes, Gone(n), faults' \in Nat PROVE IInv'
<1>1. LeaderTypeOK'
  BY DEF Gone, Release, LeaderTypeOK, IInv, TypeOK
<1>2. /\ pc' \in [Nodes -> Steps] /\ cancelled' \in [Nodes -> BOOLEAN]
      /\ todo' \in [Nodes -> SUBSET Jobs] /\ now' \in [Nodes -> Nat]
  BY DEF Gone, GoTo, IInv, TypeOK, Steps
<1>3. due' \in [Nodes -> Seq(DueJobs)] /\ fires' \in [Nodes -> Seq(Nat)]
  BY DEF Gone, IInv, TypeOK
<1>4. /\ attempts' \in [Nodes -> [Jobs -> Nat]] /\ execs' \subseteq Execs
      /\ adv' \in [Jobs -> Nodes \cup {NoNode}]
  BY DEF Gone, IInv, TypeOK
<1>5. TypeOK'
  BY <1>1, <1>2, <1>3, <1>4 DEF Gone, IInv, TypeOK
<1>6. LoopInv' /\ RowsExist'
  BY DEF Gone, GoTo, IInv, TypeOK, LoopInv, RowsExist
<1>7. QED
  BY <1>5, <1>6 DEF IInv

(* A lost leader connection keeps IInv: held and owner may disagree.       *)
LEMMA LoseConnectionStep == ASSUME IInv, NEW n \in Nodes, LoseConnection(n) PROVE IInv'
BY DEF IInv, TypeOK, LeaderTypeOK, LoopInv, RowsExist, LoseConnection, ConnectionLost, Fault,
       storageVars, loopVars

----------------------------------------------------------------------------
(* A step that leaves the jobs in hand alone, or starts with a registered  *)
(* one, keeps Registered.                                                  *)
LEMMA RegisteredKept ==
    ASSUME IInv, Registered,
           \A m \in Nodes : pc'[m] \in {"claim", "advance", "replay"} =>
               \/ pc[m] \in {"claim", "advance", "replay"} /\ due'[m] = due[m]
               \/ Head(due'[m]).job \in DOMAIN Registry[m],
           \A f \in execs' : \/ \E e \in execs : f.job = e.job /\ f.node = e.node
                             \/ f.job \in DOMAIN Registry[f.node]
    PROVE  Registered'
BY DEF Registered

(* maybeDispatch claims and replays only what the node registered.         *)
LEMMA DecisionRegistered ==
    ASSUME NEW n \in Nodes, Decision(n) \in {"claim", "advance", "replay"}
    PROVE  Head(due[n]).job \in DOMAIN Registry[n]
BY DEF Decision, Dj

(* When maybeDispatch returns the node is back in tick or in the select.   *)
LEMMA NextDueReturns ==
    ASSUME IInv, NEW n \in Nodes, NextDue(n)
    PROVE  /\ pc'[n] \in {"select", "dispatch"}
           /\ \A m \in Nodes \ {n} : pc'[m] = pc[m] /\ due'[m] = due[m]
BY DEF IInv, TypeOK, NextDue, GoTo

(* Every step keeps the jobs in hand registered.                           *)
LEMMA RegisteredStep == ASSUME IInv, Registered, [Next]_vars PROVE Registered'
<1> DEFINE Busy == {"claim", "advance", "replay"}
<1>0. pc \in [Nodes -> Steps] /\ due \in [Nodes -> Seq(DueJobs)] /\ execs \subseteq Execs
  BY DEF IInv, TypeOK
<1>1. ASSUME NEW n \in Nodes, NEW step, GoTo(n, step), UNCHANGED <<due, execs>>,
             step \in Busy => Head(due[n]).job \in DOMAIN Registry[n]
      PROVE  Registered'
  BY <1>0, <1>1, RegisteredKept DEF GoTo
<1>2. ASSUME NEW n \in Nodes, NextDue(n), UNCHANGED execs PROVE Registered'
  BY <1>2, NextDueReturns, RegisteredKept
<1>3. ASSUME UNCHANGED <<pc, due>>, execs' \subseteq execs PROVE Registered'
  BY <1>3, RegisteredKept
<1>4. ASSUME NEW n \in Nodes, NEW step \in Busy, LockForClaim(n, step),
             Head(due[n]).job \in DOMAIN Registry[n]
      PROVE  Registered'
  BY <1>1, <1>2, <1>4 DEF LockForClaim
<1>5. ASSUME NEW n \in Nodes, Run(n) \/ EnsureFails(n) \/ Stop(n) \/ Drain(n) PROVE Registered'
  BY <1>1, <1>5 DEF Run, EnsureFails, Stop, Drain
<1>6. ASSUME NEW n \in Nodes, NEW j \in Jobs, EnsureJob(n, j) PROVE Registered'
  BY <1>1, <1>6 DEF EnsureJob
<1>7. ASSUME NEW n \in Nodes, Ignore(n) PROVE Registered'
  BY <1>2, <1>7 DEF Ignore
<1>8. ASSUME NEW n \in Nodes, BeginClaim(n) PROVE Registered'
  BY <1>4, <1>8, DecisionRegistered DEF BeginClaim
<1>9. ASSUME NEW n \in Nodes, ClaimJob(n) \/ AdvanceRow(n) PROVE Registered'
  <2>1. Head(due[n]).job \in DOMAIN Registry[n] /\ NextDue(n)
    BY <1>9 DEF ClaimJob, AdvanceRow, Registered
  <2> DEFINE x == NewExec(n, Dj(n).job, Dj(n).next, Target(n), TRUE)
  <2>2. execs' \subseteq execs \cup {x} /\ x.job = Head(due[n]).job /\ x.node = n
    BY <1>9 DEF ClaimJob, AdvanceRow, NewExec, Dj
  <2> HIDE DEF x
  <2> QED
    BY <2>1, <2>2, NextDueReturns, RegisteredKept
<1>10. ASSUME NEW n \in Nodes, StartReplay(n) PROVE Registered'
  BY <1>1, <1>10, DecisionRegistered DEF StartReplay
<1>11. ASSUME NEW n \in Nodes, executeAtFire(n) PROVE Registered'
  <2> DEFINE x == NewExec(n, Dj(n).job, Head(fires[n]), Head(fires[n]), FALSE)
  <2>1. /\ Head(due[n]).job \in DOMAIN Registry[n] /\ UNCHANGED <<pc, due>>
        /\ execs' = execs \cup {x} /\ x.job = Head(due[n]).job /\ x.node = n
    BY <1>11 DEF executeAtFire, Registered, NewExec, Dj
  <2> HIDE DEF x
  <2> QED
    BY <2>1, RegisteredKept
<1>12. ASSUME NEW n \in Nodes, EndReplay(n) PROVE Registered'
  <2>1. Head(due[n]).job \in DOMAIN Registry[n]
    BY <1>12 DEF EndReplay, Registered
  <2> QED
    BY <1>2, <1>4, <1>12, <2>1 DEF EndReplay
<1>13. ASSUME NEW n \in Nodes, Gone(n) PROVE Registered'
  BY <1>0, <1>13, RegisteredKept DEF Gone, GoTo
<1>14. ASSUME NEW n \in Nodes, maybeRenewLeader(n) PROVE Registered'
  BY <1>1, <1>14 DEF maybeRenewLeader
<1>15. ASSUME NEW n \in Nodes, tick(n) PROVE Registered'
  <2>1. /\ pc'[n] \in {"select", "dispatch"} /\ UNCHANGED execs
        /\ \A m \in Nodes \ {n} : pc'[m] = pc[m] /\ due'[m] = due[m]
    BY <1>0, <1>15 DEF tick, GoTo
  <2> QED
    BY <2>1, RegisteredKept
<1>16. ASSUME NEW n \in Nodes, Cancel(n) \/ LoseConnection(n) PROVE Registered'
  BY <1>3, <1>16 DEF Cancel, LoseConnection, loopVars
<1>17. ASSUME NEW e \in execs, RecordRun(e) PROVE Registered'
  BY <1>3, <1>17 DEF RecordRun, loopVars
<1>18. ASSUME NEW e \in execs, StartHandler(e) \/ ScheduleRetry(e) \/ HandlerReturns(e) PROVE Registered'
  <2>1. UNCHANGED <<pc, due>>
    BY <1>18 DEF StartHandler, ScheduleRetry, HandlerReturns, HandlerSucceeds, HandlerFails, loopVars
  <2>2. ASSUME NEW f, Become(e, f), f.job = e.job, f.node = e.node PROVE Registered'
    BY <2>1, <2>2, RegisteredKept DEF Become
  <2>3. e \in Execs
    BY <1>0
  <2>4. ASSUME NEW step, NEW k PROVE /\ [e EXCEPT !.pc = step, !.attempt = k].job = e.job
                                     /\ [e EXCEPT !.pc = step, !.attempt = k].node = e.node
    BY <2>3 DEF Execs, Call
  <2>5. ASSUME NEW step, NEW o PROVE /\ [e EXCEPT !.pc = step, !.outcome = o].job = e.job
                                     /\ [e EXCEPT !.pc = step, !.outcome = o].node = e.node
    BY <2>3 DEF Execs, Call
  <2>6. [e EXCEPT !.pc = "record"].job = e.job /\ [e EXCEPT !.pc = "record"].node = e.node
    BY <2>3 DEF Execs, Call
  <2>7. CASE StartHandler(e)
    BY <2>2, <2>4, <2>7 DEF StartHandler
  <2>8. CASE ScheduleRetry(e)
    BY <2>2, <2>6, <2>8 DEF ScheduleRetry
  <2>9. CASE HandlerReturns(e)
    BY <2>2, <2>5, <2>9 DEF HandlerReturns, HandlerSucceeds, HandlerFails
  <2> QED
    BY <1>18, <2>7, <2>8, <2>9
<1>19. CASE AdvanceClock \/ UNCHANGED vars
  BY <1>3, <1>19 DEF AdvanceClock, vars, loopVars
<1>20. ASSUME NEW n \in Nodes, LoopStep(n) PROVE Registered'
  BY <1>5, <1>6, <1>7, <1>8, <1>9, <1>10, <1>11, <1>12, <1>13, <1>20 DEF LoopStep, Exit
<1> QED
  BY <1>5, <1>13, <1>14, <1>15, <1>16, <1>17, <1>18, <1>19, <1>20 DEF Next, ExecStep, Crash

----------------------------------------------------------------------------
(* The inductive invariant holds before any node runs.                     *)
LEMMA InitInv == Init => IInv /\ Registered
<1> SUFFICES ASSUME Init PROVE IInv /\ Registered
  OBVIOUS
<1>1. TypeOK
  BY DEF Init, TypeOK, LeaderInit, LeaderTypeOK, Rows, Steps
<1>2. LoopInv /\ RowsExist /\ Registered
  BY DEF Init, LoopInv, RowsExist, Registered
<1>3. QED
  BY <1>1, <1>2 DEF IInv

(* Every step of the cluster preserves the inductive invariant.            *)
LEMMA NextInv == IInv /\ Registered /\ [Next]_vars => IInv' /\ Registered'
<1> SUFFICES ASSUME IInv, Registered, [Next]_vars PROVE IInv'
  BY RegisteredStep
<1>1. CASE AdvanceClock
  BY <1>1, AdvanceClockStep
<1>2. ASSUME NEW n \in Nodes, LoopStep(n) PROVE IInv'
  <2>1. CASE Run(n)
    BY <2>1, RunStep
  <2>2. ASSUME NEW j \in Jobs, EnsureJob(n, j) PROVE IInv'
    BY <2>2, EnsureJobStep
  <2>3. CASE EnsureFails(n)
    BY <2>3, EnsureFailsStep
  <2>4. CASE Ignore(n) \/ BeginClaim(n) \/ ClaimJob(n) \/ AdvanceRow(n)
    BY <2>4, IgnoreStep, BeginClaimStep, ClaimJobStep
  <2>5. CASE StartReplay(n) \/ executeAtFire(n) \/ EndReplay(n)
    BY <2>5, StartReplayStep, executeAtFireStep, EndReplayStep
  <2>6. CASE Stop(n)
    BY <2>6, StopStep
  <2>7. CASE Exit(n)
    BY <2>7, GoneStep DEF Exit, IInv, TypeOK
  <2>8. QED
    BY <1>2, <2>1, <2>2, <2>3, <2>4, <2>5, <2>6, <2>7 DEF LoopStep
<1>3. ASSUME NEW n \in Nodes, maybeRenewLeader(n) \/ tick(n) \/ Drain(n) PROVE IInv'
  BY <1>3, RenewStep, TickStep, DrainStep
<1>4. ASSUME NEW n \in Nodes, Cancel(n) \/ Crash(n) \/ LoseConnection(n) PROVE IInv'
  <2>1. CASE Crash(n)
    <3>1. faults' \in Nat
      BY <2>1 DEF Crash, Fault, IInv, TypeOK
    <3>2. QED
      BY <2>1, <3>1, GoneStep DEF Crash
  <2>2. QED
    BY <1>4, <2>1, CancelStep, LoseConnectionStep
<1>5. ASSUME NEW e \in execs, ExecStep(e) \/ HandlerReturns(e) PROVE IInv'
  BY <1>5, HandlerStep, ScheduleRetryStep, RecordRunStep DEF ExecStep
<1>6. CASE UNCHANGED vars
  BY <1>6 DEF vars, storageVars, loopVars, leaderVars, IInv, TypeOK, LeaderTypeOK, LoopInv, RowsExist
<1>7. QED
  BY <1>1, <1>2, <1>3, <1>4, <1>5, <1>6 DEF Next

(* Type correctness of the whole cluster, which includes that a handler    *)
(* goroutine records a run only with an outcome, that what a node          *)
(* dispatches is a snapshot of a row, and that every fire is an instant.   *)
THEOREM TypeCorrect == Spec => []TypeOK
<1>1. IInv => TypeOK
  BY DEF IInv
<1>2. QED
  BY <1>1, InitInv, NextInv, PTL DEF Spec

----------------------------------------------------------------------------
(* The attempt counter stands at MaxAttempts or beyond only while the      *)
(* attempts with those numbers run.  RetryBudget is inductive relative to  *)
(* the type invariant: only StartHandler raises a counter, and it leaves a *)
(* running attempt with the new number behind; a running attempt whose     *)
(* number has reached the budget resets the counter when it ends.          *)
LEMMA RetryBudgetStep == IInv /\ RetryBudget /\ [Next]_vars => RetryBudget'
<1> SUFFICES ASSUME IInv, RetryBudget, [Next]_vars PROVE RetryBudget'
  OBVIOUS
<1> DEFINE max(n, j) == Registry[n][j].retry.maxAttempts
           Runs(E, n, j, k) == \E e \in E : e.node = n /\ e.job = j /\ e.pc = "running" /\ e.attempt = k
<1>1. ASSUME NEW n \in Nodes, NEW j \in DOMAIN Registry[n] PROVE j \in Jobs /\ max(n, j) \in Nat \ {0}
  BY RegistryAssumption DEF JobDefs, RetryPolicies
<1>2. ASSUME attempts' = attempts, \A e \in execs : e.pc = "running" => e \in execs'
      PROVE  RetryBudget'
  BY <1>2 DEF RetryBudget
<1>3. ASSUME NEW e \in execs, StartHandler(e) PROVE RetryBudget'
  <2>1. e \in Execs /\ e.node \in Nodes /\ e.job \in Jobs /\ attempts[e.node][e.job] \in Nat
    BY DEF IInv, TypeOK, Execs, Call
  <2> DEFINE k == attempts[e.node][e.job] + 1
             f == [e EXCEPT !.pc = "running", !.attempt = k]
  <2>2. /\ e.pc = "spawned" /\ execs' = (execs \ {e}) \cup {f}
        /\ attempts' = [attempts EXCEPT ![e.node][e.job] = k]
    BY <1>3 DEF StartHandler, Become
  <2>3. f.node = e.node /\ f.job = e.job /\ f.pc = "running" /\ f.attempt = k
    BY <2>1 DEF Execs, Call
  <2> SUFFICES ASSUME NEW n \in Nodes, NEW j \in DOMAIN Registry[n],
                      NEW i \in max(n, j)..attempts'[n][j]
               PROVE  Runs(execs', n, j, i)
    BY DEF RetryBudget
  <2>4. CASE n = e.node /\ j = e.job /\ i = k
    BY <2>2, <2>3, <2>4
  <2>5. CASE ~ (n = e.node /\ j = e.job /\ i = k)
    <3>1. i \in max(n, j)..attempts[n][j]
      BY <1>1, <2>1, <2>2, <2>5 DEF IInv, TypeOK
    <3>2. PICK x \in execs : x.node = n /\ x.job = j /\ x.pc = "running" /\ x.attempt = i
      BY <3>1 DEF RetryBudget
    <3>3. QED
      BY <2>2, <3>2
  <2>6. QED
    BY <2>4, <2>5
<1>4. ASSUME NEW e \in execs, e.pc = "running", NEW f, execs' = (execs \ {e}) \cup {f},
             attempts' = [attempts EXCEPT ![e.node][e.job] = 0]
      PROVE  RetryBudget'
  <2>1. e.node \in Nodes /\ e.job \in Jobs
    BY DEF IInv, TypeOK, Execs, Call
  <2> SUFFICES ASSUME NEW n \in Nodes, NEW j \in DOMAIN Registry[n],
                      NEW i \in max(n, j)..attempts'[n][j]
               PROVE  Runs(execs', n, j, i)
    BY DEF RetryBudget
  <2>2. ~ (n = e.node /\ j = e.job)
    <3>1. attempts'[e.node][e.job] = 0
      BY <1>4, <2>1 DEF IInv, TypeOK
    <3>2. attempts'[n][j] # 0
      <4>1. max(n, j) \in Nat \ {0}
        BY <1>1
      <4> HIDE DEF max
      <4>2. QED
        BY <4>1
    <3>3. QED
      BY <3>1, <3>2
  <2>3. attempts'[n][j] = attempts[n][j]
    BY <1>1, <1>4, <2>1, <2>2 DEF IInv, TypeOK
  <2>4. PICK x \in execs : x.node = n /\ x.job = j /\ x.pc = "running" /\ x.attempt = i
    BY <2>3 DEF RetryBudget
  <2>5. QED
    BY <1>4, <2>2, <2>4
<1>5. ASSUME NEW e \in execs, HandlerReturns(e) PROVE RetryBudget'
  <2>1. CASE HandlerFails(e) /\ e.attempt < RetryPolicy(e).maxAttempts
    <3>1. /\ attempts' = attempts
          /\ execs' = (execs \ {e}) \cup {[e EXCEPT !.pc = "retry", !.outcome = "failed"]}
      BY <2>1 DEF HandlerFails, Become
    <3>2. e.attempt \in Nat
      BY DEF IInv, TypeOK, Execs, Call
    <3> SUFFICES ASSUME NEW n \in Nodes, NEW j \in DOMAIN Registry[n],
                        NEW i \in max(n, j)..attempts'[n][j]
                 PROVE  Runs(execs', n, j, i)
      BY DEF RetryBudget
    <3>3. PICK x \in execs : x.node = n /\ x.job = j /\ x.pc = "running" /\ x.attempt = i
      BY <3>1 DEF RetryBudget
    <3>4. x # e
      BY <1>1, <2>1, <3>2, <3>3 DEF RetryPolicy
    <3>5. QED
      BY <3>1, <3>3, <3>4
  <2>2. CASE HandlerFails(e) /\ ~ (e.attempt < RetryPolicy(e).maxAttempts)
    BY <2>2, <1>4 DEF HandlerFails, Become, forgetAttempt
  <2>3. CASE HandlerSucceeds(e)
    BY <2>3, <1>4 DEF HandlerSucceeds, Become, forgetAttempt
  <2>4. QED
    BY <1>5, <2>1, <2>2, <2>3 DEF HandlerReturns
<1>6. ASSUME NEW m \in Nodes, Gone(m) PROVE RetryBudget'
  <2> SUFFICES ASSUME NEW n \in Nodes, NEW j \in DOMAIN Registry[n],
                      NEW i \in max(n, j)..attempts'[n][j]
               PROVE  Runs(execs', n, j, i)
    BY DEF RetryBudget
  <2>1. n # m
    BY <1>1, <1>6 DEF Gone, IInv, TypeOK
  <2>2. attempts'[n][j] = attempts[n][j]
    BY <1>6, <2>1 DEF Gone, IInv, TypeOK
  <2>3. QED
    BY <1>6, <2>1, <2>2 DEF Gone, RetryBudget
<1>7. ASSUME NEW e \in execs, ScheduleRetry(e) \/ RecordRun(e) PROVE RetryBudget'
  BY <1>2, <1>7 DEF ScheduleRetry, RecordRun, Become
<1>8. ASSUME NEW n \in Nodes, LoopStep(n), ~ Exit(n) PROVE RetryBudget'
  BY <1>2, <1>8 DEF LoopStep, Run, EnsureJob, EnsureFails, Ignore, BeginClaim, LockForClaim, ClaimJob,
     AdvanceRow, StartReplay, executeAtFire, EndReplay, Stop
<1>9. ASSUME NEW n \in Nodes, maybeRenewLeader(n) \/ tick(n) \/ Drain(n) \/ Cancel(n) \/ LoseConnection(n)
      PROVE  RetryBudget'
  BY <1>2, <1>9 DEF maybeRenewLeader, tick, Drain, Cancel, LoseConnection
<1>10. CASE AdvanceClock \/ UNCHANGED vars
  BY <1>2, <1>10 DEF AdvanceClock, vars
<1>11. QED
  BY <1>3, <1>5, <1>6, <1>7, <1>8, <1>9, <1>10 DEF Next, ExecStep, LoopStep, Exit, Crash

(* RetryBudget holds for every cluster, registry and retry policy.         *)
THEOREM RetryBudgetHolds == Spec => []RetryBudget
<1>1. Init => RetryBudget
  <2> SUFFICES ASSUME Init, NEW n \in Nodes, NEW j \in DOMAIN Registry[n],
                      NEW k \in Registry[n][j].retry.maxAttempts .. attempts[n][j]
               PROVE  FALSE
    BY DEF RetryBudget
  <2>1. attempts[n][j] = 0 /\ Registry[n][j].retry.maxAttempts \in Nat \ {0}
    BY RegistryAssumption DEF Init, JobDefs, RetryPolicies
  <2>2. QED
    BY <2>1
<1>2. QED
  BY <1>1, InitInv, NextInv, RetryBudgetStep, PTL DEF Spec
=============================================================================
