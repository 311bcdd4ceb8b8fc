--------------------------- MODULE HistoryProofs ---------------------------
(***************************************************************************)
(* What sundial_runs can be relied on for, in clusters of any size: while  *)
(* nothing fails the attempts of a job leave no hole, and a replayed       *)
(* window that the cap does not cut has a record for each of its instants. *)
(***************************************************************************)
EXTENDS DispatcherProofs

(* Faults are counted and never forgotten.                                 *)
LEMMA FaultsGrow ==
    ASSUME IInv, [Next]_vars, faults' = 0
    PROVE  faults = 0
<1> USE DEF CallFails, CallReaches, Fault
<1>1. faults \in Nat
  BY DEF IInv, TypeOK
<1>2. CASE AdvanceClock \/ UNCHANGED vars
  BY <1>2 DEF AdvanceClock, vars
<1>3. ASSUME NEW n \in Nodes, LoopStep(n) PROVE faults = 0
  <2>1. CASE Run(n) \/ Ignore(n) \/ StartReplay(n) \/ executeAtFire(n) \/ Stop(n) \/ Exit(n)
    BY <2>1 DEF Run, Ignore, StartReplay, executeAtFire, Stop, Exit
  <2>2. ASSUME NEW j \in Jobs, EnsureJob(n, j) PROVE faults = 0
    BY <2>2 DEF EnsureJob
  <2>3. ASSUME CallFails(n) \/ CallReaches(n) PROVE faults = 0
    BY <1>1, <2>3
  <2>4. ASSUME NEW step, LockForClaim(n, step) PROVE faults = 0
    BY <2>3, <2>4 DEF LockForClaim
  <2>5. CASE EnsureFails(n) \/ ClaimJob(n) \/ AdvanceRow(n)
    BY <2>3, <2>5 DEF EnsureFails, ClaimJob, AdvanceRow
  <2>6. CASE BeginClaim(n)
    BY <2>4, <2>6 DEF BeginClaim
  <2>7. CASE EndReplay(n)
    BY <2>4, <2>7 DEF EndReplay
  <2> QED
    BY <1>3, <2>1, <2>2, <2>5, <2>6, <2>7 DEF LoopStep
<1>4. ASSUME NEW n \in Nodes, maybeRenewLeader(n) \/ tick(n) \/ Drain(n) PROVE faults = 0
  BY <1>1, <1>4 DEF maybeRenewLeader, tick, Drain
<1>5. ASSUME NEW n \in Nodes, Cancel(n) \/ Crash(n) \/ LoseConnection(n) PROVE faults = 0
  BY <1>1, <1>5 DEF Cancel, Crash, LoseConnection
<1>6. ASSUME NEW e \in execs, ExecStep(e) \/ HandlerReturns(e) PROVE faults = 0
  BY <1>1, <1>6 DEF ExecStep, HandlerReturns, StartHandler, ScheduleRetry, RecordRun, HandlerSucceeds,
     HandlerFails
<1> QED
  BY <1>2, <1>3, <1>4, <1>5, <1>6 DEF Next

(* While nothing has failed every storage call reaches the database.       *)
LEMMA QuietCalls ==
    ASSUME IInv, Quiet, faults = 0, faults' = 0, NEW n \in Nodes
    PROVE  ~ CallFails(n)
BY DEF Quiet, CallFails, CtxDead, Fault

(* A loop that goes on, while no context is cancelled.                     *)
LEMMA QuietMove ==
    ASSUME IInv, Quiet, faults = 0, UNCHANGED cancelled, NEW n \in Nodes,
           NEW step \in Steps \ {"drain", "stopped"}, GoTo(n, step)
    PROVE  Quiet'
BY DEF Quiet, GoTo, IInv, TypeOK

(* Every step keeps Quiet: a Run ends only after a cancellation or a       *)
(* failed call.                                                            *)
LEMMA QuietStep ==
    ASSUME IInv, Quiet, [Next]_vars
    PROVE  Quiet'
<1> SUFFICES ASSUME faults = 0, faults' = 0 PROVE Quiet'
  BY FaultsGrow DEF Quiet
<1> USE DEF Steps
<1>1. ASSUME UNCHANGED <<pc, cancelled>> PROVE Quiet'
  BY <1>1 DEF Quiet
<1>2. CASE AdvanceClock \/ UNCHANGED vars
  BY <1>1, <1>2 DEF AdvanceClock, vars, loopVars
<1>3. ASSUME NEW n \in Nodes, LoopStep(n) PROVE Quiet'
  <2>1. CASE Run(n)
    BY <2>1, QuietMove DEF Run
  <2>2. ASSUME NEW j \in Jobs, EnsureJob(n, j) PROVE Quiet'
    BY <2>2, QuietMove DEF EnsureJob
  <2>3. CASE EnsureFails(n) \/ Stop(n) \/ Exit(n)
    <3>1. ~ CallFails(n) /\ pc[n] \notin {"drain", "stopped"}
      BY QuietCalls DEF Quiet
    <3> QED
      BY <2>3, <3>1 DEF EnsureFails, Stop, Exit
  <2>4. ASSUME NextDue(n), UNCHANGED cancelled PROVE Quiet'
    BY <2>4, QuietMove DEF NextDue
  <2>5. CASE Ignore(n) \/ ClaimJob(n) \/ AdvanceRow(n)
    BY <2>4, <2>5 DEF Ignore, ClaimJob, AdvanceRow
  <2>6. ASSUME NEW step \in {"claim", "advance"}, LockForClaim(n, step) PROVE Quiet'
    BY <2>4, <2>6, QuietMove DEF LockForClaim
  <2>7. CASE BeginClaim(n)
    BY <2>6, <2>7 DEF BeginClaim
  <2>8. CASE EndReplay(n)
    BY <2>4, <2>6, <2>8 DEF EndReplay
  <2>9. CASE StartReplay(n)
    BY <2>9, QuietMove DEF StartReplay
  <2>10. CASE executeAtFire(n)
    BY <1>1, <2>10 DEF executeAtFire
  <2> QED
    BY <1>3, <2>1, <2>2, <2>3, <2>5, <2>7, <2>8, <2>9, <2>10 DEF LoopStep
<1>4. ASSUME NEW n \in Nodes, maybeRenewLeader(n) PROVE Quiet'
  BY <1>4, QuietMove DEF maybeRenewLeader
<1>5. ASSUME NEW n \in Nodes, tick(n) PROVE Quiet'
  <2>1. GoTo(n, "select") \/ GoTo(n, "dispatch")
    BY <1>5 DEF tick
  <2> QED
    BY <1>5, <2>1, QuietMove DEF tick
<1>6. ASSUME NEW n \in Nodes, Drain(n) PROVE Quiet'
  BY <1>6 DEF Drain, Quiet
<1>7. ASSUME NEW n \in Nodes, Cancel(n) \/ Crash(n) PROVE Quiet'
  BY <1>7 DEF Cancel, Crash, Fault
<1>8. ASSUME NEW n \in Nodes, LoseConnection(n) PROVE Quiet'
  BY <1>1, <1>8 DEF LoseConnection, loopVars
<1>9. ASSUME NEW e \in execs, ExecStep(e) \/ HandlerReturns(e) PROVE Quiet'
  BY <1>1, <1>9 DEF ExecStep, HandlerReturns, StartHandler, ScheduleRetry, RecordRun, HandlerSucceeds,
     HandlerFails, loopVars
<1> QED
  BY <1>2, <1>3, <1>4, <1>5, <1>6, <1>7, <1>8, <1>9 DEF Next

----------------------------------------------------------------------------
(* TrailComplete: what is known of a job's attempts on a node.             *)

Same(x, y) == x.node = y.node /\ x.job = y.job /\ x.attempt = y.attempt

Known == execs \cup DOMAIN runs

(* A step that forgets no attempt, invents none and raises no counter.     *)
LEMMA TrailStays ==
    ASSUME TrailInv, faults' = 0 => faults = 0,
           \A n \in Nodes, j \in Jobs : attempts'[n][j] = 0 \/ attempts'[n][j] = attempts[n][j],
           faults' = 0 => \A x \in Known : x.attempt # 0 => \E y \in Known' : Same(x, y),
           faults' = 0 => \A y \in Known' : y.attempt # 0 => \E x \in Known : Same(x, y),
           \A e \in execs' : e.pc = "spawned" => e.attempt = 0
    PROVE  TrailInv'
<1>1. ASSUME NEW n, NEW j, NEW k \in Nat \ {0}, faults' = 0,
             \E x \in Known : x.node = n /\ x.job = j /\ x.attempt = k
      PROVE  \E y \in Known' : y.node = n /\ y.job = j /\ y.attempt = k
  BY <1>1 DEF Same
<1>2. ASSUME faults' = 0, NEW y \in Known', NEW k \in 1..(y.attempt - 1)
      PROVE  \E z \in Known' : z.node = y.node /\ z.job = y.job /\ z.attempt = k
  <2>1. y.attempt # 0
    BY <1>2
  <2>2. PICK x \in Known : Same(x, y)
    BY <1>2, <2>1
  <2>3. \E z \in Known : z.node = x.node /\ z.job = x.job /\ z.attempt = k
    BY <1>2, <2>2 DEF TrailInv, TrailComplete, Known, Same
  <2> QED
    BY <1>1, <1>2, <2>2, <2>3 DEF Same
<1>3. ASSUME faults' = 0, NEW n \in Nodes, NEW j \in Jobs, NEW k \in 1..attempts'[n][j]
      PROVE  \E y \in Known' : y.node = n /\ y.job = j /\ y.attempt = k
  <2>1. k \in 1..attempts[n][j]
    BY <1>3
  <2>2. \E x \in Known : x.node = n /\ x.job = j /\ x.attempt = k
    BY <1>3, <2>1 DEF TrailInv, Known
  <2> QED
    BY <1>1, <1>3, <2>2
<1> QED
  BY <1>2, <1>3 DEF TrailInv, TrailComplete, Known

(* A handler that goes on keeps its attempt number.                        *)
LEMMA TrailMoves ==
    ASSUME TrailInv, UNCHANGED <<faults, runs>>, NEW e \in execs, NEW f, Become(e, f), Same(e, f),
           f.pc # "spawned",
           \A n \in Nodes, j \in Jobs : attempts'[n][j] = 0 \/ attempts'[n][j] = attempts[n][j]
    PROVE  TrailInv'
<1>1. \A x \in Known : x.attempt # 0 => \E y \in Known' : Same(x, y)
  BY DEF Known, Become, Same
<1>2. \A y \in Known' : y.attempt # 0 => \E x \in Known : Same(x, y)
  BY DEF Known, Become, Same
<1>3. \A x \in execs' : x.pc = "spawned" => x.attempt = 0
  BY DEF Become, TrailInv
<1> QED
  BY <1>1, <1>2, <1>3, TrailStays

(* bumpAttempt gives a call the next number, and the counter vouches for   *)
(* the numbers before it.                                                  *)
LEMMA TrailStart ==
    ASSUME IInv, TrailInv, NEW e \in execs, StartHandler(e)
    PROVE  TrailInv'
<1>1. e \in Execs /\ e.node \in Nodes /\ e.job \in Jobs /\ attempts[e.node][e.job] \in Nat
  BY DEF IInv, TypeOK, Execs, Call
<1> DEFINE k == attempts[e.node][e.job] + 1
           f == [e EXCEPT !.pc = "running", !.attempt = k]
           Has(K, n, j, i) == \E y \in K : y.node = n /\ y.job = j /\ y.attempt = i
<1>2. /\ e.pc = "spawned" /\ execs' = (execs \ {e}) \cup {f}
      /\ attempts' = [attempts EXCEPT ![e.node][e.job] = k] /\ UNCHANGED <<runs, faults>>
  BY DEF StartHandler, Become, storageVars
<1>3. f.node = e.node /\ f.job = e.job /\ f.pc = "running" /\ f.attempt = k
  BY <1>1 DEF Execs, Call
<1>4. e.attempt = 0
  BY <1>2 DEF TrailInv
<1> HIDE DEF f
<1>5. ASSUME NEW n, NEW j, NEW i \in Nat \ {0}, Has(Known, n, j, i) PROVE Has(Known', n, j, i)
  BY <1>2, <1>4, <1>5 DEF Known
<1>6. ASSUME faults = 0, NEW n \in Nodes, NEW j \in Jobs, NEW i \in 1..attempts'[n][j]
      PROVE  Has(Known', n, j, i)
  <2>1. CASE n = e.node /\ j = e.job /\ i = k
    BY <1>2, <1>3, <2>1 DEF Known
  <2>2. CASE ~ (n = e.node /\ j = e.job /\ i = k)
    <3>3. attempts \in [Nodes -> [Jobs -> Nat]]
      BY DEF IInv, TypeOK
    <3>4. attempts[n][j] \in Nat
      BY <1>6, <3>3
    <3>5. n = e.node /\ j = e.job => attempts'[n][j] = k
      BY <1>1, <1>2, <3>3
    <3>6. ~ (n = e.node /\ j = e.job) => attempts'[n][j] = attempts[n][j]
      BY <1>1, <1>2, <1>6, <3>3
    <3>1. i \in 1..attempts[n][j] /\ i \in Nat \ {0}
      <4>1. CASE n = e.node /\ j = e.job
        BY <1>1, <1>6, <2>2, <3>5, <4>1
      <4>2. CASE ~ (n = e.node /\ j = e.job)
        BY <1>6, <3>4, <3>6, <4>2
      <4> QED
        BY <4>1, <4>2
    <3>2. Has(Known, n, j, i)
      BY <1>6, <3>1 DEF TrailInv, Known
    <3> QED
      BY <1>5, <3>1, <3>2
  <2> QED
    BY <2>1, <2>2
<1>7. ASSUME faults = 0, NEW x \in Known', NEW i \in 1..(x.attempt - 1)
      PROVE  Has(Known', x.node, x.job, i)
  <2>1. CASE x = f
    <3>1. i \in 1..attempts[e.node][e.job] /\ i \in Nat \ {0}
      BY <1>1, <1>3, <1>7, <2>1
    <3>2. Has(Known, e.node, e.job, i)
      BY <1>1, <1>7, <3>1 DEF TrailInv, Known
    <3> QED
      BY <1>3, <1>5, <2>1, <3>1, <3>2
  <2>2. CASE x # f
    <3>1. x \in Known
      BY <1>2, <2>2 DEF Known
    <3>2. Has(Known, x.node, x.job, i)
      BY <1>7, <3>1 DEF TrailInv, TrailComplete, Known
    <3>3. x.attempt \in Nat
      BY <3>1 DEF Known, IInv, TypeOK, Execs, Call, RunRecords
    <3> QED
      BY <1>5, <3>2, <3>3
  <2> QED
    BY <2>1, <2>2
<1>8. \A x \in execs' : x.pc = "spawned" => x.attempt = 0
  BY <1>2, <1>3 DEF TrailInv
<1> QED
  BY <1>2, <1>6, <1>7, <1>8 DEF TrailInv, TrailComplete, Known

(* While nothing fails RecordRun (dispatcher.go:322-327) leaves a record   *)
(* of the call it ends, and keeps all that were there.                     *)
LEMMA RecordRunLeaves ==
    ASSUME IInv, Quiet, NEW e \in execs, RecordRun(e), faults = 0, faults' = 0
    PROVE  \E r : /\ DOMAIN runs' = DOMAIN runs \cup {r}
                 /\ r.node = e.node /\ r.job = e.job /\ r.fire = e.fire
                 /\ r.claimed = e.claimed /\ r.attempt = e.attempt
<1> DEFINE r == [node |-> e.node, job |-> e.job, fire |-> e.fire, claimed |-> e.claimed,
                 attempt |-> e.attempt, outcome |-> e.outcome]
<1>1. e.node \in Nodes
  BY DEF IInv, TypeOK, Execs, Call
<1>2. runs' = Insert(r)
  BY <1>1, QuietCalls DEF RecordRun
<1>3. DOMAIN runs' = DOMAIN runs \cup {r}
  <2> HIDE DEF r
  <2> QED
    BY <1>2 DEF Insert
<1>4. r.node = e.node /\ r.job = e.job /\ r.fire = e.fire /\ r.claimed = e.claimed /\ r.attempt = e.attempt
  OBVIOUS
<1> HIDE DEF r
<1> QED
  BY <1>3, <1>4

(* Every step of the cluster keeps TrailInv.                               *)
LEMMA TrailStep ==
    ASSUME IInv, Quiet, TrailInv, [Next]_vars
    PROVE  TrailInv'
<1>0. faults' = 0 => faults = 0
  BY FaultsGrow
<1>1. ASSUME UNCHANGED <<runs, attempts>>, execs \subseteq execs',
             \A e \in execs' \ execs : e.attempt = 0
      PROVE  TrailInv'
  <2>1. \A x \in Known : \E y \in Known' : Same(x, y)
    BY <1>1 DEF Known, Same
  <2>2. \A y \in Known' : y.attempt # 0 => \E x \in Known : Same(x, y)
    BY <1>1 DEF Known, Same
  <2>3. \A e \in execs' : e.pc = "spawned" => e.attempt = 0
    BY <1>1 DEF TrailInv
  <2>4. \A n \in Nodes, j \in Jobs : attempts'[n][j] = attempts[n][j]
    BY <1>1
  <2> QED
    BY <1>0, <2>1, <2>2, <2>3, <2>4, TrailStays
<1>2. CASE AdvanceClock \/ UNCHANGED vars
  BY <1>1, <1>2 DEF AdvanceClock, vars, storageVars
<1>3. ASSUME NEW n \in Nodes, LoopStep(n), ~ Exit(n) PROVE TrailInv'
  <2>1. \A j, f, t, c : NewExec(n, j, f, t, c).attempt = 0
    BY DEF NewExec
  <2>2. CASE ClaimJob(n) \/ executeAtFire(n)
    <3>1. \/ UNCHANGED execs
          \/ \E j, f, t, c : execs' = execs \cup {NewExec(n, j, f, t, c)}
      BY <2>2 DEF ClaimJob, executeAtFire
    <3>2. UNCHANGED <<runs, attempts>>
      BY <2>2 DEF ClaimJob, executeAtFire, storageVars
    <3> QED
      BY <1>1, <2>1, <3>1, <3>2
  <2> QED
    BY <1>1, <1>3, <2>2 DEF LoopStep, Run, EnsureJob, EnsureFails, Ignore, BeginClaim, LockForClaim,
       AdvanceRow, StartReplay, EndReplay, Stop, storageVars
<1>4. ASSUME NEW n \in Nodes, maybeRenewLeader(n) \/ tick(n) \/ Drain(n) \/ Cancel(n) \/ LoseConnection(n)
      PROVE  TrailInv'
  BY <1>1, <1>4 DEF maybeRenewLeader, tick, Drain, Cancel, LoseConnection, storageVars
<1>5. ASSUME NEW n \in Nodes, Exit(n) \/ Crash(n) PROVE TrailInv'
  <2>1. faults' # 0
    <3>1. CASE Exit(n)
      BY <1>0, <3>1 DEF Exit, Quiet
    <3>2. CASE Crash(n)
      BY <3>2 DEF Crash, Fault, IInv, TypeOK
    <3> QED
      BY <1>5, <3>1, <3>2
  <2>2. execs' \subseteq execs
    BY <1>5 DEF Exit, Crash, Gone
  <2> QED
    BY <2>1, <2>2 DEF TrailInv, TrailComplete
<1>6. ASSUME NEW e \in execs, StartHandler(e) PROVE TrailInv'
  BY <1>6, TrailStart
<1>7. ASSUME NEW e \in execs, ScheduleRetry(e) PROVE TrailInv'
  <2> DEFINE f == [e EXCEPT !.pc = "record"]
  <2>1. Same(e, f) /\ f.pc = "record"
    BY DEF IInv, TypeOK, Execs, Call, Same
  <2>2. Become(e, f) /\ UNCHANGED <<runs, attempts>>
    BY <1>7 DEF ScheduleRetry
  <2> HIDE DEF f
  <2>3. \A x \in Known : x.attempt # 0 => \E y \in Known' : Same(x, y)
    BY <2>1, <2>2 DEF Known, Become, Same
  <2>4. \A y \in Known' : y.attempt # 0 => \E x \in Known : Same(x, y)
    BY <2>1, <2>2 DEF Known, Become, Same
  <2>5. \A x \in execs' : x.pc = "spawned" => x.attempt = 0
    BY <2>1, <2>2 DEF Become, TrailInv
  <2> QED
    BY <1>0, <2>2, <2>3, <2>4, <2>5, TrailStays
<1>8. ASSUME NEW e \in execs, HandlerReturns(e) PROVE TrailInv'
  <2>1. e \in Execs /\ e.node \in Nodes /\ e.job \in Jobs
    BY DEF IInv, TypeOK, Execs, Call
  <2>2. PICK step \in {"retry", "record"}, out \in Outcomes :
           /\ Become(e, [e EXCEPT !.pc = step, !.outcome = out])
           /\ UNCHANGED attempts \/ forgetAttempt(e)
           /\ UNCHANGED <<runs, faults>>
    BY <1>8 DEF HandlerReturns, HandlerSucceeds, HandlerFails, Outcomes, storageVars
  <2> DEFINE f == [e EXCEPT !.pc = step, !.outcome = out]
  <2>3. Same(e, f) /\ f.pc # "spawned"
    BY <2>1 DEF Execs, Call, Same
  <2>4. \A n \in Nodes, j \in Jobs : attempts'[n][j] = 0 \/ attempts'[n][j] = attempts[n][j]
    <3>1. CASE UNCHANGED attempts
      BY <3>1
    <3>2. CASE forgetAttempt(e)
      BY <2>1, <3>2 DEF forgetAttempt, IInv, TypeOK
    <3> QED
      BY <2>2, <3>1, <3>2
  <2> HIDE DEF f
  <2> QED
    BY <2>2, <2>3, <2>4, TrailMoves DEF f
<1>9. ASSUME NEW e \in execs, RecordRun(e) PROVE TrailInv'
  <2>1. execs' = execs \ {e} /\ UNCHANGED attempts
    BY <1>9 DEF RecordRun
  <2>2. ASSUME faults' = 0
        PROVE  /\ \A x \in Known : \E y \in Known' : Same(x, y)
               /\ \A y \in Known' : \E x \in Known : Same(x, y)
    <3>1. PICK r : DOMAIN runs' = DOMAIN runs \cup {r} /\ Same(e, r)
      BY <1>0, <1>9, <2>2, RecordRunLeaves DEF Same
    <3> QED
      BY <2>1, <3>1 DEF Known, Same
  <2>3. \A x \in execs' : x.pc = "spawned" => x.attempt = 0
    BY <2>1 DEF TrailInv
  <2> QED
    BY <1>0, <2>1, <2>2, <2>3, TrailStays
<1> QED
  BY <1>2, <1>3, <1>4, <1>5, <1>6, <1>7, <1>8, <1>9 DEF Next, LoopStep, ExecStep

(* The history of a retried job has no holes (dispatcher.go:283-327) in    *)
(* clusters of any size, with any registry and any overlap of attempts,    *)
(* for as long as nothing fails.                                           *)
THEOREM TrailCompleteHolds == Spec => []TrailComplete
<1>1. Init => Quiet /\ TrailInv
  <2> SUFFICES ASSUME Init PROVE Quiet /\ TrailInv
    OBVIOUS
  <2>1. Quiet
    BY DEF Init, Quiet
  <2>2. execs = {} /\ DOMAIN runs = {} /\ \A n \in Nodes, j \in Jobs : attempts[n][j] = 0
    BY DEF Init
  <2> QED
    BY <2>1, <2>2 DEF TrailInv, TrailComplete
<1>2. IInv /\ Quiet /\ [Next]_vars => Quiet'
  BY QuietStep
<1>3. IInv /\ Quiet /\ TrailInv /\ [Next]_vars => TrailInv'
  BY TrailStep
<1>4. TrailInv => TrailComplete
  BY DEF TrailInv
<1> QED
  BY <1>1, <1>2, <1>3, <1>4, InitInv, NextInv, PTL DEF Spec

----------------------------------------------------------------------------
(* WindowReplayed: what becomes of the instants of a window.               *)

\* No record disappears, and a replayed call stays or leaves its record.
HistoryKept ==
    /\ DOMAIN runs \subseteq DOMAIN runs'
    /\ \A e \in execs : ~ e.claimed =>
          \/ \E f \in execs' : f.node = e.node /\ f.job = e.job /\ f.fire = e.fire /\ ~ f.claimed
          \/ \E r \in DOMAIN runs' : r.job = e.job /\ r.fire = e.fire /\ ~ r.claimed

(* A loop that stays where it is still accounts for its window.            *)
LEMMA WindowStays ==
    ASSUME NEW n \in Nodes, WindowAccounted(n), HistoryKept,
           pc'[n] = pc[n], due'[n] = due[n], now'[n] = now[n], fires'[n] = fires[n]
    PROVE  WindowAccounted(n)'
<1>1. Dj(n)' = Dj(n) /\ Instants(n)' = Instants(n)
  BY DEF Dj, Instants
<1>2. ASSUME NEW t, Accounted(n, t) PROVE Accounted(n, t)'
  <2>1. CASE pc[n] = "replay" /\ \E i \in DOMAIN fires[n] : fires[n][i] = t
    BY <2>1 DEF Accounted
  <2>2. CASE pc[n] = "replay" /\ \E e \in execs : e.node = n /\ e.job = Dj(n).job /\ e.fire = t /\ ~ e.claimed
    BY <1>1, <2>2 DEF Accounted, HistoryKept
  <2>3. CASE \E r \in DOMAIN runs : r.job = Dj(n).job /\ r.fire = t /\ ~ r.claimed
    BY <1>1, <2>3 DEF Accounted, HistoryKept
  <2> QED
    BY <1>2, <2>1, <2>2, <2>3 DEF Accounted
<1> QED
  BY <1>1, <1>2 DEF WindowAccounted

(* A loop outside of a replay and of the claim that ends it has no window. *)
LEMMA NoWindow ==
    ASSUME NEW n \in Nodes, pc'[n] \notin {"replay", "advance"}
    PROVE  WindowAccounted(n)'
BY DEF WindowAccounted

(* A step of one loop concerns no other.                                   *)
LEMMA WindowOthers ==
    ASSUME WindowInv, faults = 0, HistoryKept, NEW n \in Nodes, WindowAccounted(n)',
           \A m \in Nodes \ {n} : pc'[m] = pc[m] /\ due'[m] = due[m] /\ now'[m] = now[m] /\ fires'[m] = fires[m]
    PROVE  WindowInv'
BY WindowStays DEF WindowInv

(* A step of no loop.                                                      *)
LEMMA WindowAll ==
    ASSUME WindowInv, faults = 0, HistoryKept, UNCHANGED <<pc, due, now, fires>>
    PROVE  WindowInv'
BY WindowStays DEF WindowInv

(* A replay starts with every instant of its window still to run.          *)
LEMMA StartReplayAccounts ==
    ASSUME IInv, NEW n \in Nodes, StartReplay(n)
    PROVE  WindowAccounted(n)'
<1>1. Dj(n)' = Dj(n) /\ Instants(n)' = Instants(n)
  BY DEF StartReplay, Dj, Instants
<1>2. pc'[n] = "replay" /\ (Instants(n) # << >> => fires'[n] = Instants(n))
  BY DEF StartReplay, GoTo, IInv, TypeOK
<1>3. ASSUME NEW i \in DOMAIN Instants(n) PROVE Accounted(n, Instants(n)[i])'
  <2>1. Instants(n) # << >>
    BY <1>3
  <2> QED
    BY <1>1, <1>2, <1>3, <2>1 DEF Accounted
<1> QED
  BY <1>1, <1>3 DEF WindowAccounted

(* The instant that leaves the list is the one that starts to run.         *)
LEMMA executeAtFireAccounts ==
    ASSUME IInv, NEW n \in Nodes, executeAtFire(n), WindowAccounted(n)
    PROVE  WindowAccounted(n)'
<1> DEFINE f == NewExec(n, Dj(n).job, Head(fires[n]), Head(fires[n]), FALSE)
<1>1. Dj(n)' = Dj(n) /\ Instants(n)' = Instants(n) /\ pc'[n] = pc[n] /\ pc[n] = "replay"
  BY DEF executeAtFire, Dj, Instants
<1>2. /\ execs' = execs \cup {f} /\ UNCHANGED runs
      /\ fires'[n] = Tail(fires[n]) /\ fires[n] \in Seq(Nat) /\ fires[n] # << >>
  BY DEF executeAtFire, storageVars, IInv, TypeOK
<1>3. f.node = n /\ f.job = Dj(n).job /\ f.fire = Head(fires[n]) /\ ~ f.claimed
  BY DEF NewExec
<1> HIDE DEF f
<1>4. ASSUME NEW t, Accounted(n, t) PROVE Accounted(n, t)'
  <2>1. ASSUME NEW i \in DOMAIN fires[n], fires[n][i] = t PROVE Accounted(n, t)'
    <3>1. CASE i = 1
      <4>1. Head(fires[n]) = t
        BY <1>2, <2>1, <3>1
      <4> QED
        BY <1>1, <1>2, <1>3, <4>1 DEF Accounted
    <3>2. CASE i # 1
      <4> DEFINE s == fires[n]
      <4>2. s \in Seq(Nat) /\ s # << >> /\ Len(s) \in Nat /\ i \in 1..Len(s) /\ s[i] = t
        BY <1>2, <2>1
      <4> HIDE DEF s
      <4>3. DOMAIN Tail(s) = 1..(Len(s) - 1)
        BY <4>2
      <4>4. i - 1 \in 1..(Len(s) - 1) /\ (i - 1) + 1 = i
        BY <3>2, <4>2
      <4>5. \A m \in 1..(Len(s) - 1) : Tail(s)[m] = s[m + 1]
        BY <4>2
      <4>6. Tail(s)[i - 1] = s[(i - 1) + 1]
        BY <4>4, <4>5
      <4>1. i - 1 \in DOMAIN Tail(fires[n]) /\ Tail(fires[n])[i - 1] = t
        BY <4>2, <4>3, <4>4, <4>6, Zenon DEF s
      <4> QED
        BY <1>1, <1>2, <4>1 DEF Accounted
    <3> QED
      BY <3>1, <3>2
  <2>2. CASE \E e \in execs : e.node = n /\ e.job = Dj(n).job /\ e.fire = t /\ ~ e.claimed
    BY <1>1, <1>2, <2>2 DEF Accounted
  <2>3. CASE \E r \in DOMAIN runs : r.job = Dj(n).job /\ r.fire = t /\ ~ r.claimed
    BY <1>1, <1>2, <2>3 DEF Accounted
  <2> QED
    BY <1>4, <2>1, <2>2, <2>3 DEF Accounted
<1> QED
  BY <1>1, <1>4 DEF WindowAccounted

(* When the list is empty and no replayed call is left, all have records.  *)
LEMMA EndReplayAccounts ==
    ASSUME IInv, NEW n \in Nodes, EndReplay(n), WindowAccounted(n)
    PROVE  WindowAccounted(n)'
<1>1. pc[n] = "replay" /\ fires[n] = << >> /\ ~ Replaying(n) /\ UNCHANGED runs
  BY DEF EndReplay, LockForClaim, storageVars
<1>2. CASE NextDue(n)
  BY <1>2, NoWindow DEF NextDue, GoTo, IInv, TypeOK
<1>3. CASE GoTo(n, "advance") /\ UNCHANGED <<due, now>>
  <2>1. Dj(n)' = Dj(n) /\ Instants(n)' = Instants(n)
    BY <1>3 DEF Dj, Instants
  <2>2. ASSUME NEW t, Accounted(n, t) PROVE Accounted(n, t)'
    <3>1. \E r \in DOMAIN runs : r.job = Dj(n).job /\ r.fire = t /\ ~ r.claimed
      BY <1>1, <2>2 DEF Accounted, Replaying
    <3> QED
      BY <1>1, <2>1, <3>1 DEF Accounted
  <2> QED
    BY <1>1, <2>1, <2>2 DEF WindowAccounted
<1> QED
  BY <1>2, <1>3 DEF EndReplay, LockForClaim

(* The claim of a skipped window is not the end of a replay.               *)
LEMMA BeginClaimAccounts ==
    ASSUME IInv, NEW n \in Nodes, BeginClaim(n)
    PROVE  WindowAccounted(n)'
<1>1. CASE NextDue(n)
  BY <1>1, NoWindow DEF NextDue, GoTo, IInv, TypeOK
<1>2. CASE GoTo(n, Decision(n)) /\ UNCHANGED <<due, now>>
  <2>1. Dj(n)' = Dj(n) /\ pc'[n] = Decision(n) /\ Decision(n) \in {"claim", "advance"}
    BY <1>2 DEF BeginClaim, Dj, GoTo, IInv, TypeOK
  <2>2. Decision(n) = "advance" => Registry[n][Dj(n).job].missedFire = "Skip"
    BY DEF Decision
  <2> QED
    BY <2>1, <2>2 DEF WindowAccounted
<1> QED
  BY <1>1, <1>2 DEF BeginClaim, LockForClaim

(* A loop step outside of a replay leads to a place that has no window.    *)
LEMMA LoopStepAccounts ==
    ASSUME IInv, Quiet, faults = 0, faults' = 0, NEW n \in Nodes, LoopStep(n), WindowAccounted(n)
    PROVE  WindowAccounted(n)'
<1>1. ASSUME NEW step \in Steps \ {"replay", "advance"}, GoTo(n, step) PROVE WindowAccounted(n)'
  BY <1>1, NoWindow DEF GoTo, IInv, TypeOK
<1> USE DEF Steps
<1>2. CASE Run(n)
  BY <1>1, <1>2 DEF Run
<1>3. ASSUME NEW j \in Jobs, EnsureJob(n, j) PROVE WindowAccounted(n)'
  BY <1>1, <1>3 DEF EnsureJob
<1>4. CASE EnsureFails(n) \/ Stop(n)
  BY <1>1, <1>4 DEF EnsureFails, Stop
<1>5. CASE Exit(n)
  BY <1>1, <1>5 DEF Exit, Gone
<1>6. CASE Ignore(n) \/ ClaimJob(n) \/ AdvanceRow(n)
  <2>1. GoTo(n, "select") \/ GoTo(n, "dispatch")
    BY <1>6 DEF Ignore, ClaimJob, AdvanceRow, NextDue
  <2> QED
    BY <1>1, <2>1
<1> QED
  BY <1>2, <1>3, <1>4, <1>5, <1>6, StartReplayAccounts, executeAtFireAccounts, EndReplayAccounts,
     BeginClaimAccounts DEF LoopStep

(* A loop step leaves the other loops alone and loses no history: with     *)
(* nothing failed no process ends.                                         *)
LEMMA LoopStepKeeps ==
    ASSUME IInv, Quiet, faults = 0, faults' = 0, NEW n \in Nodes, LoopStep(n)
    PROVE  /\ HistoryKept
           /\ \A m \in Nodes \ {n} :
                 pc'[m] = pc[m] /\ due'[m] = due[m] /\ now'[m] = now[m] /\ fires'[m] = fires[m]
<1>1. ~ Exit(n) /\ ~ Stop(n)
  BY DEF Exit, Stop, Quiet
<1>2. UNCHANGED runs /\ execs \subseteq execs'
  BY <1>1 DEF LoopStep, Run, EnsureJob, EnsureFails, Ignore, BeginClaim, LockForClaim, ClaimJob,
     AdvanceRow, StartReplay, executeAtFire, EndReplay, storageVars
<1>3. HistoryKept
  BY <1>2 DEF HistoryKept
<1>4. \A m \in Nodes \ {n} : pc'[m] = pc[m]
  BY <1>1 DEF LoopStep, Run, EnsureJob, EnsureFails, Ignore, BeginClaim, LockForClaim, ClaimJob,
     AdvanceRow, StartReplay, executeAtFire, EndReplay, NextDue, GoTo, IInv, TypeOK
<1>5. \A m \in Nodes \ {n} : due'[m] = due[m]
  BY <1>1 DEF LoopStep, Run, EnsureJob, EnsureFails, Ignore, BeginClaim, LockForClaim, ClaimJob,
     AdvanceRow, StartReplay, executeAtFire, EndReplay, NextDue, IInv, TypeOK
<1>6. \A m \in Nodes \ {n} : now'[m] = now[m]
  BY <1>1 DEF LoopStep, Run, EnsureJob, EnsureFails, Ignore, BeginClaim, LockForClaim, ClaimJob,
     AdvanceRow, StartReplay, executeAtFire, EndReplay, NextDue, IInv, TypeOK
<1>7. \A m \in Nodes \ {n} : fires'[m] = fires[m]
  BY <1>1 DEF LoopStep, Run, EnsureJob, EnsureFails, Ignore, BeginClaim, LockForClaim, ClaimJob,
     AdvanceRow, StartReplay, executeAtFire, EndReplay, IInv, TypeOK
<1> QED
  BY <1>3, <1>4, <1>5, <1>6, <1>7

(* A call that moves on keeps its node, job and fire.                      *)
LEMMA CallMoves ==
    ASSUME NEW e \in execs, NEW f, Become(e, f), UNCHANGED runs,
           f.node = e.node, f.job = e.job, f.fire = e.fire, f.claimed = e.claimed
    PROVE  HistoryKept
BY DEF HistoryKept, Become

(* Every step of the cluster keeps WindowInv.                              *)
LEMMA WindowStep ==
    ASSUME IInv, Quiet, WindowInv, [Next]_vars
    PROVE  WindowInv'
<1> SUFFICES ASSUME faults = 0, faults' = 0 PROVE WindowInv'
  BY FaultsGrow DEF WindowInv
<1>1. ASSUME UNCHANGED <<runs, execs>> PROVE HistoryKept
  BY <1>1 DEF HistoryKept
<1>2. CASE AdvanceClock \/ UNCHANGED vars
  BY <1>1, <1>2, WindowAll DEF AdvanceClock, vars, storageVars, loopVars
<1>3. ASSUME NEW n \in Nodes, LoopStep(n) PROVE WindowInv'
  BY <1>3, LoopStepAccounts, LoopStepKeeps, WindowOthers DEF WindowInv
<1>4. ASSUME NEW n \in Nodes, maybeRenewLeader(n) \/ tick(n) \/ Drain(n) PROVE WindowInv'
  <2>1. UNCHANGED <<runs, execs, fires>>
    BY <1>4 DEF maybeRenewLeader, tick, Drain, storageVars
  <2>2. pc'[n] \notin {"replay", "advance"} /\ \A m \in Nodes \ {n} : pc'[m] = pc[m]
    BY <1>4 DEF maybeRenewLeader, tick, Drain, GoTo, IInv, TypeOK
  <2>3. \A m \in Nodes \ {n} : due'[m] = due[m] /\ now'[m] = now[m]
    BY <1>4 DEF maybeRenewLeader, tick, Drain, IInv, TypeOK
  <2> QED
    BY <1>1, <2>1, <2>2, <2>3, NoWindow, WindowOthers
<1>5. ASSUME NEW n \in Nodes, Cancel(n) \/ Crash(n) PROVE WindowInv'
  BY <1>5 DEF Cancel, Crash, Fault
<1>6. ASSUME NEW n \in Nodes, LoseConnection(n) PROVE WindowInv'
  BY <1>1, <1>6, WindowAll DEF LoseConnection, storageVars, loopVars
<1>7. ASSUME NEW e \in execs, RecordRun(e) PROVE WindowInv'
  <2>1. execs' = execs \ {e} /\ UNCHANGED <<pc, due, now, fires>>
    BY <1>7 DEF RecordRun, loopVars
  <2>2. PICK r : /\ DOMAIN runs' = DOMAIN runs \cup {r}
                 /\ r.job = e.job /\ r.fire = e.fire /\ r.claimed = e.claimed
    BY <1>7, RecordRunLeaves
  <2>3. HistoryKept
    BY <2>1, <2>2 DEF HistoryKept
  <2> QED
    BY <2>1, <2>3, WindowAll
<1>8. ASSUME NEW e \in execs, StartHandler(e) \/ ScheduleRetry(e) \/ HandlerReturns(e)
      PROVE  WindowInv'
  <2>1. e \in Execs
    BY DEF IInv, TypeOK
  <2>2. HistoryKept
    <3>1. CASE StartHandler(e)
      BY <2>1, <3>1, CallMoves DEF StartHandler, storageVars, Execs, Call
    <3>2. CASE ScheduleRetry(e)
      BY <2>1, <3>2, CallMoves DEF ScheduleRetry, Execs, Call
    <3>3. CASE HandlerSucceeds(e)
      BY <2>1, <3>3, CallMoves DEF HandlerSucceeds, storageVars, Execs, Call
    <3>4. CASE HandlerFails(e)
      BY <2>1, <3>4, CallMoves DEF HandlerFails, storageVars, Execs, Call
    <3> QED
      BY <1>8, <3>1, <3>2, <3>3, <3>4 DEF HandlerReturns
  <2>3. UNCHANGED <<pc, due, now, fires>>
    BY <1>8 DEF StartHandler, ScheduleRetry, HandlerReturns, HandlerSucceeds, HandlerFails,
                storageVars, loopVars
  <2> QED
    BY <2>2, <2>3, WindowAll
<1> QED
  BY <1>2, <1>3, <1>4, <1>5, <1>6, <1>7, <1>8 DEF Next, ExecStep

(* job.go:34-38, "executes every missed fire": when a replay hands over    *)
(* to the regular cadence every cron instant strictly inside the missed    *)
(* window has its record, if nothing failed and the window had no more     *)
(* than maxCatchupInstants of them, in clusters of any size.               *)
THEOREM WindowReplayedHolds == Spec => [](WindowsFit => WindowReplayed)
<1>1. Init => Quiet /\ WindowInv
  BY DEF Init, Quiet, WindowInv, WindowAccounted
<1>2. IInv /\ Quiet /\ [Next]_vars => Quiet'
  BY QuietStep
<1>3. IInv /\ Quiet /\ WindowInv /\ [Next]_vars => WindowInv'
  BY WindowStep
<1>4. IInv /\ WindowInv => (WindowsFit => WindowReplayed)
  <2> SUFFICES ASSUME IInv, WindowInv, WindowsFit, NEW n \in Nodes, pc[n] = "advance",
                      Registry[n][Dj(n).job].missedFire = "RunAll", faults = 0,
                      NEW t \in (Dj(n).next + 1)..(now[n] - 1),
                      Dj(n).sched.kind = "cron", t \in Dj(n).sched.fires
               PROVE  \E r \in DOMAIN runs : r.job = Dj(n).job /\ r.fire = t /\ ~ r.claimed
    BY DEF WindowReplayed
  <2>1. /\ Dj(n).sched \in Schedules /\ Dj(n).next \in Nat /\ now[n] \in Nat /\ MaxCatchup \in Nat
    BY HeadType, OptionsAssumption DEF IInv, TypeOK, LoopInv, DueJobs
  <2>2. t \in InstantsAfter(Dj(n).sched, Dj(n).next) /\ t < now[n]
    BY <2>1 DEF InstantsAfter, Schedules, Instant
  <2>3. \E i \in DOMAIN Instants(n) : Instants(n)[i] = t
    <3>0. Cardinality({u \in InstantsAfter(Dj(n).sched, Dj(n).next) : u < now[n]}) <= MaxCatchup
      <4> DEFINE inside == {u \in Dj(n).sched.fires : Dj(n).next < u /\ u < now[n]}
      <4>1. Cardinality(inside) <= MaxCatchup
        BY DEF WindowsFit
      <4>2. inside = {u \in InstantsAfter(Dj(n).sched, Dj(n).next) : u < now[n]}
        BY <2>1 DEF InstantsAfter, Schedules, Instant
      <4> QED
        BY <4>1, <4>2
    <3>1. Covers(Instants(n), t)
      BY <2>1, <2>2, <3>0, IterateCovers DEF Instants
    <3> QED
      BY <3>1 DEF Covers
  <2> QED
    BY <2>3 DEF WindowInv, WindowAccounted, Accounted
<1> QED
  BY <1>1, <1>2, <1>3, <1>4, InitInv, NextInv, PTL DEF Spec
=============================================================================
