-------------------------- MODULE SchedulerProofs --------------------------
(***************************************************************************)
(* The lifecycle of a scheduler, for any number of schedulers, goroutines, *)
(* jobs and leaders: IInv is inductive, and with it all properties of the  *)
(* lifecycle hold.                                                         *)
(***************************************************************************)
EXTENDS Scheduler, TLAPS

(* Moving one call of Run to another step leaves all other calls alone.    *)
LEMMA PcMoves ==
    ASSUME TypeOK, NEW s \in Schedulers, NEW c \in Callers, NEW step \in Steps, GoTo(s, c, step)
    PROVE  /\ pc' \in [Schedulers -> [Callers -> Steps]]
           /\ pc'[s][c] = step
           /\ \A t \in Schedulers, d \in Callers : (t # s \/ d # c) => pc'[t][d] = pc[t][d]
BY DEF TypeOK, GoTo

(* Every step keeps the types.                                             *)
LEMMA TypeStep == ASSUME TypeOK, [Next]_vars PROVE TypeOK'
<1> USE DEF TypeOK, LeaderTypeOK, runVars, leaderVars
<1>1. CASE UNCHANGED vars
  BY <1>1 DEF vars
<1>2. CASE AdvanceClock
  BY <1>2 DEF AdvanceClock
<1>3. ASSUME NEW s \in Schedulers, Stop(s) PROVE TypeOK'
  BY <1>3 DEF Stop
<1>4. ASSUME NEW s \in Schedulers, NEW j \in Names, Schedule(s, j) PROVE TypeOK'
  BY <1>4 DEF Schedule
<1>5. ASSUME NEW s \in Schedulers, NEW c \in Callers, Run(s, c) PROVE TypeOK'
  BY <1>5 DEF Run, Begin, GoTo, Steps
<1>6. ASSUME NEW s \in Schedulers, NEW c \in Callers, NEW j \in Names, EnsureJob(s, c, j)
      PROVE  TypeOK'
  <2>1. rows' \subseteq Names /\ Rest(s, c, j) \subseteq Names
    BY <1>6 DEF EnsureJob, Rest
  <2> QED
    BY <1>6, <2>1 DEF EnsureJob, GoTo, Steps
<1>7. ASSUME NEW s \in Schedulers, NEW c \in Callers, EnsureFails(s, c) PROVE TypeOK'
  BY <1>7 DEF EnsureFails, GoTo, Steps
<1>8. ASSUME NEW s \in Schedulers, NEW c \in Callers, Renew(s, c) PROVE TypeOK'
  BY <1>8 DEF Renew, TryAcquire
<1>9. ASSUME NEW s \in Schedulers, NEW c \in Callers, Cancel(s, c) PROVE TypeOK'
  BY <1>9 DEF Cancel
<1>10. ASSUME NEW s \in Schedulers, NEW c \in Callers, LoopReturns(s, c) PROVE TypeOK'
  BY <1>10 DEF LoopReturns, Leave, GoTo, Steps
<1>11. ASSUME NEW s \in Schedulers, NEW c \in Callers, ReleaseLeader(s, c) PROVE TypeOK'
  <2>1. CASE leaderOf[s] = NoLeader
    BY <1>11, <2>1 DEF ReleaseLeader, GoTo, Steps
  <2>2. CASE leaderOf[s] # NoLeader
    BY <1>11, <2>2 DEF ReleaseLeader, Release, GoTo, Steps
  <2> QED
    BY <2>1, <2>2
<1>12. ASSUME NEW s \in Schedulers, NEW c \in Callers, markStopped(s, c) PROVE TypeOK'
  BY <1>12 DEF markStopped, GoTo, Steps
<1> QED
  BY <1>1, <1>2, <1>3, <1>4, <1>5, <1>6, <1>7, <1>8, <1>9, <1>10, <1>11, <1>12 DEF Next, RunStep

----------------------------------------------------------------------------
(* A Run in progress stays the only one while it moves on.                 *)
LEMMA StaysInProgress ==
    ASSUME TypeOK, OneLoop, NEW s \in Schedulers, NEW c \in Callers, NEW step \in Steps \ {"idle"},
           pc[s][c] # "idle", GoTo(s, c, step), UNCHANGED running
    PROVE  OneLoop'
<1>1. \A t \in Schedulers : InProgress(t)' = InProgress(t)
  BY PcMoves DEF InProgress
<1> QED
  BY <1>1 DEF OneLoop

(* Begin lets one call of Run in, and markStopped lets it out: the running *)
(* flag and the calls in progress change together.                         *)
LEMMA OneLoopStep == ASSUME TypeOK, OneLoop, [Next]_vars PROVE OneLoop'
<1> USE DEF runVars
<1>1. CASE UNCHANGED vars
  BY <1>1 DEF vars, OneLoop, InProgress
<1>2. CASE AdvanceClock
  BY <1>2 DEF AdvanceClock, OneLoop, InProgress
<1>3. ASSUME NEW s \in Schedulers, Stop(s) PROVE OneLoop'
  BY <1>3 DEF Stop, OneLoop, InProgress
<1>4. ASSUME NEW s \in Schedulers, NEW j \in Names, Schedule(s, j) PROVE OneLoop'
  BY <1>4 DEF Schedule, OneLoop, InProgress
<1>5. ASSUME NEW s \in Schedulers, NEW c \in Callers, Run(s, c) PROVE OneLoop'
  <2>1. /\ ~ running[s] /\ running' = [running EXCEPT ![s] = TRUE]
        /\ GoTo(s, c, "loop") \/ GoTo(s, c, "ensure")
    BY <1>5 DEF Run, Begin
  <2>2. InProgress(s) = {}
    BY <2>1 DEF OneLoop
  <2>3. /\ pc'[s][c] # "idle"
        /\ \A t \in Schedulers, d \in Callers : (t # s \/ d # c) => pc'[t][d] = pc[t][d]
    BY <2>1, PcMoves DEF Steps
  <2>4. InProgress(s)' = {c}
    BY <2>2, <2>3 DEF InProgress
  <2>5. \A t \in Schedulers \ {s} : InProgress(t)' = InProgress(t)
    BY <2>3 DEF InProgress
  <2>6. running'[s] = TRUE /\ \A t \in Schedulers \ {s} : running'[t] = running[t]
    BY <2>1 DEF TypeOK
  <2> QED
    BY <2>4, <2>5, <2>6 DEF OneLoop
<1>6. ASSUME NEW s \in Schedulers, NEW c \in Callers, NEW j \in Names, EnsureJob(s, c, j)
      PROVE  OneLoop'
  <2>1. GoTo(s, c, "loop") \/ GoTo(s, c, "ensure")
    BY <1>6 DEF EnsureJob
  <2> QED
    BY <1>6, <2>1, StaysInProgress DEF EnsureJob, Steps
<1>7. ASSUME NEW s \in Schedulers, NEW c \in Callers, EnsureFails(s, c) PROVE OneLoop'
  BY <1>7, StaysInProgress DEF EnsureFails, Steps
<1>8. ASSUME NEW s \in Schedulers, NEW c \in Callers, Renew(s, c) PROVE OneLoop'
  BY <1>8 DEF Renew, OneLoop, InProgress
<1>9. ASSUME NEW s \in Schedulers, NEW c \in Callers, Cancel(s, c) PROVE OneLoop'
  BY <1>9 DEF Cancel, OneLoop, InProgress
<1>10. ASSUME NEW s \in Schedulers, NEW c \in Callers, LoopReturns(s, c) PROVE OneLoop'
  BY <1>10, StaysInProgress DEF LoopReturns, Leave, Steps
<1>11. ASSUME NEW s \in Schedulers, NEW c \in Callers, ReleaseLeader(s, c) PROVE OneLoop'
  BY <1>11, StaysInProgress DEF ReleaseLeader, Steps
<1>12. ASSUME NEW s \in Schedulers, NEW c \in Callers, markStopped(s, c) PROVE OneLoop'
  <2>1. /\ pc[s][c] = "mark" /\ running' = [running EXCEPT ![s] = FALSE]
        /\ GoTo(s, c, "idle")
    BY <1>12 DEF markStopped
  <2>2. \A d \in Callers \ {c} : pc[s][d] = "idle"
    BY <2>1 DEF OneLoop, InProgress
  <2>3. /\ pc'[s][c] = "idle"
        /\ \A t \in Schedulers, d \in Callers : (t # s \/ d # c) => pc'[t][d] = pc[t][d]
    BY <2>1, PcMoves DEF Steps
  <2>4. InProgress(s)' = {}
    BY <2>2, <2>3 DEF InProgress
  <2>5. \A t \in Schedulers \ {s} : InProgress(t)' = InProgress(t)
    BY <2>3 DEF InProgress
  <2>6. running'[s] = FALSE /\ \A t \in Schedulers \ {s} : running'[t] = running[t]
    BY <2>1 DEF TypeOK
  <2> QED
    BY <2>4, <2>5, <2>6 DEF OneLoop
<1> QED
  BY <1>1, <1>2, <1>3, <1>4, <1>5, <1>6, <1>7, <1>8, <1>9, <1>10, <1>11, <1>12 DEF Next, RunStep

----------------------------------------------------------------------------
(* Rows are never removed, and a step of another call or of the leader     *)
(* leaves what a Run has copied and ensured alone.                         *)
LEMMA EnsureKept ==
    ASSUME EnsureInv, rows \subseteq rows', UNCHANGED <<slice, left, now>>,
           \A s \in Schedulers, c \in Callers : pc'[s][c] = "loop" => pc[s][c] = "loop"
    PROVE  EnsureInv'
BY DEF EnsureInv, NoFire

(* Run passes over a job only when it has a row or no fire, and enters the *)
(* loop with none left.                                                    *)
LEMMA EnsureStep == ASSUME TypeOK, EnsureInv, [Next]_vars PROVE EnsureInv'
<1> USE DEF runVars
<1>1. CASE UNCHANGED vars
  BY <1>1, EnsureKept DEF vars
<1>2. CASE AdvanceClock
  BY <1>2, EnsureKept DEF AdvanceClock
<1>3. ASSUME NEW s \in Schedulers, Stop(s) PROVE EnsureInv'
  BY <1>3, EnsureKept DEF Stop
<1>4. ASSUME NEW s \in Schedulers, NEW j \in Names, Schedule(s, j) PROVE EnsureInv'
  BY <1>4, EnsureKept DEF Schedule
<1>5. ASSUME NEW s \in Schedulers, NEW c \in Callers, Run(s, c) PROVE EnsureInv'
  <2>1. /\ slice' = [slice EXCEPT ![s][c] = jobs[s]] /\ left' = [left EXCEPT ![s][c] = jobs[s]]
        /\ now' = [now EXCEPT ![s][c] = clock] /\ rows' = rows
        /\ (jobs[s] = {} /\ GoTo(s, c, "loop")) \/ GoTo(s, c, "ensure")
    BY <1>5 DEF Run
  <2>2. /\ pc'[s][c] = "loop" => jobs[s] = {}
        /\ \A t \in Schedulers, d \in Callers : (t # s \/ d # c) => pc'[t][d] = pc[t][d]
    BY <2>1, PcMoves DEF Steps
  <2>3. /\ slice'[s][c] = jobs[s] /\ left'[s][c] = jobs[s]
        /\ \A t \in Schedulers, d \in Callers : (t # s \/ d # c) =>
              slice'[t][d] = slice[t][d] /\ left'[t][d] = left[t][d] /\ now'[t][d] = now[t][d]
    BY <2>1 DEF TypeOK
  <2> QED
    BY <2>1, <2>2, <2>3 DEF EnsureInv, NoFire
<1>6. ASSUME NEW s \in Schedulers, NEW c \in Callers, NEW j \in Names, EnsureJob(s, c, j)
      PROVE  EnsureInv'
  <2>1. /\ left' = [left EXCEPT ![s][c] = left[s][c] \ {j}] /\ slice' = slice /\ now' = now
        /\ rows \subseteq rows' /\ (j \in rows' \/ NoFire(j, now[s][c]))
        /\ (left[s][c] \ {j} = {} /\ GoTo(s, c, "loop")) \/ GoTo(s, c, "ensure")
    BY <1>6 DEF EnsureJob, Rest
  <2>2. /\ pc'[s][c] = "loop" => left[s][c] \ {j} = {}
        /\ \A t \in Schedulers, d \in Callers : (t # s \/ d # c) => pc'[t][d] = pc[t][d]
    BY <2>1, PcMoves DEF Steps
  <2>3. /\ left'[s][c] = left[s][c] \ {j}
        /\ \A t \in Schedulers, d \in Callers : (t # s \/ d # c) => left'[t][d] = left[t][d]
    BY <2>1 DEF TypeOK
  <2>4. /\ pc'[s][c] = "loop" => left'[s][c] = {}
        /\ \A i \in slice'[s][c] \ left'[s][c] : i \in rows' \/ NoFire(i, now'[s][c])
    BY <2>1, <2>2, <2>3 DEF EnsureInv
  <2>5. \A t \in Schedulers, d \in Callers : (t # s \/ d # c) =>
           /\ pc'[t][d] = "loop" => left'[t][d] = {}
           /\ \A i \in slice'[t][d] \ left'[t][d] : i \in rows' \/ NoFire(i, now'[t][d])
    BY <2>1, <2>2, <2>3 DEF EnsureInv
  <2> QED
    BY <2>4, <2>5 DEF EnsureInv, NoFire
<1>7. ASSUME NEW s \in Schedulers, NEW c \in Callers, EnsureFails(s, c) PROVE EnsureInv'
  BY <1>7, PcMoves, EnsureKept DEF EnsureFails, Steps
<1>8. ASSUME NEW s \in Schedulers, NEW c \in Callers, Renew(s, c) PROVE EnsureInv'
  BY <1>8, EnsureKept DEF Renew
<1>9. ASSUME NEW s \in Schedulers, NEW c \in Callers, Cancel(s, c) PROVE EnsureInv'
  BY <1>9, EnsureKept DEF Cancel
<1>10. ASSUME NEW s \in Schedulers, NEW c \in Callers, LoopReturns(s, c) PROVE EnsureInv'
  BY <1>10, PcMoves, EnsureKept DEF LoopReturns, Steps
<1>11. ASSUME NEW s \in Schedulers, NEW c \in Callers, ReleaseLeader(s, c) PROVE EnsureInv'
  BY <1>11, PcMoves, EnsureKept DEF ReleaseLeader, Steps
<1>12. ASSUME NEW s \in Schedulers, NEW c \in Callers, markStopped(s, c) PROVE EnsureInv'
  <2>1. /\ slice' = [slice EXCEPT ![s][c] = {}] /\ left' = [left EXCEPT ![s][c] = {}]
        /\ now' = [now EXCEPT ![s][c] = 0] /\ rows' = rows /\ GoTo(s, c, "idle")
    BY <1>12 DEF markStopped
  <2>2. \A t \in Schedulers, d \in Callers : (t # s \/ d # c) => pc'[t][d] = pc[t][d]
    BY <2>1, PcMoves DEF Steps
  <2>3. /\ slice'[s][c] = {} /\ left'[s][c] = {}
        /\ \A t \in Schedulers, d \in Callers : (t # s \/ d # c) =>
              slice'[t][d] = slice[t][d] /\ left'[t][d] = left[t][d] /\ now'[t][d] = now[t][d]
    BY <2>1 DEF TypeOK
  <2> QED
    BY <2>1, <2>2, <2>3 DEF EnsureInv, NoFire
<1> QED
  BY <1>1, <1>2, <1>3, <1>4, <1>5, <1>6, <1>7, <1>8, <1>9, <1>10, <1>11, <1>12 DEF Next, RunStep

----------------------------------------------------------------------------
(* Steps that leave the locks alone and take nobody out of the loop or of  *)
(* its way to Release keep the holders alive.                              *)
LEMMA LeaderKept ==
    ASSUME LeaderInv, TypeOK, UNCHANGED <<holder, myID, leaderOf>>,
           \A s \in Schedulers, c \in Callers :
               pc[s][c] \in {"loop", "release"} => pc'[s][c] \in {"loop", "release"}
    PROVE  LeaderInv'
<1> SUFFICES ASSUME NEW l \in Leaders, holder[l] # NoNode
             PROVE  \E c \in Callers : pc'[holder[l]][c] \in {"loop", "release"}
  BY DEF LeaderInv
<1>1. holder[l] \in Schedulers
  BY DEF TypeOK, LeaderTypeOK
<1>2. PICK c \in Callers : pc[holder[l]][c] \in {"loop", "release"}
  BY DEF LeaderInv
<1> QED
  BY <1>1, <1>2

(* A lock is taken from inside the loop, and the call that leaves the loop *)
(* frees it before it ends.                                                *)
LEMMA LeaderStep == ASSUME TypeOK, LeaderInv, [Next]_vars PROVE LeaderInv'
<1> USE DEF runVars, leaderVars
<1>1. CASE UNCHANGED vars
  BY <1>1, LeaderKept DEF vars
<1>2. CASE AdvanceClock
  BY <1>2, LeaderKept DEF AdvanceClock
<1>3. ASSUME NEW s \in Schedulers, Stop(s) PROVE LeaderInv'
  BY <1>3, LeaderKept DEF Stop
<1>4. ASSUME NEW s \in Schedulers, NEW j \in Names, Schedule(s, j) PROVE LeaderInv'
  BY <1>4, LeaderKept DEF Schedule
<1>5. ASSUME NEW s \in Schedulers, NEW c \in Callers, Run(s, c) PROVE LeaderInv'
  <2>1. pc[s][c] = "idle" /\ (GoTo(s, c, "loop") \/ GoTo(s, c, "ensure"))
    BY <1>5 DEF Run
  <2> QED
    BY <1>5, <2>1, PcMoves, LeaderKept DEF Run, Steps
<1>6. ASSUME NEW s \in Schedulers, NEW c \in Callers, NEW j \in Names, EnsureJob(s, c, j)
      PROVE  LeaderInv'
  <2>1. pc[s][c] = "ensure" /\ (GoTo(s, c, "loop") \/ GoTo(s, c, "ensure"))
    BY <1>6 DEF EnsureJob
  <2> QED
    BY <1>6, <2>1, PcMoves, LeaderKept DEF EnsureJob, Steps
<1>7. ASSUME NEW s \in Schedulers, NEW c \in Callers, EnsureFails(s, c) PROVE LeaderInv'
  BY <1>7, PcMoves, LeaderKept DEF EnsureFails, Steps
<1>8. ASSUME NEW s \in Schedulers, NEW c \in Callers, Renew(s, c) PROVE LeaderInv'
  <2>1. leaderOf[s] \in Leaders /\ pc[s][c] = "loop" /\ UNCHANGED <<pc, leaderOf>>
        /\ TryAcquire(leaderOf[s], s)
    BY <1>8 DEF Renew, TypeOK
  <2>2. CASE holder[leaderOf[s]] \in {NoNode, s}
    <3>1. /\ holder'[leaderOf[s]] = s /\ myID'[leaderOf[s]] = s
          /\ \A l \in Leaders \ {leaderOf[s]} : holder'[l] = holder[l] /\ myID'[l] = myID[l]
      BY <2>1, <2>2 DEF TryAcquire, TypeOK, LeaderTypeOK
    <3> QED
      BY <2>1, <3>1 DEF LeaderInv
  <2>3. CASE holder[leaderOf[s]] \notin {NoNode, s}
    BY <2>1, <2>3, LeaderKept DEF TryAcquire
  <2> QED
    BY <2>2, <2>3
<1>9. ASSUME NEW s \in Schedulers, NEW c \in Callers, Cancel(s, c) PROVE LeaderInv'
  BY <1>9, LeaderKept DEF Cancel
<1>10. ASSUME NEW s \in Schedulers, NEW c \in Callers, LoopReturns(s, c) PROVE LeaderInv'
  BY <1>10, PcMoves, LeaderKept DEF LoopReturns, Steps
<1>11. ASSUME NEW s \in Schedulers, NEW c \in Callers, ReleaseLeader(s, c) PROVE LeaderInv'
  <2>1. /\ leaderOf' = leaderOf
        /\ \A t \in Schedulers, d \in Callers : (t # s \/ d # c) => pc'[t][d] = pc[t][d]
    BY <1>11, PcMoves DEF ReleaseLeader, Steps
  <2>2. \A l \in Leaders : leaderOf[s] # l => holder'[l] = holder[l] /\ myID'[l] = myID[l]
    BY <1>11 DEF ReleaseLeader, Release, TypeOK, LeaderTypeOK
  <2>3. \A l \in Leaders : leaderOf[s] = l => holder'[l] = NoNode /\ myID'[l] = NoNode
    BY <1>11, SchedulerAssumption DEF ReleaseLeader, Release, LeaderInv, TypeOK, LeaderTypeOK
  <2> SUFFICES ASSUME NEW l \in Leaders, leaderOf[s] # l, holder[l] # NoNode
               PROVE  \E d \in Callers : pc'[holder[l]][d] \in {"loop", "release"}
    BY <2>1, <2>2, <2>3 DEF LeaderInv
  <2>4. holder[l] \in Schedulers \ {s}
    BY DEF TypeOK, LeaderTypeOK, LeaderInv
  <2>5. PICK d \in Callers : pc[holder[l]][d] \in {"loop", "release"}
    BY DEF LeaderInv
  <2> QED
    BY <2>1, <2>4, <2>5
<1>12. ASSUME NEW s \in Schedulers, NEW c \in Callers, markStopped(s, c) PROVE LeaderInv'
  BY <1>12, PcMoves, LeaderKept DEF markStopped, Steps
<1> QED
  BY <1>1, <1>2, <1>3, <1>4, <1>5, <1>6, <1>7, <1>8, <1>9, <1>10, <1>11, <1>12 DEF Next, RunStep

----------------------------------------------------------------------------
(* The inductive invariant holds at the start.                             *)
LEMMA InitInv == ASSUME Init PROVE IInv
<1>1. TypeOK
  BY SchedulerAssumption DEF Init, LeaderInit, TypeOK, LeaderTypeOK, Each, Steps
<1>2. OneLoop
  BY DEF Init, OneLoop, InProgress, Each
<1>3. EnsureInv
  BY DEF Init, EnsureInv, Each
<1>4. LeaderInv
  BY DEF Init, LeaderInit, LeaderInv
<1> QED
  BY <1>1, <1>2, <1>3, <1>4 DEF IInv

(* IInv is an invariant of the lifecycle.                                  *)
LEMMA LifecycleInvariant == Spec => []IInv
<1>1. IInv /\ [Next]_vars => IInv'
  BY TypeStep, OneLoopStep, EnsureStep, LeaderStep DEF IInv
<1> QED
  BY InitInv, <1>1, PTL DEF Spec

(* Every variable of the lifecycle keeps its type (sundial.go:89-98).      *)
THEOREM LifecycleTypes == Spec => []TypeOK
BY LifecycleInvariant, PTL DEF IInv

(* A scheduler never has two dispatcher loops, however many goroutines     *)
(* call Run (sundial.go:298-303, 338-342).                                 *)
THEOREM OneLoopHolds == Spec => []OneLoop
BY LifecycleInvariant, PTL DEF IInv

(* The loop begins only when the jobs Run found are in the storage         *)
(* (sundial.go:304-320).                                                   *)
THEOREM EnsuredBeforeLoopHolds == Spec => []EnsuredBeforeLoop
<1>1. IInv => EnsuredBeforeLoop
  BY DEF IInv, EnsureInv, EnsuredBeforeLoop
<1> QED
  BY LifecycleInvariant, <1>1, PTL

(* A MemoryLeader is never held by a scheduler that has stopped            *)
(* (sundial.go:330-334), whoever shares it.                                *)
THEOREM NoDeadLeaderHolds == Spec => []NoDeadLeader
<1>1. IInv => NoDeadLeader
  BY DEF IInv, LeaderInv, NoDeadLeader
<1> QED
  BY LifecycleInvariant, <1>1, PTL

(* The Release of an earlier Run never takes the lead from a later one     *)
(* (sundial.go:330-334): OneLoop keeps the two apart.                      *)
THEOREM LeadsWhileRunningHolds == Spec => LeadsWhileRunning
<1> DEFINE Keeps == \A s \in Schedulers, c \in Callers :
              (Unshared(s) /\ IsLeader(leaderOf[s]) /\ pc[s][c] = "loop" /\ pc'[s][c] = "loop")
                 => IsLeader(leaderOf[s])'
<1>1. ASSUME IInv, [Next]_vars PROVE Keeps
  <2> SUFFICES ASSUME NEW s \in Schedulers, NEW c \in Callers, Unshared(s), IsLeader(leaderOf[s]),
                      pc[s][c] = "loop", pc'[s][c] = "loop"
               PROVE  IsLeader(leaderOf[s])'
    OBVIOUS
  <2>1. TypeOK /\ OneLoop /\ leaderOf[s] \in Leaders
    BY <1>1 DEF IInv, Unshared, TypeOK
  <2>2. CASE UNCHANGED <<leaderVars, leaderOf>>
    BY <2>2 DEF leaderVars, IsLeader
  <2>3. ASSUME NEW t \in Schedulers, NEW d \in Callers, Renew(t, d) PROVE IsLeader(leaderOf[s])'
    <3>1. leaderOf[t] \in Leaders /\ leaderOf' = leaderOf /\ TryAcquire(leaderOf[t], t)
      BY <1>1, <2>3 DEF Renew, IInv, TypeOK
    <3> QED
      BY <2>1, <3>1, NoNodeAssumption DEF TryAcquire, IsLeader, leaderVars, TypeOK, LeaderTypeOK
  <2>4. ASSUME NEW t \in Schedulers, NEW d \in Callers, ReleaseLeader(t, d) PROVE IsLeader(leaderOf[s])'
    <3>1. t # s
      <4> SUFFICES ASSUME t = s PROVE FALSE
        OBVIOUS
      <4>1. pc[s][d] = "release"
        BY <2>4 DEF ReleaseLeader
      <4> QED
        BY <2>1, <4>1 DEF OneLoop, InProgress
    <3>2. leaderOf[t] # leaderOf[s] /\ leaderOf' = leaderOf
      BY <2>4, <3>1 DEF Unshared, ReleaseLeader
    <3> QED
      BY <2>1, <2>4, <3>2 DEF ReleaseLeader, Release, IsLeader, leaderVars, TypeOK, LeaderTypeOK
  <2> QED
    BY <1>1, <2>2, <2>3, <2>4 DEF Next, RunStep, vars, AdvanceClock, Stop, Schedule, Run, EnsureJob,
       EnsureFails, Cancel, LoopReturns, markStopped
<1> QED
  BY LifecycleInvariant, <1>1, PTL DEF Spec, LeadsWhileRunning
=============================================================================
