---------------------------- MODULE ReplayProofs ----------------------------
(***************************************************************************)
(* Replays are not claimed, yet at most one replayed handler runs in the   *)
(* cluster, for any number of nodes and jobs and any crashes and failed    *)
(* calls: as long as every node has a leader lock and no connection that   *)
(* holds it is lost.  Both conditions are needed.                          *)
(***************************************************************************)
EXTENDS DispatcherProofs

(* Where a node moves outside of a replay, nothing that OneReplay rests on *)
(* changes, if the locks and the replayed handlers stay as they are.       *)
LEMMA MovesOutside ==
    ASSUME IInv, ReplayInv, UNCHANGED leaderVars,
           NEW n \in Nodes, NEW step \in Steps \ {"replay"},
           pc[n] # "replay" \/ ~ Replaying(n), GoTo(n, step),
           \A e \in execs' : e \in execs \/ e.claimed
    PROVE  ReplayInv'
<1>1. /\ \A m \in Nodes : m # n => pc'[m] = pc[m]
      /\ pc'[n] = step
  BY DEF IInv, TypeOK, GoTo
<1>2. \A e \in execs' : ~ e.claimed => e \in execs /\ e.node \in Nodes \ {n}
  BY DEF ReplayInv, Replaying, IInv, TypeOK, Execs, Call
<1> QED
  BY <1>1, <1>2 DEF ReplayInv, leaderVars

(* A step that moves no loop and starts no replayed handler.               *)
LEMMA LoopsStay ==
    ASSUME ReplayInv, UNCHANGED <<leaderVars, pc>>, \A e \in execs' : e \in execs \/ e.claimed
    PROVE  ReplayInv'
BY DEF ReplayInv, leaderVars

(* A handler that goes on stays the handler it was.                        *)
LEMMA HandlerMoves ==
    ASSUME ReplayInv, UNCHANGED <<leaderVars, pc>>, NEW e \in execs, NEW f, Become(e, f),
           f.node = e.node, f.claimed = e.claimed
    PROVE  ReplayInv'
<1>1. \A x, y \in execs' : ~ x.claimed /\ ~ y.claimed /\ x.node = y.node => x = y
  <2> SUFFICES ASSUME NEW x \in execs', NEW y \in execs', ~ x.claimed, ~ y.claimed, x.node = y.node
               PROVE  x = y
    OBVIOUS
  <2>1. (x \in execs /\ x # e) \/ x = f
    BY DEF Become
  <2>2. (y \in execs /\ y # e) \/ y = f
    BY DEF Become
  <2> QED
    BY <2>1, <2>2 DEF ReplayInv
<1> QED
  BY <1>1 DEF ReplayInv, Become, leaderVars

(* Every way in which NextDue leaves a job leads out of a replay.          *)
LEMMA NextDueMoves ==
    ASSUME NEW n \in Nodes, NextDue(n)
    PROVE  GoTo(n, "select") \/ GoTo(n, "dispatch")
BY DEF NextDue

(* Whoever begins a replay is the leader.                                  *)
LEMMA ReplayerLeads ==
    ASSUME LeaderEnabled, NEW n \in Nodes, Decision(n) = "replay"
    PROVE  held[n]
<1>1. ~ Follower(n)
  BY DEF Decision
<1> QED
  BY <1>1 DEF Follower, IsLeader

(* Giving up the lock and the handlers of a node that does not replay.     *)
LEMMA ReleaseKeeps ==
    ASSUME IInv, ReplayInv, NEW n \in Nodes, Release(n) \/ ReleaseFails(n),
           NEW step \in Steps \ {"replay"}, GoTo(n, step),
           execs' \subseteq execs, \A e \in execs' : e.node = n => e.claimed
    PROVE  ReplayInv'
<1>1. /\ \A m \in Nodes : m # n => pc'[m] = pc[m] /\ held'[m] = held[m]
      /\ pc'[n] = step /\ ~ held'[n]
      /\ owner # n => owner' = owner
  BY DEF IInv, TypeOK, LeaderTypeOK, GoTo, Release, ReleaseFails
<1>2. \A m \in Nodes : held'[m] => owner' = m
  BY <1>1 DEF ReplayInv
<1>3. \A e \in execs' : ~ e.claimed => e \in execs /\ e.node \in Nodes \ {n}
  BY DEF IInv, TypeOK, Execs, Call
<1> QED
  BY <1>1, <1>2, <1>3 DEF ReplayInv

----------------------------------------------------------------------------
(* The steps of the loop, one by one.                                      *)
LEMMA ReplayLoopStep ==
    ASSUME IInv, ReplayInv, LeaderEnabled, NEW n \in Nodes, LoopStep(n)
    PROVE  ReplayInv'
<1> USE DEF Steps
<1>1. CASE Run(n)
  <2>1. pc[n] # "replay" /\ (GoTo(n, "elect") \/ GoTo(n, "ensure"))
    BY <1>1 DEF Run
  <2> QED
    BY <1>1, <2>1, MovesOutside DEF Run
<1>2. ASSUME NEW j \in Jobs, EnsureJob(n, j) PROVE ReplayInv'
  <2>1. pc[n] # "replay" /\ (GoTo(n, "elect") \/ GoTo(n, "ensure"))
    BY <1>2 DEF EnsureJob
  <2> QED
    BY <1>2, <2>1, MovesOutside DEF EnsureJob
<1>3. CASE EnsureFails(n)
  BY <1>3, MovesOutside DEF EnsureFails
<1>4. CASE Ignore(n)
  BY <1>4, NextDueMoves, MovesOutside DEF Ignore
<1>5. ASSUME NEW step \in {"claim", "advance"}, LockForClaim(n, step),
             pc[n] # "replay" \/ ~ Replaying(n)
      PROVE  ReplayInv'
  <2>1. GoTo(n, "select") \/ GoTo(n, "dispatch") \/ GoTo(n, step)
    BY <1>5, NextDueMoves DEF LockForClaim
  <2> QED
    BY <1>5, <2>1, MovesOutside DEF LockForClaim
<1>6. CASE BeginClaim(n)
  BY <1>5, <1>6 DEF BeginClaim
<1>7. CASE ClaimJob(n)
  <2>1. \A e \in execs' : e \in execs \/ e.claimed
    BY <1>7 DEF ClaimJob, NewExec
  <2> QED
    BY <1>7, <2>1, NextDueMoves, MovesOutside DEF ClaimJob
<1>8. CASE AdvanceRow(n)
  BY <1>8, NextDueMoves, MovesOutside DEF AdvanceRow
<1>9. CASE StartReplay(n)
  <2>1. held[n] /\ pc[n] = "dispatch" /\ GoTo(n, "replay") /\ UNCHANGED <<leaderVars, execs>>
    BY <1>9, ReplayerLeads DEF StartReplay
  <2>2. \A m \in Nodes : pc'[m] = "replay" <=> pc[m] = "replay" \/ m = n
    BY <2>1 DEF GoTo, IInv, TypeOK
  <2>3. \A e \in execs : e.node \in Nodes
    BY DEF IInv, TypeOK, Execs, Call
  <2> QED
    BY <2>1, <2>2, <2>3 DEF ReplayInv, leaderVars
<1>10. CASE executeAtFire(n)
  <2> DEFINE f == NewExec(n, Dj(n).job, Head(fires[n]), Head(fires[n]), FALSE)
  <2>1. /\ pc[n] = "replay" /\ ~ Replaying(n) /\ UNCHANGED <<leaderVars, pc>>
        /\ execs' = execs \cup {f}
    BY <1>10 DEF executeAtFire
  <2>2. f.node = n
    BY DEF NewExec
  <2> HIDE DEF f
  <2>3. \A e \in execs : ~ e.claimed => e.node # n
    BY <2>1 DEF Replaying
  <2> QED
    BY <2>1, <2>2, <2>3 DEF ReplayInv, leaderVars
<1>11. CASE EndReplay(n)
  <2>1. CASE LockForClaim(n, "advance")
    BY <1>5, <1>11, <2>1 DEF EndReplay
  <2>2. CASE NextDue(n) /\ UNCHANGED <<leaderVars, execs>>
    BY <1>11, <2>2, NextDueMoves, MovesOutside DEF EndReplay
  <2> QED
    BY <1>11, <2>1, <2>2 DEF EndReplay
<1>12. CASE Stop(n)
  <2>1. \A e \in execs : e.node = n => e.claimed
    BY <1>12 DEF Stop, ReplayInv
  <2> QED
    BY <1>12, <2>1, ReleaseKeeps DEF Stop
<1>13. CASE Exit(n)
  BY <1>13, ReleaseKeeps DEF Exit, Gone
<1> QED
  BY <1>1, <1>2, <1>3, <1>4, <1>6, <1>7, <1>8, <1>9, <1>10, <1>11, <1>12, <1>13 DEF LoopStep

(* A renewal may take the free lock and never gives a second node one.     *)
LEMMA RenewKeeps ==
    ASSUME IInv, ReplayInv, NEW n \in Nodes, maybeRenewLeader(n)
    PROVE  ReplayInv'
<1>1. pc[n] # "replay" /\ (GoTo(n, "tick") \/ GoTo(n, "select")) /\ UNCHANGED execs
  BY DEF maybeRenewLeader
<1>2. CASE UNCHANGED leaderVars
  BY <1>1, <1>2, MovesOutside DEF Steps
<1>3. CASE TryAcquire(n) /\ ~ UNCHANGED leaderVars
  <2>1. owner = NoNode /\ owner' = n /\ held' = [held EXCEPT ![n] = TRUE]
    BY <1>3 DEF TryAcquire
  <2>2. \A m \in Nodes : ~ held[m]
    BY <2>1, NoNodeAssumption DEF ReplayInv
  <2>3. \A m \in Nodes : held'[m] => m = n
    BY <2>1, <2>2 DEF IInv, TypeOK, LeaderTypeOK
  <2>4. \A m \in Nodes : pc'[m] # "replay"
    BY <1>1, <2>2 DEF ReplayInv, GoTo, IInv, TypeOK
  <2>5. \A e \in execs : e.claimed /\ e.node \in Nodes
    BY <2>2 DEF ReplayInv, IInv, TypeOK, Execs, Call
  <2> QED
    BY <1>1, <2>1, <2>3, <2>4, <2>5 DEF ReplayInv
<1> QED
  BY <1>2, <1>3 DEF maybeRenewLeader

(* Every step of the cluster keeps ReplayInv when leaders are configured   *)
(* and no leader connection is lost.                                       *)
LEMMA ReplayStep ==
    ASSUME IInv, ReplayInv, [Next]_vars, LeaderEnabled, "connection" \notin FaultKinds
    PROVE  ReplayInv'
<1> USE DEF loopVars
<1>1. CASE AdvanceClock \/ UNCHANGED vars
  BY <1>1, LoopsStay DEF AdvanceClock, vars
<1>2. ASSUME NEW n \in Nodes, LoopStep(n) PROVE ReplayInv'
  BY <1>2, ReplayLoopStep
<1>3. ASSUME NEW n \in Nodes, maybeRenewLeader(n) PROVE ReplayInv'
  BY <1>3, RenewKeeps
<1>4. ASSUME NEW n \in Nodes, tick(n) PROVE ReplayInv'
  <2>1. /\ pc[n] # "replay" /\ (GoTo(n, "select") \/ GoTo(n, "dispatch"))
        /\ UNCHANGED <<leaderVars, execs>>
    BY <1>4 DEF tick
  <2> QED
    BY <2>1, MovesOutside DEF Steps
<1>5. ASSUME NEW n \in Nodes, Drain(n) PROVE ReplayInv'
  BY <1>5, MovesOutside DEF Drain, Steps
<1>6. ASSUME NEW n \in Nodes, Cancel(n) PROVE ReplayInv'
  BY <1>6, LoopsStay DEF Cancel
<1>7. ASSUME NEW n \in Nodes, Crash(n) PROVE ReplayInv'
  BY <1>7, ReleaseKeeps DEF Crash, Gone, Steps
<1>8. ASSUME NEW n \in Nodes, LoseConnection(n) PROVE ReplayInv'
  BY <1>8 DEF LoseConnection, Fault
<1>9. ASSUME NEW e \in execs, RecordRun(e) PROVE ReplayInv'
  BY <1>9, LoopsStay DEF RecordRun
<1>10. ASSUME NEW e \in execs, StartHandler(e) \/ ScheduleRetry(e) \/ HandlerReturns(e)
       PROVE  ReplayInv'
  <2>1. e \in Execs
    BY DEF IInv, TypeOK
  <2>2. CASE StartHandler(e)
    BY <2>1, <2>2, HandlerMoves DEF StartHandler, Execs, Call
  <2>3. CASE ScheduleRetry(e)
    BY <2>1, <2>3, HandlerMoves DEF ScheduleRetry, Execs, Call
  <2>4. CASE HandlerSucceeds(e)
    BY <2>1, <2>4, HandlerMoves DEF HandlerSucceeds, Execs, Call
  <2>5. CASE HandlerFails(e)
    BY <2>1, <2>5, HandlerMoves DEF HandlerFails, Execs, Call
  <2> QED
    BY <1>10, <2>2, <2>3, <2>4, <2>5 DEF HandlerReturns
<1> QED
  BY <1>1, <1>2, <1>3, <1>4, <1>5, <1>6, <1>7, <1>8, <1>9, <1>10 DEF Next, ExecStep

(* Only one replayed handler at a time (dispatcher.go:202-210, 393-400) in *)
(* clusters of any size, whatever nodes crash and calls fail, if leaders   *)
(* are configured and no leader loses its connection.                      *)
THEOREM OneReplayHolds ==
    ASSUME LeaderEnabled, "connection" \notin FaultKinds
    PROVE  Spec => []OneReplay
<1>1. Init => ReplayInv
  BY DEF Init, LeaderInit, ReplayInv
<1>2. IInv /\ ReplayInv /\ [Next]_vars => ReplayInv'
  BY ReplayStep
<1>3. IInv /\ ReplayInv => OneReplay
  <2> SUFFICES ASSUME IInv, ReplayInv, NEW e \in execs, NEW f \in execs, ~ e.claimed, ~ f.claimed
               PROVE  e = f
    BY DEF OneReplay
  <2>1. e.node \in Nodes /\ f.node \in Nodes
    BY DEF IInv, TypeOK, Execs, Call
  <2>2. e.node = f.node
    BY <2>1 DEF ReplayInv
  <2> QED
    BY <2>2 DEF ReplayInv
<1> QED
  BY <1>1, <1>2, <1>3, InitInv, NextInv, PTL DEF Spec
=============================================================================
