------------------------ MODULE DispatcherRefinement ------------------------
(***************************************************************************)
(* The cluster of Dispatcher implements the claim protocol of Claims: its  *)
(* rows, seen as fire times, and its claimed calls of execute, seen as     *)
(* tickets, only ever take steps of Claims.                                *)
(***************************************************************************)
EXTENDS DispatcherProofs

NextTimes == [j \in Jobs |-> rows[j].next]

Ticket(e) ==
    [job |-> e.job, owner |-> e.node, fire |-> e.fire, target |-> e.target, epoch |-> e.epoch]

(* A ticket belongs to a claimed call.                                     *)
LEMMA TicketsOf == ClaimTickets = {Ticket(e) : e \in {x \in execs : x.claimed}}
BY DEF ClaimTickets, Ticket

(* A step that moves no row and changes no claimed call is invisible.      *)
LEMMA Invisible ==
    ASSUME UNCHANGED <<rows, epoch>>, ClaimTickets' = ClaimTickets
    PROVE  UNCHANGED C!vars
BY DEF C!vars

(* A call that moves on inside execute keeps its ticket.                   *)
LEMMA CallMovesOn ==
    ASSUME NEW e \in execs, NEW f, Become(e, f), f.claimed = e.claimed, Ticket(f) = Ticket(e)
    PROVE  ClaimTickets' = ClaimTickets
BY TicketsOf DEF Become, ClaimTickets, Ticket

(* A row that advances while the calls stay is a claim nobody runs.        *)
LEMMA RowAdvances ==
    ASSUME IInv, NEW j \in Jobs, NEW t \in Nat, rows[j] # NoRow, rows[j].next < t,
           MoveRow(j, t), UNCHANGED <<epoch, execs>>
    PROVE  C!Next
<1>1. /\ NextTimes' = [NextTimes EXCEPT ![j] = t] /\ NextTimes'[j] = t /\ NextTimes[j] = rows[j].next
  BY MoveRowType DEF NextTimes
<1>2. ClaimTickets' = ClaimTickets
  BY DEF ClaimTickets
<1>3. NextTimes'[j] \in Nat
  BY <1>1
<1>4. C!AdvanceOnly(j, NextTimes'[j])
  BY <1>1, <1>2 DEF C!AdvanceOnly, NextTimes
<1>5. QED
  BY <1>3, <1>4, Zenon DEF C!Next, NextTimes

(* EnsureJob inserts a row or leaves its fire time alone.                  *)
LEMMA EnsureImplements ==
    ASSUME IInv, NEW n \in Nodes, NEW j \in Jobs, EnsureJob(n, j)
    PROVE  C!Next \/ UNCHANGED C!vars
<1>1. j \in DOMAIN Registry[n] /\ now[n] \in Nat /\ rows \in [Jobs -> Rows]
  BY DEF IInv, TypeOK, LoopInv, EnsureJob
<1>2. FirstFire(n, j, now[n]) \in Nat
  BY <1>1, RegisteredSchedule, NextFireIsLater DEF FirstFire
<1>3. epoch' = epoch /\ execs' = execs /\ ClaimTickets' = ClaimTickets
  BY DEF EnsureJob, ClaimTickets
<1>4. CASE rows[j] = NoRow
  <2>1. /\ NextTimes' = [NextTimes EXCEPT ![j] = FirstFire(n, j, now[n])]
        /\ NextTimes'[j] = FirstFire(n, j, now[n]) /\ NextTimes[j] = 0
    <3> DEFINE row == [next |-> FirstFire(n, j, now[n]), sched |-> Registry[n][j].schedule]
    <3>1. rows' = [rows EXCEPT ![j] = row]
      BY <1>4 DEF EnsureJob
    <3>2. row.next = FirstFire(n, j, now[n]) /\ rows[j].next = 0
      BY <1>4 DEF NoRow, ZeroTime
    <3> HIDE DEF row
    <3>3. QED
      BY <1>1, <3>1, <3>2 DEF NextTimes
  <2>2. NextTimes'[j] \in Nat
    BY <1>2, <2>1
  <2>3. C!Ensure(j, NextTimes'[j])
    BY <1>3, <2>1 DEF C!Ensure, NextTimes
  <2>4. QED
    BY <2>2, <2>3, Zenon DEF C!Next, NextTimes
<1>5. CASE rows[j] # NoRow
  <2>1. NextTimes' = NextTimes
    BY <1>1, <1>5 DEF EnsureJob, NextTimes
  <2>2. QED
    BY <1>3, <2>1 DEF C!vars, NextTimes
<1>6. QED
  BY <1>4, <1>5

(* ScheduleRetry moves a row back or not at all.                           *)
LEMMA PullBackImplements ==
    ASSUME IInv, NEW j \in Jobs, NEW t \in Nat, PullBack(j, t), ClaimTickets' = ClaimTickets
    PROVE  C!Next \/ UNCHANGED C!vars
<1>1. CASE t < rows[j].next
  <2>1. rows[j] # NoRow
    BY <1>1 DEF NoRow, ZeroTime
  <2>2. MoveRow(j, t) /\ epoch' = [epoch EXCEPT ![j] = @ + 1]
    BY <1>1 DEF PullBack
  <2>3. /\ NextTimes' = [NextTimes EXCEPT ![j] = t] /\ NextTimes'[j] = t /\ NextTimes[j] = rows[j].next
    BY <2>1, <2>2, MoveRowType DEF NextTimes
  <2>4. NextTimes'[j] \in Nat
    BY <2>3
  <2>5. C!PullBack(j, NextTimes'[j])
    BY <1>1, <2>2, <2>3 DEF C!PullBack, NextTimes
  <2>6. QED
    BY <2>4, <2>5, Zenon DEF C!Next, NextTimes
<1>2. CASE ~ (t < rows[j].next)
  BY <1>2, Invisible DEF PullBack
<1>3. QED
  BY <1>1, <1>2

(* A won ClaimJob hands out one ticket.                                    *)
LEMMA ClaimImplements ==
    ASSUME IInv, NEW n \in Nodes, NEW j \in Jobs, NEW f \in Nat, NEW t \in Nat,
           rows[j] # NoRow, rows[j].next < t, MoveRow(j, t), UNCHANGED epoch,
           execs' = execs \cup {NewExec(n, j, f, t, TRUE)}
    PROVE  C!Next
<1> DEFINE e == NewExec(n, j, f, t, TRUE)
<1>0. PICK x : x = Ticket(e)
  OBVIOUS
<1>1. /\ x.job = j /\ x.target = t /\ x.epoch = epoch[j] /\ e.claimed
      /\ x \in C!Tickets
  BY <1>0 DEF NewExec, Ticket, C!Tickets, IInv, TypeOK
<1>2. ClaimTickets' = ClaimTickets \cup {x}
  <2>1. ClaimTickets' = {Ticket(y) : y \in {z \in execs' : z.claimed}}
    BY DEF ClaimTickets, Ticket
  <2>2. e.claimed /\ execs' = execs \cup {e}
    BY <1>1
  <2> HIDE DEF e
  <2>3. {z \in execs' : z.claimed} = {z \in execs : z.claimed} \cup {e}
    BY <2>2
  <2>4. QED
    BY <1>0, <2>1, <2>3, TicketsOf
<1>3. /\ NextTimes' = [NextTimes EXCEPT ![j] = t] /\ NextTimes[j] = rows[j].next
  BY MoveRowType DEF NextTimes
<1> HIDE DEF e
<1>4. C!Claim(x)
  BY <1>1, <1>2, <1>3 DEF C!Claim, NextTimes
<1>5. x \in ClaimTickets' /\ x \in C!Tickets
  BY <1>1, <1>2
<1>6. QED
  BY <1>4, <1>5, Zenon DEF C!Next

(* The end of handlers, by RecordRun or with their process.                *)
LEMMA EndImplements ==
    ASSUME UNCHANGED <<rows, epoch>>, execs' \subseteq execs
    PROVE  C!Next
<1>1. ClaimTickets' \subseteq ClaimTickets
  BY DEF ClaimTickets
<1>2. C!Finish
  BY <1>1 DEF C!Finish
<1>3. QED
  BY <1>2, Zenon DEF C!Next

(* The second half of ClaimJob, for both of its uses.                      *)
LEMMA ClaimJobImplements ==
    ASSUME IInv, NEW n \in Nodes, ClaimJob(n) \/ AdvanceRow(n)
    PROVE  C!Next \/ UNCHANGED C!vars
<1>1. due[n] # << >>
  BY DEF ClaimJob, AdvanceRow, IInv, LoopInv
<1>2. /\ Dj(n).job \in Jobs /\ Dj(n).next \in Nat /\ Target(n) \in Nat
      /\ rows[Dj(n).job] # NoRow
  BY <1>1, HeadType DEF DueJobs
<1>3. PICK j \in Jobs, f \in Nat, t \in Nat : j = Dj(n).job /\ f = Dj(n).next /\ t = Target(n)
  BY <1>2
<1>4. /\ UNCHANGED epoch
      /\ \/ UNCHANGED <<rows, execs>>
         \/ Advances(n) /\ MoveRow(j, t) /\ UNCHANGED execs
         \/ Advances(n) /\ MoveRow(j, t) /\ execs' = execs \cup {NewExec(n, j, f, t, TRUE)}
  BY <1>3 DEF ClaimJob, AdvanceRow
<1>5. rows[j] # NoRow /\ (Advances(n) => rows[j].next < t)
  BY <1>2, <1>3 DEF Advances
<1>6. CASE UNCHANGED <<rows, execs>>
  BY <1>4, <1>6, Invisible DEF ClaimTickets
<1>7. CASE Advances(n) /\ MoveRow(j, t) /\ UNCHANGED execs
  BY <1>4, <1>5, <1>7, RowAdvances
<1>8. CASE Advances(n) /\ MoveRow(j, t) /\ execs' = execs \cup {NewExec(n, j, f, t, TRUE)}
  BY <1>4, <1>5, <1>8, ClaimImplements
<1>9. QED
  BY <1>4, <1>6, <1>7, <1>8

(* A replayed fire and the steps of a handler issue no ticket.             *)
LEMMA ReplayImplements ==
    ASSUME IInv, NEW n \in Nodes, executeAtFire(n)
    PROVE  UNCHANGED C!vars
<1> DEFINE e == NewExec(n, Dj(n).job, Head(fires[n]), Head(fires[n]), FALSE)
<1>1. e.claimed = FALSE
  BY DEF NewExec
<1>2. execs' = execs \cup {e} /\ UNCHANGED <<rows, epoch>>
  BY DEF executeAtFire, storageVars
<1> HIDE DEF e
<1>3. {x \in execs' : x.claimed} = {x \in execs : x.claimed}
  BY <1>1, <1>2
<1>4. ClaimTickets' = ClaimTickets
  BY <1>3 DEF ClaimTickets
<1>5. QED
  BY <1>2, <1>4, Invisible

(* Handler steps that touch no row are invisible to the claim protocol.    *)
LEMMA HandlerImplements ==
    ASSUME IInv, NEW e \in execs, StartHandler(e) \/ HandlerReturns(e)
    PROVE  UNCHANGED C!vars
<1>1. e \in Execs
  BY DEF IInv, TypeOK
<1>2. \E f : Become(e, f) /\ f.claimed = e.claimed /\ Ticket(f) = Ticket(e)
  <2>1. CASE StartHandler(e)
    <3> DEFINE f == [e EXCEPT !.pc = "running", !.attempt = attempts[e.node][e.job] + 1]
    <3>1. f.claimed = e.claimed /\ Ticket(f) = Ticket(e)
      BY <1>1 DEF Execs, Call, Ticket
    <3>2. QED
      BY <2>1, <3>1 DEF StartHandler
  <2>2. CASE HandlerSucceeds(e)
    <3> DEFINE f == [e EXCEPT !.pc = "record", !.outcome = "success"]
    <3>1. f.claimed = e.claimed /\ Ticket(f) = Ticket(e)
      BY <1>1 DEF Execs, Call, Ticket
    <3>2. QED
      BY <2>2, <3>1 DEF HandlerSucceeds
  <2>3. CASE HandlerFails(e)
    <3> DEFINE f == [e EXCEPT !.pc = "retry", !.outcome = "failed"]
               g == [e EXCEPT !.pc = "record", !.outcome = "dead-letter"]
    <3>1. /\ f.claimed = e.claimed /\ Ticket(f) = Ticket(e)
          /\ g.claimed = e.claimed /\ Ticket(g) = Ticket(e)
      BY <1>1 DEF Execs, Call, Ticket
    <3>2. Become(e, f) \/ Become(e, g)
      BY <2>3 DEF HandlerFails
    <3> HIDE DEF f, g
    <3>3. QED
      BY <3>1, <3>2
  <2>4. QED
    BY <2>1, <2>2, <2>3 DEF HandlerReturns
<1>3. ClaimTickets' = ClaimTickets
  BY <1>2, CallMovesOn
<1>4. QED
  BY <1>3, Invisible DEF StartHandler, HandlerReturns, HandlerSucceeds, HandlerFails, storageVars

(* ScheduleRetry is a PullBack of the claim protocol, or invisible to it.  *)
LEMMA ScheduleRetryImplements ==
    ASSUME IInv, Registered, NEW e \in execs, ScheduleRetry(e)
    PROVE  C!Next \/ UNCHANGED C!vars
<1>1. e \in Execs /\ e.node \in Nodes /\ e.job \in Jobs
  BY DEF IInv, TypeOK, Execs, Call
<1>2. ClaimTickets' = ClaimTickets
  <2> DEFINE f == [e EXCEPT !.pc = "record"]
  <2>1. f.claimed = e.claimed /\ Ticket(f) = Ticket(e)
    BY <1>1 DEF Execs, Call, Ticket
  <2>2. Become(e, f)
    BY DEF ScheduleRetry
  <2>3. QED
    BY <2>1, <2>2, CallMovesOn
<1>3. CASE UNCHANGED <<rows, epoch>>
  BY <1>2, <1>3, Invisible
<1>4. CASE \E b \in computeBackoff(RetryPolicy(e), e.attempt) : PullBack(e.job, Clock(e.node) + b)
  <2>1. PICK b \in computeBackoff(RetryPolicy(e), e.attempt) : PullBack(e.job, Clock(e.node) + b)
    BY <1>4
  <2>2. PICK t \in Nat : t = Clock(e.node) + b
    <3>1. b \in Nat /\ Clock(e.node) \in Nat
      BY <1>1, BackoffType, ClockType DEF IInv
    <3> QED
      BY <3>1
  <2>3. PullBack(e.job, t)
    BY <2>1, <2>2 DEF PullBack, MoveRow
  <2>4. QED
    BY <1>1, <1>2, <2>3, PullBackImplements
<1>5. QED
  BY <1>3, <1>4 DEF ScheduleRetry

----------------------------------------------------------------------------
(* Every step of the cluster is a step of the claim protocol or invisible  *)
(* to it.                                                                  *)
LEMMA StepImplements == IInv /\ Registered /\ [Next]_vars => [C!Next]_(C!vars)
<1> SUFFICES ASSUME IInv, Registered, [Next]_vars PROVE C!Next \/ UNCHANGED C!vars
  OBVIOUS
<1>1. ASSUME UNCHANGED <<rows, epoch, execs>> PROVE UNCHANGED C!vars
  BY <1>1, Invisible DEF ClaimTickets
<1>2. ASSUME NEW n \in Nodes, LoopStep(n) PROVE C!Next \/ UNCHANGED C!vars
  <2>1. CASE Run(n) \/ EnsureFails(n) \/ Ignore(n) \/ BeginClaim(n) \/ StartReplay(n) \/ EndReplay(n) \/ Stop(n)
    BY <1>1, <2>1 DEF Run, EnsureFails, Ignore, BeginClaim, LockForClaim, StartReplay, EndReplay,
       Stop, storageVars
  <2>2. ASSUME NEW j \in Jobs, EnsureJob(n, j) PROVE C!Next \/ UNCHANGED C!vars
    BY <2>2, EnsureImplements
  <2>3. CASE ClaimJob(n) \/ AdvanceRow(n)
    BY <2>3, ClaimJobImplements
  <2>4. CASE executeAtFire(n)
    BY <2>4, ReplayImplements
  <2>5. CASE Exit(n)
    BY <2>5, EndImplements DEF Exit, Gone
  <2>6. QED
    BY <1>2, <2>1, <2>2, <2>3, <2>4, <2>5 DEF LoopStep
<1>3. ASSUME NEW n \in Nodes, maybeRenewLeader(n) \/ tick(n) \/ Drain(n) \/ Cancel(n) \/ LoseConnection(n)
      PROVE  UNCHANGED C!vars
  BY <1>1, <1>3 DEF maybeRenewLeader, tick, Drain, Cancel, LoseConnection, storageVars
<1>4. ASSUME NEW n \in Nodes, Crash(n) PROVE C!Next
  BY <1>4, EndImplements DEF Crash, Gone
<1>5. ASSUME NEW e \in execs, ExecStep(e) \/ HandlerReturns(e) PROVE C!Next \/ UNCHANGED C!vars
  <2>1. CASE RecordRun(e)
    BY <2>1, EndImplements DEF RecordRun
  <2>2. QED
    BY <1>5, <2>1, HandlerImplements, ScheduleRetryImplements DEF ExecStep
<1>6. CASE AdvanceClock \/ UNCHANGED vars
  BY <1>1, <1>6 DEF AdvanceClock, vars, storageVars
<1>7. QED
  BY <1>2, <1>3, <1>4, <1>5, <1>6 DEF Next

(* The cluster implements the claim protocol: whatever the nodes do, rows  *)
(* move and handlers are started only as Claims allows.                    *)
THEOREM DispatcherImplementsClaims == Spec => ImplementsClaims
<1>1. Init => C!Init
  <2> SUFFICES ASSUME Init PROVE C!Init
    OBVIOUS
  <2>1. ClaimTickets = {}
    BY DEF Init, ClaimTickets
  <2>2. [j \in Jobs |-> rows[j].next] = [j \in Jobs |-> 0]
    BY DEF Init, NoRow, ZeroTime
  <2>3. QED
    BY <2>1, <2>2 DEF C!Init, Init
<1>2. QED
  BY <1>1, InitInv, NextInv, StepImplements, PTL DEF Spec, ImplementsClaims, C!Spec

----------------------------------------------------------------------------
CP == INSTANCE ClaimsProofs WITH next <- [j \in Jobs |-> rows[j].next], live <- ClaimTickets

(* At most one handler in the cluster runs on a claim of a window, for     *)
(* every number of nodes and jobs: inherited from the claim protocol.      *)
THEOREM OneHandlerPerWindowHolds == Spec => []OneHandlerPerWindow
<1>1. CP!Spec => []CP!OneClaimPerWindow
  BY CP!OneClaimPerWindowHolds
<1>2. C!Spec => CP!Spec
  <2>1. C!Init => CP!Init
    BY DEF C!Init, CP!Init
  <2>2. [C!Next]_(C!vars) => [CP!Next]_(CP!vars)
    BY DEF C!Next, CP!Next, C!vars, CP!vars, C!Ensure, CP!Ensure, C!AdvanceOnly, CP!AdvanceOnly,
       C!PullBack, CP!PullBack, C!Claim, CP!Claim, C!Finish, CP!Finish, C!Tickets, CP!Tickets
  <2>3. QED
    BY <2>1, <2>2, PTL DEF C!Spec, CP!Spec
<1>3. C!OneClaimPerWindow <=> CP!OneClaimPerWindow
  BY DEF C!OneClaimPerWindow, CP!OneClaimPerWindow
<1>4. QED
  BY <1>1, <1>2, <1>3, DispatcherImplementsClaims, PTL DEF ImplementsClaims, OneHandlerPerWindow
=============================================================================
