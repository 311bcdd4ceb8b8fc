------------------------------- MODULE Claims -------------------------------
(***************************************************************************)
(* What Storage promises the dispatcher about next_fire_time (the comments *)
(* of ClaimJob and ScheduleRetry in storage.go), without transactions,     *)
(* locks, ticks or clocks.  MemoryStorage does each operation in one step  *)
(* under its mutex, as here.                                               *)
(*                                                                         *)
(* A successful ClaimJob(job, target) hands its caller a ticket: the right *)
(* to run the handler once.  Only a retry moves a row backwards; `epoch`   *)
(* counts those moves, so that (job, epoch, target) names one window.      *)
(***************************************************************************)
EXTENDS Integers

CONSTANTS Nodes, Jobs

VARIABLES next,    \* job -> next_fire_time of its row, 0 while there is none
          epoch,   \* job -> how often a retry pulled the row back
          live     \* tickets of handlers that have not ended yet
vars == <<next, epoch, live>>

Tickets == [job : Jobs, owner : Nodes, fire : Nat, target : Nat, epoch : Nat]

TypeOK == /\ next \in [Jobs -> Nat]
          /\ epoch \in [Jobs -> Nat]
          /\ live \subseteq Tickets

Init == /\ next = [j \in Jobs |-> 0]
        /\ epoch = [j \in Jobs |-> 0]
        /\ live = {}

\* EnsureJob inserts a row; on a conflict it keeps the fire time.
Ensure(j, t) ==
    /\ next[j] = 0
    /\ next' = [next EXCEPT ![j] = t]
    /\ UNCHANGED <<epoch, live>>

\* ClaimJob advances the row and its caller runs the handler.
Claim(x) ==
    /\ x.epoch = epoch[x.job]
    /\ next[x.job] < x.target
    /\ next' = [next EXCEPT ![x.job] = x.target]
    /\ live' = live \cup {x}
    /\ UNCHANGED epoch

\* ClaimJob advances the row and nobody runs: a skipped window, the end of
\* a replay, or a commit whose answer was lost.
AdvanceOnly(j, t) ==
    /\ next[j] < t
    /\ next' = [next EXCEPT ![j] = t]
    /\ UNCHANGED <<epoch, live>>

\* ScheduleRetry.
PullBack(j, t) ==
    /\ t < next[j]
    /\ next' = [next EXCEPT ![j] = t]
    /\ epoch' = [epoch EXCEPT ![j] = @ + 1]
    /\ UNCHANGED live

\* Handlers end, or die with their process.
Finish ==
    /\ live' \subseteq live
    /\ UNCHANGED <<next, epoch>>

\* Fire times and tickets are arbitrary; the new state shows which they are,
\* so no infinite set has to be searched for them.
Next == \/ \E j \in Jobs : LET t == next'[j]
                           IN  t \in Nat /\ (Ensure(j, t) \/ AdvanceOnly(j, t) \/ PullBack(j, t))
        \/ \E x \in live' : x \in Tickets /\ Claim(x)
        \/ Finish

Spec == Init /\ [][Next]_vars

----------------------------------------------------------------------------
(* With the strict comparison of ClaimJob only the first advance to a      *)
(* value wins (storage.go:203-205): between two retries of a job no two    *)
(* handlers run on a claim of the same window, whichever nodes they are on *)
(* and however late their claims arrive.                                   *)
OneClaimPerWindow ==
    \A x, y \in live : x.job = y.job /\ x.epoch = y.epoch /\ x.target = y.target => x = y

\* The row has reached every window that was handed out since the last retry.
ClaimedWindowsPassed ==
    \A x \in live : /\ x.epoch <= epoch[x.job]
                    /\ x.epoch = epoch[x.job] => x.target <= next[x.job]

ClaimsInv == TypeOK /\ ClaimedWindowsPassed /\ OneClaimPerWindow
=============================================================================
