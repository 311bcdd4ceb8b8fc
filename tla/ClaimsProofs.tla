---------------------------- MODULE ClaimsProofs ----------------------------
(***************************************************************************)
(* The claim protocol of Claims is safe for every set of nodes and jobs.   *)
(***************************************************************************)
EXTENDS Claims, TLAPS

(* Every step of the claim protocol keeps the row ahead of the tickets of  *)
(* its epoch, and so keeps tickets of one window apart.                    *)
LEMMA ClaimsStep == ClaimsInv /\ [Next]_vars => ClaimsInv'
<1> SUFFICES ASSUME ClaimsInv, [Next]_vars PROVE ClaimsInv'
  OBVIOUS
<1> USE DEF ClaimsInv
<1>1. ASSUME NEW j \in Jobs, NEW t \in Nat, Ensure(j, t) PROVE ClaimsInv'
  BY <1>1 DEF Ensure, TypeOK, ClaimedWindowsPassed, OneClaimPerWindow, Tickets
<1>2. ASSUME NEW j \in Jobs, NEW t \in Nat, AdvanceOnly(j, t) PROVE ClaimsInv'
  BY <1>2 DEF AdvanceOnly, TypeOK, ClaimedWindowsPassed, OneClaimPerWindow, Tickets
<1>3. ASSUME NEW j \in Jobs, NEW t \in Nat, PullBack(j, t) PROVE ClaimsInv'
  BY <1>3 DEF PullBack, TypeOK, ClaimedWindowsPassed, OneClaimPerWindow, Tickets
<1>4. ASSUME NEW x \in Tickets, Claim(x) PROVE ClaimsInv'
  <2>1. TypeOK'
    BY <1>4 DEF Claim, TypeOK, Tickets
  <2>2. ClaimedWindowsPassed'
    BY <1>4 DEF Claim, TypeOK, ClaimedWindowsPassed, Tickets
  <2>3. \A y \in live : ~ (y.job = x.job /\ y.epoch = x.epoch /\ y.target = x.target)
    BY <1>4 DEF Claim, TypeOK, ClaimedWindowsPassed, Tickets
  <2>4. OneClaimPerWindow'
    BY <1>4, <2>3 DEF Claim, OneClaimPerWindow
  <2>5. QED
    BY <2>1, <2>2, <2>4
<1>5. CASE Finish
  BY <1>5 DEF Finish, TypeOK, ClaimedWindowsPassed, OneClaimPerWindow
<1>6. CASE UNCHANGED vars
  BY <1>6 DEF vars, TypeOK, ClaimedWindowsPassed, OneClaimPerWindow
<1>7. QED
  BY <1>1, <1>2, <1>3, <1>4, <1>5, <1>6 DEF Next

(* At most one live handler per claimed window, in every behaviour.        *)
THEOREM OneClaimPerWindowHolds == Spec => []OneClaimPerWindow
<1>1. Init => ClaimsInv
  BY DEF Init, ClaimsInv, TypeOK, ClaimedWindowsPassed, OneClaimPerWindow
<1>2. ClaimsInv => OneClaimPerWindow
  BY DEF ClaimsInv
<1>3. QED
  BY <1>1, <1>2, ClaimsStep, PTL DEF Spec
=============================================================================
