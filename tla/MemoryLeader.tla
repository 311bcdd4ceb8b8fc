---------------------------- MODULE MemoryLeader ----------------------------
(***************************************************************************)
(* MemoryLeader (leader.go): the in-process leader lock.  `Leaders` are    *)
(* the values NewMemoryLeader returned; one value may be given to several  *)
(* schedulers, which then share both of its fields: a call of any of them  *)
(* speaks for all.                                                         *)
(***************************************************************************)
CONSTANTS Schedulers,  \* node ids, one scheduler each
          Leaders,     \* MemoryLeader values
          NoNode       \* the empty string

ASSUME NoNodeAssumption == NoNode \notin Schedulers

VARIABLES holder,  \* leader -> MemoryLeader.holder
          myID     \* leader -> MemoryLeader.myID
leaderVars == <<holder, myID>>

LeaderTypeOK == /\ holder \in [Leaders -> Schedulers \cup {NoNode}]
                /\ myID \in [Leaders -> Schedulers \cup {NoNode}]

LeaderInit == /\ holder = [l \in Leaders |-> NoNode]
              /\ myID = [l \in Leaders |-> NoNode]

\* The answer does not depend on who asks.
IsLeader(l) == myID[l] # NoNode /\ holder[l] = myID[l]

\* Free, or held by the same node: take it.  Held by another: no change.
TryAcquire(l, s) ==
    IF holder[l] \in {NoNode, s}
    THEN holder' = [holder EXCEPT ![l] = s] /\ myID' = [myID EXCEPT ![l] = s]
    ELSE UNCHANGED leaderVars

\* Mutant: only the caller's own mark is cleared.
ReleaseMark(l) == myID' = [myID EXCEPT ![l] = NoNode] /\ UNCHANGED holder

Release(l) ==
    /\ holder' = [holder EXCEPT ![l] = IF @ = myID[l] THEN NoNode ELSE @]
    /\ myID' = [myID EXCEPT ![l] = NoNode]
=============================================================================
