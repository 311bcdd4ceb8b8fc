------------------------------- MODULE Leader -------------------------------
(***************************************************************************)
(* PostgresLeader (leader.go): the cluster leader is the session that      *)
(* holds one advisory lock.  `owner` is the server's view of that lock,    *)
(* `held[n]` the flag node n caches.  TryAcquire never asks the server     *)
(* again once the flag is set, so the two can disagree.                    *)
(***************************************************************************)
CONSTANTS Nodes, NoNode

ASSUME NoNodeAssumption == NoNode \notin Nodes

VARIABLES held,   \* node -> PostgresLeader.held
          owner   \* the session that holds the sentinel advisory lock, or NoNode
leaderVars == <<held, owner>>

LeaderTypeOK == held \in [Nodes -> BOOLEAN] /\ owner \in Nodes \cup {NoNode}

LeaderInit == held = [n \in Nodes |-> FALSE] /\ owner = NoNode

IsLeader(n) == held[n]

\* Mutant: the answer of pg_try_advisory_lock is not looked at.
TryAcquireBlindly(n) ==
    /\ held' = [held EXCEPT ![n] = TRUE]
    /\ owner' = IF owner = NoNode THEN n ELSE owner

\* Already leader: the cached flag decides.  Else ask for the lock.
TryAcquire(n) ==
    IF held[n] \/ owner # NoNode
    THEN UNCHANGED leaderVars
    ELSE held' = [held EXCEPT ![n] = TRUE] /\ owner' = n

Release(n) ==
    /\ held' = [held EXCEPT ![n] = FALSE]
    /\ owner' = IF owner = n THEN NoNode ELSE owner

\* pg_advisory_unlock fails: the flag is cleared and the connection goes back
\* to the pool, where its session still holds the lock.
ReleaseFails(n) ==
    /\ held[n]
    /\ held' = [held EXCEPT ![n] = FALSE]
    /\ UNCHANGED owner

\* The pinned connection dies: the server frees the lock, the flag stays.
ConnectionLost(n) ==
    /\ owner = n
    /\ owner' = NoNode
    /\ UNCHANGED held
=============================================================================
