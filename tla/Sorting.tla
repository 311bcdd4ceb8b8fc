------------------------------ MODULE Sorting ------------------------------
(***************************************************************************)
(* The two hand-written insertion sorts: MemoryStorage.FetchDue            *)
(* (storage.go) and Scheduler.Jobs (sundial.go).  Both start from a Go     *)
(* map, whose order is arbitrary: here, a sequence in any order.  Names    *)
(* are numbers, for their order.                                           *)
(***************************************************************************)
EXTENDS Integers, Sequences, SequencesExt

\* Mutant: the inner loop never moves a name to the first place.
InsertNameBelow(sorted, x) ==
    InsertAt(sorted, 1 + Max({0} \cup {k \in DOMAIN sorted : k = 1 \/ sorted[k] <= x}), x)

\* One turn of the outer loop of Scheduler.Jobs: x moves down past every
\* greater name.
InsertName(sorted, x) ==
    InsertAt(sorted, 1 + Max({0} \cup {k \in DOMAIN sorted : sorted[k] <= x}), x)

\* Scheduler.Jobs on the names in the map's order.
Jobs(names) == FoldLeft(InsertName, << >>, names)

----------------------------------------------------------------------------
\* The order of FetchDue: next_fire_time, then name.
DueAfter(a, b) == a.next > b.next \/ (a.next = b.next /\ a.name > b.name)

\* One turn of the outer loop of FetchDue.
InsertDue(sorted, x) ==
    InsertAt(sorted, 1 + Max({0} \cup {k \in DOMAIN sorted : ~ DueAfter(sorted[k], x)}), x)

Limit(limit) == IF limit <= 0 THEN 32 ELSE limit

Truncate(q, limit) == SubSeq(q, 1, Min({Len(q), limit}))

\* The loop over the map: the rows whose fire time is not after now.
DueRows(jobs, now) ==
    LET collect(out, j) == IF j.next <= now THEN Append(out, j) ELSE out
    IN  FoldLeft(collect, << >>, jobs)

\* The nested loops of FetchDue.
SortDue(rows) == FoldLeft(InsertDue, << >>, rows)

\* Mutant: the limit is applied while the map is read.
FetchDueTruncated(jobs, now, limit) == SortDue(Truncate(DueRows(jobs, now), Limit(limit)))

\* MemoryStorage.FetchDue on the rows in the map's order.
FetchDue(jobs, now, limit) == Truncate(SortDue(DueRows(jobs, now)), Limit(limit))
=============================================================================
