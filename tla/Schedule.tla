------------------------------ MODULE Schedule ------------------------------
(***************************************************************************)
(* The pure part of sundial: schedules (schedule.go, cron.go), the         *)
(* missed-fire iterator (iterateSchedule) and the retry backoff            *)
(* (computeBackoff in dispatcher.go).                                      *)
(*                                                                         *)
(* An instant is a natural number.  ZeroTime is Go's zero time.Time, which *)
(* Schedule.Next returns for "no further fire".  A cron schedule is the    *)
(* set of instants its expression matches: the parser is a library.        *)
(***************************************************************************)
EXTENDS Integers, Sequences, FiniteSetsExt

ZeroTime == 0
Instant == Nat \ {ZeroTime}

Schedules == [kind : {"every"}, d : Instant]
       \cup  [kind : {"at"}, t : Instant]
       \cup  [kind : {"cron"}, fires : SUBSET Instant]

----------------------------------------------------------------------------
(* Schedule.Next: the first fire strictly after `after`, or ZeroTime.      *)

EveryNext(s, after) == after + s.d

AtNext(s, after) == IF s.t > after THEN s.t ELSE ZeroTime

\* robfig/cron's Next: the first instant the expression matches, or none.
RobfigNext(fires, after) ==
    LET later == {t \in fires : t > after}
    IN  IF later = {} THEN ZeroTime ELSE Min(later)

CronNext(s, after) == RobfigNext(s.fires, after)

\* The schedule is loaded from the row by its kind.
computeNextFire(s, after) ==
    IF s.kind = "every" THEN EveryNext(s, after)
    ELSE IF s.kind = "at" THEN AtNext(s, after)
    ELSE CronNext(s, after)

----------------------------------------------------------------------------
(* iterateSchedule: repeated calls of Next from `from`, stopping at the    *)
(* first zero, at the first instant that is not before `until`, or after   *)
(* `limit` entries.                                                        *)

\* The i-th call of Next in the iterator's loop.
IteratedNext(s, from) ==
    LET fire[i \in Nat] == IF i = 0 THEN from ELSE computeNextFire(s, fire[i-1])
    IN  fire

\* Mutant: `until` itself is replayed although the regular tick claims it.
iterateThroughUntil(s, from, until, limit) ==
    LET fire == IteratedNext(s, from)
        returns(i) == fire[i] = ZeroTime \/ fire[i] > until
        len == Min({k \in 0..limit : k = limit \/ returns(k+1)})
    IN  IF limit <= 0 \/ from >= until THEN << >> ELSE [i \in 1..len |-> fire[i]]

iterateSchedule(s, from, until, limit) ==
    LET fire == IteratedNext(s, from)
        returns(i) == fire[i] = ZeroTime \/ fire[i] >= until
        len == Min({k \in 0..limit : k = limit \/ returns(k+1)})
    IN  IF limit <= 0 \/ from >= until THEN << >> ELSE [i \in 1..len |-> fire[i]]

----------------------------------------------------------------------------
(* Retry policies and computeBackoff: exponential growth clamped to max,   *)
(* times a jitter in [0.5, 1.5), truncated to a whole duration.  The       *)
(* result is the set of delays the jitter can produce.  A multiplier is a  *)
(* fraction.                                                               *)

\* What a caller may write.
RawPolicies == [maxAttempts : Int, initial : Int, max : Int,
                multiplier : [num : Int, den : Nat \ {0}]]

\* The policies that make sense: every field is positive.
RetryPolicies == [maxAttempts : Nat \ {0}, initial : Nat \ {0}, max : Nat \ {0},
                  multiplier : [num : Nat \ {0}, den : Nat \ {0}]]

\* math.Pow for whole numbers.
Pow(m, k) ==
    LET power[i \in Nat] == IF i = 0 THEN 1 ELSE m * power[i-1]
    IN  power[k]

\* x/q times the jitter: time.Duration truncates towards zero.
Jittered(x, q) ==
    IF x = 0 THEN {0}
    ELSE IF x > 0 THEN (x \div (2 * q)) .. ((3 * x - 1) \div (2 * q))
    ELSE {-b : b \in ((-x) \div (2 * q)) .. ((3 * (-x) - 1) \div (2 * q))}

\* The exponential law: the delay Grown(r, attempt) / Scale(r, attempt).
Exponent(attempt) == (IF attempt < 1 THEN 1 ELSE attempt) - 1
Grown(r, attempt) == r.initial * Pow(r.multiplier.num, Exponent(attempt))
Scale(r, attempt) == Pow(r.multiplier.den, Exponent(attempt))

\* Mutant: the clamp to MaxBackoff is dropped.
backoffUnclamped(r, attempt) == Jittered(Grown(r, attempt), Scale(r, attempt))

computeBackoff(r, attempt) ==
    LET grown == Grown(r, attempt)
        limit == r.max * Scale(r, attempt)
    IN  Jittered(IF grown > limit THEN limit ELSE grown, Scale(r, attempt))
=============================================================================
