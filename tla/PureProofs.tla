----------------------------- MODULE PureProofs -----------------------------
(***************************************************************************)
(* The properties of MCPure for every value of its bounds: windows, caps,  *)
(* attempts, option lists and maps of any size.  The lemmas they rest on   *)
(* are about the operators of Schedule, Config and Sorting alone.          *)
(***************************************************************************)
EXTENDS MCPure, ScheduleProofs, FiniteSetTheorems

(* What a step of MCPure picks is an input of the operator it is for.      *)
InputOK ==
    /\ input.of = "window" =>
          input \in [of : {"window"}, sched : SmallSchedules, from : Times, until : Times,
                     limit : 0..MaxLimit]
    /\ input.of = "backoff" =>
          input.attempt \in Int /\ input.retry \in RawPolicies
    /\ input.of = "host" =>
          input \in [of : {"host"}, host : {Nil, "", "localhost", "web-1"},
                     env : {"", "localhost", "pod-1"}, canRead : BOOLEAN]
    /\ input.of = "new" =>
          input.schedOpts \in Seq(SomeOptions) /\ input.pool \in BOOLEAN
    /\ input.of = "rows" =>
          /\ input.names \in Seq(Nat)
          /\ \A i, k \in DOMAIN input.names : i # k => input.names[i] # input.names[k]
          /\ input.next \in [1..Len(input.names) -> Nat]
          /\ input.now \in Nat /\ input.limit \in Nat

(* The orders in which a map can be read.                                  *)
LEMMA NamesAreDistinct ==
    ASSUME NEW names \in SetToAllKPermutations(1..MaxRows)
    PROVE  names \in Seq(Nat) /\ \A i, k \in DOMAIN names : i # k => names[i] # names[k]
<1>1. PICK S \in SUBSET (1..MaxRows) : names \in SetToSeqs(S)
  BY DEF SetToAllKPermutations
<1>2. Cardinality(S) \in Nat
  <2>1. IsFiniteSet(1..MaxRows)
    BY BoundsAreNat, FS_Interval
  <2> QED
    BY <2>1, FS_Subset, FS_CardinalityType
<1>3. /\ names \in [1..Cardinality(S) -> S]
      /\ \A i, j \in 1..Cardinality(S) : i # j => names[i] # names[j]
  BY <1>1 DEF SetToSeqs
<1>4. \A x \in S : x \in Nat
  BY BoundsAreNat
<1>5. names \in [1..Cardinality(S) -> Nat]
  BY <1>3, <1>4
<1> QED
  BY <1>2, <1>3, <1>5

LEMMA InputIsOK == Spec => []InputOK
<1>1. Init => InputOK
  BY DEF Init, Nothing, InputOK
<1>2. InputOK /\ [Next]_input => InputOK'
  <2> SUFFICES ASSUME InputOK, [Next]_input PROVE InputOK'
    OBVIOUS
  <2>1. CASE PickWindow
    BY <2>1 DEF PickWindow, Pick, InputOK
  <2>3. CASE PickHost
    BY <2>3 DEF PickHost, Pick, InputOK
  <2>2. CASE PickBackoff
    <3>1. /\ input'.of = "backoff" /\ input'.attempt \in 0..MaxAttempt
          /\ input'.retry \in [maxAttempts : {0}, initial : {-1, 0, 2}, max : {-1, 0, 1, 5},
                                multiplier : [num : {-2, 0, 1, 3}, den : {1, 2}]]
      BY <2>2 DEF PickBackoff, Pick
    <3>2. input'.attempt \in Int /\ input'.retry \in RawPolicies
      BY <3>1, BoundsAreNat DEF RawPolicies
    <3> QED
      BY <3>1, <3>2 DEF InputOK
  <2>4. CASE PickRows
    <3>1. PICK names \in SetToAllKPermutations(1..MaxRows) :
             input' \in [of : {"rows"}, names : {names}, next : [1..Len(names) -> 1..3],
                         now : 0..3, limit : 0..MaxLimit]
      BY <2>4 DEF PickRows, Pick
    <3>2. /\ input'.of = "rows" /\ input'.names = names
          /\ input'.next \in [1..Len(names) -> 1..3]
          /\ input'.now \in 0..3 /\ input'.limit \in 0..MaxLimit
      BY <3>1
    <3>3. names \in Seq(Nat) /\ \A i, k \in DOMAIN names : i # k => names[i] # names[k]
      BY NamesAreDistinct
    <3>4. /\ input'.next \in [1..Len(names) -> Nat] /\ input'.now \in Nat /\ input'.limit \in Nat
      BY <3>2, BoundsAreNat
    <3> QED
      BY <3>2, <3>3, <3>4 DEF InputOK
  <2>6. CASE PickNew
    <3>1. /\ input'.of = "new" /\ input'.schedOpts \in SeqOf(SomeOptions, MaxOptions)
          /\ input'.pool \in BOOLEAN
      BY <2>6 DEF PickNew, Pick
    <3>2. SeqOf(SomeOptions, MaxOptions) \subseteq Seq(SomeOptions)
      BY BoundsAreNat DEF SeqOf
    <3> QED
      BY <3>1, <3>2 DEF InputOK
  <2>5. CASE Forget
    <3>1. input'.of = "nothing"
      BY <2>5 DEF Forget, Nothing
    <3> QED
      BY <3>1 DEF InputOK
  <2>7. CASE UNCHANGED input
    BY <2>7 DEF InputOK
  <2> QED
    BY <2>1, <2>2, <2>3, <2>4, <2>5, <2>6, <2>7 DEF Next
<1> QED
  BY <1>1, <1>2, PTL DEF Spec

----------------------------------------------------------------------------
(* Named is InstantsAfter as far as the bound on the instants lets it see. *)
LEMMA NamedIsInstants ==
    ASSUME NEW s \in SmallSchedules, NEW from \in Times
    PROVE  /\ s \in Schedules
           /\ Named(s, from) \subseteq InstantsAfter(s, from)
           /\ \A t \in InstantsAfter(s, from) : t <= MaxInstant => t \in Named(s, from)
<1>0. MaxInstant \in Nat
  BY BoundsAreNat
<1>1. CASE s \in [kind : {"every"}, d : Times]
  <2>1. /\ s.kind = "every" /\ s.d \in 1..MaxInstant /\ from \in 1..MaxInstant
    BY <1>1 DEF Times
  <2>2. s \in Schedules
    BY <1>0, <1>1 DEF Schedules, Instant, ZeroTime, Times
  <2>3. Named(s, from) = {t \in (from+1)..(2 * MaxInstant) : (t - from) % s.d = 0}
    BY <2>1 DEF Named
  <2>4. InstantsAfter(s, from) = {t \in Instant : t > from /\ (t - from) % s.d = 0}
    BY <2>1 DEF InstantsAfter
  <2> QED
    BY <1>0, <2>1, <2>2, <2>3, <2>4 DEF Instant, ZeroTime
<1>2. CASE s \in [kind : {"at"}, t : Times]
  <2>1. s.kind = "at" /\ s.t \in 1..MaxInstant /\ s \in Schedules /\ from \in 1..MaxInstant
    BY <1>0, <1>2 DEF Times, Schedules, Instant, ZeroTime
  <2> QED
    BY <1>0, <2>1 DEF Named, InstantsAfter, Instant, ZeroTime
<1>3. CASE s \in [kind : {"cron"}, fires : SUBSET Times]
  <2>1. s.kind = "cron" /\ s.fires \subseteq 1..MaxInstant /\ from \in 1..MaxInstant
    BY <1>3 DEF Times
  <2>2. s \in Schedules
    BY <1>0, <1>3 DEF Schedules, Instant, ZeroTime, Times
  <2>3. Named(s, from) = InstantsAfter(s, from)
    BY <1>0, <2>1 DEF Named, InstantsAfter, Instant, ZeroTime
  <2> QED
    BY <2>2, <2>3
<1> QED
  BY <1>1, <1>2, <1>3 DEF SmallSchedules

(* iterateSchedule (schedule.go:91-105) returns the oldest instants of the *)
(* window, all of them unless the cap is reached, whatever the bounds.     *)
THEOREM IterateIsWindowHolds == Spec => []IterateIsWindow
<1>1. InputOK => IterateIsWindow
  <2> SUFFICES ASSUME InputOK, input.of = "window" PROVE IterateIsWindow
    BY DEF IterateIsWindow
  <2> DEFINE out == iterateSchedule(input.sched, input.from, input.until, input.limit)
             inside == {t \in Named(input.sched, input.from) : t < input.until}
             window == {t \in InstantsAfter(input.sched, input.from) : t < input.until}
  <2>1. /\ input.sched \in SmallSchedules /\ input.from \in Times /\ input.until \in Times
        /\ input.limit \in Nat
    BY BoundsAreNat DEF InputOK
  <2>2. input.from \in Nat /\ input.until \in Nat /\ input.until <= MaxInstant /\ MaxInstant \in Nat
    BY <2>1, BoundsAreNat DEF Times
  <2>3. input.sched \in Schedules /\ inside = window
    BY <2>1, <2>2, NamedIsInstants DEF InstantsAfter, Instant
  <2>4. OldestInside(out, input.sched, input.from, input.until, input.limit)
    BY <2>1, <2>2, <2>3, IterateIsOldest
  <2>5. Len(out) <= input.limit
    BY <2>1, <2>2, <2>3, IterateLength
  <2> HIDE DEF out
  <2>6. /\ out \in Seq(window)
        /\ \A i, k \in DOMAIN out : i < k => out[i] < out[k]
        /\ \A t \in window : \/ \E i \in DOMAIN out : out[i] = t
                             \/ Len(out) = input.limit /\ \A i \in DOMAIN out : out[i] < t
    BY <2>4, Zenon DEF OldestInside
  <2> HIDE DEF inside, window
  <2>7. /\ \A i, k \in DOMAIN out : i < k => out[i] < out[k]
        /\ ToSet(out) \subseteq inside
        /\ Len(out) < input.limit => inside \subseteq ToSet(out)
        /\ Len(out) <= input.limit
        /\ \A t \in inside \ ToSet(out), i \in DOMAIN out : out[i] < t
    BY <2>1, <2>3, <2>5, <2>6 DEF ToSet
  <2> QED
    BY <2>7, Zenon DEF IterateIsWindow, inside, out
<1> QED
  BY <1>1, InputIsOK, PTL

----------------------------------------------------------------------------
(* withDefaults (job.go:101-117) replaces each zero by itself and keeps    *)
(* the rest.                                                               *)
LEMMA DefaultsOfPolicy ==
    ASSUME NEW r \in RawPolicies
    PROVE  LET d == withDefaults(r)
           IN  /\ d \in RawPolicies
               /\ d.initial = OrDefault(r.initial, 1000)
               /\ d.max = OrDefault(r.max, 300000)
               /\ d.multiplier = IF r.multiplier.num = 0 THEN [num |-> 2, den |-> 1]
                                 ELSE r.multiplier
<1> DEFINE Fractions == [num : Int, den : Nat \ {0}]
           P == [maxAttempts : Int, initial : Int, max : Int, multiplier : Fractions]
           times == IF r.multiplier.num = 0 THEN [num |-> 2, den |-> 1] ELSE r.multiplier
           r1 == [r EXCEPT !.maxAttempts = OrDefault(r.maxAttempts, 3)]
           r2 == [r1 EXCEPT !.initial = OrDefault(r1.initial, 1000)]
           r3 == [r2 EXCEPT !.max = OrDefault(r2.max, 300000)]
           r4 == [r3 EXCEPT !.multiplier =
                    IF r3.multiplier.num = 0 THEN [num |-> 2, den |-> 1] ELSE r3.multiplier]
<1>1. \A x, y \in Int : OrDefault(x, y) \in Int
  BY DEF OrDefault
<1>2. withDefaults(r) = r4
  BY DEF withDefaults
<1>3. r \in P /\ times \in Fractions
  BY DEF RawPolicies
<1> HIDE DEF Fractions
<1>4. /\ r1 \in P /\ r1.initial = r.initial /\ r1.max = r.max /\ r1.multiplier = r.multiplier
  BY <1>1, <1>3
<1> HIDE DEF r1
<1>5. /\ r2 \in P /\ r2.initial = OrDefault(r.initial, 1000) /\ r2.max = r.max
      /\ r2.multiplier = r.multiplier
  BY <1>1, <1>4
<1> HIDE DEF r2
<1>6. /\ r3 \in P /\ r3.max = OrDefault(r.max, 300000)
      /\ r3.initial = r2.initial /\ r3.multiplier = r.multiplier
  BY <1>1, <1>5
<1> HIDE DEF r3
<1>7. /\ r4 \in P /\ r4.multiplier = times
      /\ r4.initial = r3.initial /\ r4.max = r3.max
  BY <1>3, <1>6
<1> HIDE DEF r4, times
<1>8. P = RawPolicies
  BY DEF RawPolicies, Fractions
<1> QED
  BY <1>2, <1>5, <1>6, <1>7, <1>8 DEF times

(* A policy without a negative field has a positive law once its zeros are *)
(* replaced.                                                               *)
LEMMA LawPositive ==
    ASSUME NEW r \in RawPolicies, NEW attempt \in Int,
           r.initial >= 0, r.multiplier.num >= 0
    PROVE  Grown(withDefaults(r), attempt) > 0
<1> DEFINE d == withDefaults(r)
<1>1. r.initial \in Int /\ r.multiplier.num \in Int
  BY DEF RawPolicies
<1>2. /\ d.initial = OrDefault(r.initial, 1000)
      /\ d.multiplier = IF r.multiplier.num = 0 THEN [num |-> 2, den |-> 1] ELSE r.multiplier
  BY DefaultsOfPolicy
<1> HIDE DEF d
<1>3. d.initial \in Nat \ {0}
  BY <1>1, <1>2 DEF OrDefault
<1>4. d.multiplier.num \in Nat \ {0}
  BY <1>1, <1>2
<1>5. Exponent(attempt) \in Nat
  BY DEF Exponent
<1>6. Pow(d.multiplier.num, Exponent(attempt)) \in Nat \ {0}
  BY <1>4, <1>5, PowPositive, Zenon
<1>7. Grown(d, attempt) > 0
  BY <1>3, <1>6 DEF Grown
<1> QED
  BY <1>7 DEF d

(* The backoff of whatever policy the caller wrote (job.go:101-117,        *)
(* dispatcher.go:454-465), for every attempt: some delay is always         *)
(* possible, none reaches one and a half times MaxBackoff, and without     *)
(* negative fields none is less than half of the exponential law or of     *)
(* MaxBackoff, up to truncation.                                           *)
THEOREM BackoffWithinJitterHolds == Spec => []BackoffWithinJitter
<1>1. InputOK => BackoffWithinJitter
  <2> SUFFICES ASSUME InputOK, input.of = "backoff" PROVE BackoffWithinJitter
    BY DEF BackoffWithinJitter
  <2> DEFINE r       == withDefaults(input.retry)
             ceiling == IF input.retry.max = 0 THEN 300000 ELSE input.retry.max
             B       == computeBackoff(r, input.attempt)
             law     == Grown(r, input.attempt)
             scale   == Scale(r, input.attempt)
  <2>1. input.retry \in RawPolicies /\ input.attempt \in Int
    BY DEF InputOK
  <2>2. r \in RawPolicies /\ r.max = ceiling
    BY <2>1, DefaultsOfPolicy DEF OrDefault
  <2>3. input.retry.initial >= 0 /\ input.retry.multiplier.num >= 0 => law > 0
    BY <2>1, LawPositive
  <2> HIDE DEF r, ceiling
  <2>4. /\ B # {}
        /\ \A b \in B : /\ r.max > 0 => 2 * b < 3 * r.max
                        /\ r.max > 0 /\ law > 0 => \/ 2 * scale * (b + 1) > law
                                                   \/ 2 * (b + 1) > r.max
    BY <2>1, <2>2, BackoffBounded
  <2> HIDE DEF B, law, scale
  <2>5. /\ B # {}
        /\ ceiling > 0 => \A b \in B : 2 * b < 3 * ceiling
        /\ (ceiling > 0 /\ input.retry.initial >= 0 /\ input.retry.multiplier.num >= 0) =>
              \A b \in B : \/ 2 * scale * (b + 1) > law
                           \/ 2 * (b + 1) > ceiling
    BY <2>2, <2>3, <2>4
  <2> QED
    BY <2>5 DEF BackoffWithinJitter, r, ceiling, B, law, scale
<1> QED
  BY <1>1, InputIsOK, PTL

----------------------------------------------------------------------------
(* A loop over a sequence is a FoldLeft, which recurs over sets of         *)
(* indices.  The lemmas here bring it back to the turns of the loop.       *)

(* Max picks the greatest member of a bounded set of natural numbers.      *)
LEMMA MaxOfBounded ==
    ASSUME NEW n \in Nat, NEW S \in SUBSET (0..n), S # {}
    PROVE  Max(S) \in S /\ \A y \in S : y <= Max(S)
<1> DEFINE bounds == {k \in Nat : \A y \in S : y <= k}
           m == Min(bounds)
<1>1. bounds \in SUBSET Nat /\ n \in bounds
  OBVIOUS
<1>2. m \in bounds /\ \A k \in bounds : m <= k
  <2> HIDE DEF bounds
  <2> QED
    BY <1>1, MinOfNat
<1> HIDE DEF m
<1>3. m \in S
  <2>1. SUFFICES ASSUME m \notin S PROVE FALSE
    OBVIOUS
  <2>2. m - 1 \in bounds
    <3>1. m \in Nat /\ \A y \in S : y \in Nat /\ y <= m /\ y # m
      BY <1>2, <2>1
    <3>2. PICK y \in S : TRUE
      OBVIOUS
    <3>3. m - 1 \in Nat
      BY <3>1, <3>2
    <3> QED
      BY <3>1, <3>3
  <2> QED
    BY <1>2, <2>2
<1>4. \E x \in S : \A y \in S : x >= y
  BY <1>2, <1>3
<1>5. Max(S) \in S /\ \A y \in S : Max(S) >= y
  BY <1>4, Zenon DEF Max
<1> QED
  BY <1>5

LEMMA MaxOfIndices ==
    ASSUME NEW n \in Nat, NEW S \in SUBSET (1..n), S # {}
    PROVE  Max(S) \in 1..n /\ S \ {Max(S)} \in SUBSET (1..n)
<1>1. S \in SUBSET (0..n)
  OBVIOUS
<1>2. Max(S) \in S
  BY <1>1, MaxOfBounded
<1> QED
  BY <1>2

\* A function on the sets of indices up to n that recurs on the greatest
\* member, with what a turn does as a function of the value before.
Folds(iter, V, n, base, turn) ==
    /\ iter \in [SUBSET (1..n) -> V]
    /\ iter[{}] = base
    /\ \A s \in SUBSET (1..n) : s # {} => iter[s] = turn[Max(s)][iter[s \ {Max(s)}]]

(* There is such a function for every loop.                                *)
LEMMA FoldExists ==
    ASSUME NEW V, NEW base \in V, NEW n \in Nat, NEW turn \in [1..n -> [V -> V]]
    PROVE  \E iter : Folds(iter, V, n, base, turn)
<1> DEFINE W == [SUBSET (1..n) -> V]
           start == [s \in SUBSET (1..n) |-> base]
           next(i, g) == [s \in SUBSET (1..n) |->
                            IF i + 1 \in s THEN turn[i + 1][g[s \ {i + 1}]] ELSE g[s]]
           step == [i \in Nat |-> [g \in W |-> next(i, g)]]
<1>1. start \in W
  OBVIOUS
<1>2. ASSUME NEW i \in Nat, NEW g \in W PROVE next(i, g) \in W
  <2>1. ASSUME NEW s \in SUBSET (1..n), i + 1 \in s PROVE turn[i + 1][g[s \ {i + 1}]] \in V
    <3>1. i + 1 \in 1..n /\ s \ {i + 1} \in SUBSET (1..n)
      BY <2>1
    <3> QED
      BY <3>1
  <2> QED
    BY <2>1
<1>3. step \in [Nat -> [W -> W]]
  <2> HIDE DEF W, next
  <2> QED
    BY <1>2
<1>4. PICK G : Unfolds(G, W, start, step)
  <2> HIDE DEF W, start, step
  <2> QED
    BY <1>1, <1>3, RecursionOnNat
<1>5. /\ G[0] = start /\ \A i \in Nat : G[i] \in W /\ G[i + 1] = next(i, G[i])
  <2> HIDE DEF W, next, start
  <2> QED
    BY <1>4 DEF Unfolds
<1> HIDE DEF step
<1>6. ASSUME NEW s \in SUBSET (1..n), NEW m \in Nat, \A y \in s : y <= m
      PROVE  \A k \in Nat : G[m + k][s] = G[m][s]
  <2> DEFINE Same == {k \in Nat : G[m + k][s] = G[m][s]}
  <2>1. 0 \in Same
    OBVIOUS
  <2>2. ASSUME NEW k \in Same PROVE k + 1 \in Same
    <3>1. k \in Nat /\ m + k \in Nat /\ m + (k + 1) = (m + k) + 1 /\ (m + k) + 1 \notin s
      BY <1>6
    <3>2. G[(m + k) + 1] = next(m + k, G[m + k])
      BY <1>5, <3>1
    <3>3. G[(m + k) + 1][s] = G[m + k][s]
      BY <3>1, <3>2
    <3> QED
      BY <3>1, <3>3
  <2>3. Same = Nat
    <3> HIDE DEF Same
    <3> QED
      BY <2>1, <2>2, InductionOnNat DEF Same
  <2> QED
    BY <2>3
<1>7. ASSUME NEW s \in SUBSET (1..n), s # {}
      PROVE  G[n][s] = turn[Max(s)][G[n][s \ {Max(s)}]]
  <2> DEFINE m == Max(s)
             rest == s \ {m}
  <2>1. m \in s /\ \A y \in s : y <= m
    <3>1. s \in SUBSET (0..n)
      OBVIOUS
    <3> QED
      BY <1>7, <3>1, MaxOfBounded
  <2> HIDE DEF m
  <2>2. /\ m - 1 \in Nat /\ (m - 1) + 1 = m /\ m \in 1..n /\ m \in Nat /\ n - m \in Nat /\ m + (n - m) = n
        /\ n - (m - 1) \in Nat /\ (m - 1) + (n - (m - 1)) = n
    BY <2>1
  <2>3. rest \in SUBSET (1..n) /\ \A y \in rest : y <= m - 1
    BY <2>1
  <2>4. G[n][s] = G[m][s]
    <3>1. \A k \in Nat : G[m + k][s] = G[m][s]
      BY <1>6, <2>1, <2>2
    <3>2. G[m + (n - m)][s] = G[m][s]
      BY <2>2, <3>1, Zenon
    <3> QED
      BY <2>2, <3>2
  <2>5. G[(m - 1) + 1] = next(m - 1, G[m - 1])
    <3> HIDE DEF next
    <3> QED
      BY <1>5, <2>2, Zenon
  <2>6. G[m][s] = turn[m][G[m - 1][rest]]
    BY <2>1, <2>2, <2>5
  <2>7. G[n][rest] = G[m - 1][rest]
    <3> HIDE DEF rest
    <3>1. \A k \in Nat : G[(m - 1) + k][rest] = G[m - 1][rest]
      BY <1>6, <2>2, <2>3
    <3>2. G[(m - 1) + (n - (m - 1))][rest] = G[m - 1][rest]
      BY <2>2, <3>1, Zenon
    <3> QED
      BY <2>2, <3>2
  <2> HIDE DEF rest
  <2>8. G[n][s] = turn[m][G[n][rest]]
    BY <2>4, <2>6, <2>7
  <2> QED
    BY <2>8 DEF m, rest
<1>8. G[n][{}] = base
  <2>1. G[0 + n][{}] = G[0][{}]
    BY <1>6
  <2> QED
    BY <1>5, <2>1
<1>9. Folds(G[n], V, n, base, turn)
  BY <1>5, <1>7, <1>8 DEF Folds
<1> QED
  BY <1>9

\* The values of the loop variable after each turn.
Turns(acc, V, n, base, turn) ==
    /\ acc \in [0..n -> V]
    /\ acc[0] = base
    /\ \A i \in 1..n : acc[i] = turn[i][acc[i - 1]]

\* The loop leaves the value res.
LoopEnds(res, V, n, base, turn) == \E acc : Turns(acc, V, n, base, turn) /\ acc[n] = res

\* A function that recurs as a fold does, where its values are in V.
Recurs(g, V, n, base, turn) ==
    /\ g[{}] = base
    /\ \A s \in SUBSET (1..n) : s # {} /\ g[s \ {Max(s)}] \in V
          => g[s] = turn[Max(s)][g[s \ {Max(s)}]]

(* The recursion over sets goes through the turns of the loop in order.    *)
LEMMA FoldTurns ==
    ASSUME NEW V, NEW base \in V, NEW n \in Nat, NEW turn \in [1..n -> [V -> V]],
           NEW g, Recurs(g, V, n, base, turn)
    PROVE  LoopEnds(g[1..n], V, n, base, turn)
<1> DEFINE acc == [i \in 0..n |-> g[1..i]]
           Good == {k \in Nat : k <= n => g[1..k] \in V}
<1>0. 1..0 = {}
  OBVIOUS
<1>1. ASSUME NEW k \in Nat, k + 1 <= n, g[1..k] \in V
      PROVE  g[1..(k + 1)] = turn[k + 1][g[1..k]] /\ g[1..(k + 1)] \in V
  <2> DEFINE s == 1..(k + 1)
  <2>0. \A y \in s : y \in 1..n /\ y \in 0..n /\ y \in Nat /\ y <= k + 1
    BY <1>1
  <2>1. s \in SUBSET (1..n) /\ s \in SUBSET (0..n) /\ s # {} /\ k + 1 \in s
    <3>1. k + 1 \in s
      OBVIOUS
    <3> HIDE DEF s
    <3> QED
      BY <2>0, <3>1
  <2>2. Max(s) \in s /\ \A y \in s : y <= Max(s)
    <3> HIDE DEF s
    <3> QED
      BY <2>1, MaxOfBounded
  <2>3. Max(s) = k + 1
    <3>1. ASSUME NEW m \in s, \A y \in s : y <= m PROVE m = k + 1
      <4> HIDE DEF s
      <4> QED
        BY <2>0, <2>1, <3>1
    <3> HIDE DEF s
    <3> QED
      BY <2>2, <3>1
  <2>4. s \ {k + 1} = 1..k
    OBVIOUS
  <2> HIDE DEF s
  <2>5. g[s] = turn[k + 1][g[1..k]]
    BY <1>1, <2>1, <2>3, <2>4 DEF Recurs
  <2>6. k + 1 \in 1..n
    BY <1>1
  <2> QED
    BY <1>1, <2>5, <2>6 DEF s
<1>2. 0 \in Good
  BY <1>0 DEF Recurs
<1>3. ASSUME NEW k \in Good PROVE k + 1 \in Good
  <2>1. CASE k + 1 <= n
    BY <1>1, <2>1
  <2> QED
    BY <2>1
<1>4. Good = Nat
  <2> HIDE DEF Good
  <2> QED
    BY <1>2, <1>3, InductionOnNat DEF Good
<1>5. acc \in [0..n -> V] /\ acc[0] = base /\ acc[n] = g[1..n]
  BY <1>0, <1>4 DEF Recurs
<1>6. ASSUME NEW i \in 1..n PROVE acc[i] = turn[i][acc[i - 1]]
  <2>1. i - 1 \in Nat /\ (i - 1) + 1 = i /\ i - 1 \in 0..n /\ i \in 0..n /\ (i - 1) + 1 <= n
    OBVIOUS
  <2>2. g[1..(i - 1)] \in V
    BY <1>4, <2>1
  <2>3. g[1..((i - 1) + 1)] = turn[(i - 1) + 1][g[1..(i - 1)]]
    BY <1>1, <2>1, <2>2, Zenon
  <2> QED
    BY <2>1, <2>3
<1> HIDE DEF acc
<1> QED
  BY <1>5, <1>6 DEF Turns, LoopEnds

----------------------------------------------------------------------------
\* r is q with x put in after the first p entries.
Inserted(r, q, p, x) ==
    /\ Len(r) = Len(q) + 1
    /\ \A i \in 1..p : r[i] = q[i]
    /\ r[p + 1] = x
    /\ \A i \in (p + 1)..Len(q) : r[i + 1] = q[i]

(* Insertion keeps what is below the place, and moves what is above it.    *)
LEMMA InsertAtPlace ==
    ASSUME NEW V, NEW q \in Seq(V), NEW p \in 0..Len(q), NEW x \in V
    PROVE  /\ InsertAt(q, 1 + p, x) \in Seq(V)
           /\ Inserted(InsertAt(q, 1 + p, x), q, p, x)
<1> DEFINE low == SubSeq(q, 1, (1 + p) - 1)
           high == SubSeq(q, 1 + p, Len(q))
           lowx == low \o <<x>>
           r == lowx \o high
<1>1. Len(q) \in Nat /\ p \in Nat /\ p <= Len(q) /\ (1 + p) - 1 = p
  OBVIOUS
<1>2. low \in Seq(V) /\ Len(low) = p /\ \A i \in 1..p : low[i] = q[i]
  BY <1>1
<1>3. high \in Seq(V) /\ Len(high) = Len(q) - p /\ \A i \in 1..(Len(q) - p) : high[i] = q[p + i]
  BY <1>1
<1> HIDE DEF low, high
<1>4. lowx \in Seq(V) /\ Len(lowx) = p + 1 /\ lowx[p + 1] = x /\ \A i \in 1..p : lowx[i] = q[i]
  BY <1>1, <1>2
<1> HIDE DEF lowx
<1>5. /\ r \in Seq(V) /\ Len(r) = Len(q) + 1
      /\ \A i \in 1..(p + 1) : r[i] = lowx[i]
      /\ \A i \in 1..(Len(q) - p) : r[(p + 1) + i] = high[i]
  BY <1>1, <1>3, <1>4
<1> HIDE DEF r
<1>6. ASSUME NEW i \in (p + 1)..Len(q) PROVE r[i + 1] = q[i]
  <2>1. i - p \in 1..(Len(q) - p) /\ (p + 1) + (i - p) = i + 1 /\ p + (i - p) = i
    BY <1>1
  <2>2. r[(p + 1) + (i - p)] = high[i - p] /\ high[i - p] = q[p + (i - p)]
    BY <1>3, <1>5, <2>1, Zenon
  <2> QED
    BY <2>1, <2>2
<1>7. InsertAt(q, 1 + p, x) = r
  BY DEF InsertAt, r, lowx, low, high
<1> QED
  BY <1>1, <1>4, <1>5, <1>6, <1>7 DEF Inserted

\* R orders the members of V strictly and totally.
Orders(R, V) ==
    /\ \A a, b \in V : <<a, b>> \in R => <<b, a>> \notin R
    /\ \A a, b \in V : a # b => <<a, b>> \in R \/ <<b, a>> \in R
    /\ \A a, b, c \in V : <<a, b>> \in R /\ <<b, c>> \in R => <<a, c>> \in R

Ascending(q, R) == \A i, k \in DOMAIN q : i < k => <<q[i], q[k]>> \in R

\* Where the inner loop of an insertion sort stops: above the last entry
\* that x is not below.
Place(q, x, R) == Max({0} \cup {k \in DOMAIN q : <<x, q[k]>> \notin R})

LEMMA PlaceIsBound ==
    ASSUME NEW V, NEW q \in Seq(V), NEW x, NEW R
    PROVE  /\ Place(q, x, R) \in 0..Len(q)
           /\ Place(q, x, R) # 0 => <<x, q[Place(q, x, R)]>> \notin R
           /\ \A k \in 1..Len(q) : k > Place(q, x, R) => <<x, q[k]>> \in R
<1> DEFINE S == {0} \cup {k \in DOMAIN q : <<x, q[k]>> \notin R}
<1>1. S \in SUBSET (0..Len(q)) /\ S # {} /\ Len(q) \in Nat /\ DOMAIN q = 1..Len(q)
  OBVIOUS
<1>2. Max(S) \in S /\ \A y \in S : y <= Max(S)
  <2> HIDE DEF S
  <2> QED
    BY <1>1, MaxOfBounded
<1>3. Place(q, x, R) = Max(S)
  BY DEF Place
<1> DEFINE m == Max(S)
<1>4. m \in S /\ (\A y \in S : y <= m) /\ Place(q, x, R) = m
  BY <1>2, <1>3
<1> HIDE DEF m
<1> QED
  BY <1>1, <1>4

(* One turn of an insertion sort.                                          *)
LEMMA InsertInOrder ==
    ASSUME NEW V, NEW R, Orders(R, V), NEW q \in Seq(V), Ascending(q, R),
           NEW x \in V, x \notin ToSet(q)
    PROVE  /\ InsertAt(q, 1 + Place(q, x, R), x) \in Seq(V)
           /\ Ascending(InsertAt(q, 1 + Place(q, x, R), x), R)
           /\ ToSet(InsertAt(q, 1 + Place(q, x, R), x)) = ToSet(q) \cup {x}
<1> DEFINE p == Place(q, x, R)
           r == InsertAt(q, 1 + p, x)
<1>1. /\ p \in 0..Len(q) /\ Len(q) \in Nat
      /\ p # 0 => <<x, q[p]>> \notin R
      /\ \A k \in 1..Len(q) : k > p => <<x, q[k]>> \in R
  BY PlaceIsBound
<1> HIDE DEF p
<1>0. r \in Seq(V) /\ Inserted(r, q, p, x)
  BY <1>1, InsertAtPlace
<1> HIDE DEF r
<1>2. /\ r \in Seq(V) /\ Len(r) = Len(q) + 1 /\ r[p + 1] = x
      /\ \A i \in 1..p : r[i] = q[i]
      /\ \A i \in (p + 1)..Len(q) : r[i + 1] = q[i]
  BY <1>0 DEF Inserted
<1>3. DOMAIN q = 1..Len(q) /\ DOMAIN r = 1..(Len(q) + 1) /\ \A k \in 1..Len(q) : q[k] \in V
  BY <1>1, <1>2
<1>4. \A i, k \in 1..Len(q) : i < k => <<q[i], q[k]>> \in R
  BY <1>3 DEF Ascending
<1>5. \A k \in 1..Len(q) : q[k] # x
  BY <1>3 DEF ToSet
<1>6. ASSUME NEW k \in 1..p PROVE <<q[k], x>> \in R
  <2>1. p \in 1..Len(q) /\ k \in 1..Len(q) /\ <<x, q[p]>> \notin R
    BY <1>1
  <2>2. <<q[p], x>> \in R
    BY <1>3, <1>5, <2>1 DEF Orders
  <2>3. CASE k # p
    <3>1. <<q[k], q[p]>> \in R
      BY <1>1, <1>4, <2>1, <2>3
    <3> QED
      BY <1>3, <2>1, <2>2, <3>1 DEF Orders
  <2> QED
    BY <2>2, <2>3
<1>7. ASSUME NEW i \in 1..(Len(q) + 1)
      PROVE  \/ i \in 1..p /\ r[i] = q[i]
             \/ i = p + 1 /\ r[i] = x
             \/ i - 1 \in (p + 1)..Len(q) /\ r[i] = q[i - 1]
  <2>1. CASE i > p + 1
    <3>1. i - 1 \in (p + 1)..Len(q) /\ (i - 1) + 1 = i
      BY <1>1, <2>1
    <3>2. r[(i - 1) + 1] = q[i - 1]
      BY <1>2, <3>1, Zenon
    <3> QED
      BY <3>1, <3>2
  <2> QED
    BY <1>1, <1>2, <2>1
<1>8. Ascending(r, R)
  <2> SUFFICES ASSUME NEW i \in 1..(Len(q) + 1), NEW k \in 1..(Len(q) + 1), i < k
               PROVE  <<r[i], r[k]>> \in R
    BY <1>3 DEF Ascending
  <2>1. CASE k \in 1..p
    <3>1. i \in 1..p /\ i \in 1..Len(q) /\ k \in 1..Len(q)
      BY <1>1, <2>1
    <3>2. r[i] = q[i] /\ r[k] = q[k]
      BY <1>1, <1>2, <2>1, <3>1
    <3> QED
      BY <1>4, <3>1, <3>2
  <2>2. CASE k = p + 1
    <3>1. i \in 1..p
      BY <1>1, <2>2
    <3>2. r[i] = q[i] /\ r[k] = x
      BY <1>1, <1>2, <2>2, <3>1
    <3> QED
      BY <1>6, <3>1, <3>2
  <2>3. CASE k - 1 \in (p + 1)..Len(q) /\ r[k] = q[k - 1]
    <3>1. k - 1 \in 1..Len(q) /\ k - 1 > p
      BY <1>1, <2>3
    <3>2. CASE i \in 1..p /\ r[i] = q[i]
      <4>1. i \in 1..Len(q) /\ i < k - 1
        BY <1>1, <3>1, <3>2
      <4> QED
        BY <1>4, <2>3, <3>1, <3>2, <4>1
    <3>3. CASE i = p + 1 /\ r[i] = x
      BY <1>1, <2>3, <3>1, <3>3
    <3>4. CASE i - 1 \in (p + 1)..Len(q) /\ r[i] = q[i - 1]
      <4>1. i - 1 \in 1..Len(q) /\ i - 1 < k - 1
        BY <1>1, <3>4
      <4> QED
        BY <1>4, <2>3, <3>1, <3>4, <4>1
    <3> QED
      BY <1>7, <3>2, <3>3, <3>4
  <2> QED
    BY <1>7, <2>1, <2>2, <2>3
<1>9. ToSet(r) = ToSet(q) \cup {x}
  <2>1. \A i \in DOMAIN r : r[i] \in ToSet(q) \cup {x}
    <3> SUFFICES ASSUME NEW i \in 1..(Len(q) + 1) PROVE r[i] \in ToSet(q) \cup {x}
      BY <1>3
    <3>1. \A k \in 1..Len(q) : q[k] \in ToSet(q)
      BY <1>3 DEF ToSet
    <3> QED
      BY <1>1, <1>7, <3>1
  <2>2. x \in ToSet(r)
    <3>1. p + 1 \in DOMAIN r
      BY <1>1, <1>3
    <3> QED
      BY <1>2, <3>1, Zenon DEF ToSet
  <2>3. ASSUME NEW k \in 1..Len(q) PROVE q[k] \in ToSet(r)
    <3>1. \A i \in 1..(Len(q) + 1) : r[i] \in ToSet(r)
      BY <1>3 DEF ToSet
    <3>2. CASE k <= p
      BY <1>1, <1>2, <3>1, <3>2
    <3>3. CASE k > p
      <4>1. k \in (p + 1)..Len(q) /\ k + 1 \in 1..(Len(q) + 1)
        BY <1>1, <3>3
      <4>2. r[k + 1] = q[k] /\ r[k + 1] \in ToSet(r)
        BY <1>2, <3>1, <4>1
      <4> QED
        BY <4>2
    <3> QED
      BY <1>1, <3>2, <3>3
  <2> QED
    BY <1>3, <2>1, <2>2, <2>3 DEF ToSet
<1> QED
  BY <1>2, <1>8, <1>9 DEF r, p

\* What a sort must return: the members of the sequence, in order.
SortOf(out, seq, R) ==
    out \in Seq(ToSet(seq)) /\ Ascending(out, R) /\ ToSet(out) = ToSet(seq)

(* A sequence without repetitions is sorted by insertion.                  *)
LEMMA InsertionSorts ==
    ASSUME NEW V, NEW R, Orders(R, V), NEW seq \in Seq(V),
           \A i, k \in DOMAIN seq : i # k => seq[i] # seq[k],
           NEW acc, acc[0] = << >>,
           \A i \in 1..Len(seq) :
              acc[i] = InsertAt(acc[i - 1], 1 + Place(acc[i - 1], seq[i], R), seq[i])
    PROVE  SortOf(acc[Len(seq)], seq, R)
<1> DEFINE n == Len(seq)
           first(i) == {seq[j] : j \in 1..i}
           Good == {i \in Nat : i <= n =>
                      /\ acc[i] \in Seq(V) /\ Ascending(acc[i], R) /\ ToSet(acc[i]) = first(i)}
<1>0. n \in Nat /\ DOMAIN seq = 1..n /\ \A i \in 1..n : seq[i] \in V
  OBVIOUS
<1>1. 0 \in Good
  <2>1. << >> \in Seq(V) /\ Ascending(<< >>, R) /\ ToSet(<< >>) = {}
    BY DEF Ascending, ToSet
  <2>2. first(0) = {}
    OBVIOUS
  <2> HIDE DEF first
  <2> QED
    BY <2>1, <2>2
<1>2. ASSUME NEW i \in Good PROVE i + 1 \in Good
  <2> SUFFICES ASSUME i + 1 <= n
               PROVE  /\ acc[i + 1] \in Seq(V) /\ Ascending(acc[i + 1], R)
                      /\ ToSet(acc[i + 1]) = first(i + 1)
    OBVIOUS
  <2> DEFINE q == acc[i]
             x == seq[i + 1]
  <2>0. i \in Nat /\ i + 1 \in 1..n /\ (i + 1) - 1 = i /\ i <= n
    BY <1>0
  <2>1. q \in Seq(V) /\ Ascending(q, R) /\ ToSet(q) = first(i)
    BY <2>0
  <2>2. x \in V /\ x \notin first(i)
    BY <1>0, <2>0
  <2>3. acc[i + 1] = InsertAt(q, 1 + Place(q, x, R), x)
    BY <2>0
  <2>4. first(i + 1) = first(i) \cup {x}
    BY <2>0
  <2> DEFINE r == InsertAt(q, 1 + Place(q, x, R), x)
  <2> HIDE DEF q, x, first
  <2>5. x \notin ToSet(q)
    BY <2>1, <2>2
  <2>6. r \in Seq(V) /\ Ascending(r, R) /\ ToSet(r) = ToSet(q) \cup {x}
    BY <2>1, <2>2, <2>5, InsertInOrder
  <2> HIDE DEF r
  <2> QED
    BY <2>1, <2>3, <2>4, <2>6 DEF r
<1>3. Good = Nat
  <2> HIDE DEF Good
  <2> QED
    BY <1>1, <1>2, InductionOnNat DEF Good
<1>4. acc[n] \in Seq(V) /\ Ascending(acc[n], R) /\ ToSet(acc[n]) = first(n)
  <2>1. n \in Good
    BY <1>0, <1>3
  <2> HIDE DEF first
  <2> QED
    BY <1>0, <2>1
<1>5. first(n) = ToSet(seq)
  BY <1>0 DEF ToSet
<1> DEFINE out == acc[n]
<1>6. out \in Seq(V) /\ Ascending(out, R) /\ ToSet(out) = ToSet(seq)
  BY <1>4, <1>5
<1> HIDE DEF out
<1>7. out \in Seq(ToSet(seq))
  <2>1. \A i \in DOMAIN out : out[i] \in ToSet(seq)
    BY <1>6 DEF ToSet
  <2> HIDE DEF n
  <2> QED
    BY <1>6, <2>1
<1> QED
  BY <1>6, <1>7 DEF SortOf, out

----------------------------------------------------------------------------
\* The names in their order.
NameOrder == {w \in Nat \X Nat : w[1] < w[2]}

(* The inner loop of Scheduler.Jobs.                                       *)
LEMMA InsertNameTurn ==
    ASSUME NEW q \in Seq(Nat), NEW x \in Nat
    PROVE  /\ InsertName(q, x) = InsertAt(q, 1 + Place(q, x, NameOrder), x)
           /\ InsertName(q, x) \in Seq(Nat)
<1>1. {k \in DOMAIN q : q[k] <= x} = {k \in DOMAIN q : <<x, q[k]>> \notin NameOrder}
  BY DEF NameOrder
<1>2. InsertName(q, x) = InsertAt(q, 1 + Place(q, x, NameOrder), x)
  BY <1>1 DEF InsertName, Place
<1>3. Place(q, x, NameOrder) \in 0..Len(q)
  BY PlaceIsBound
<1> QED
  BY <1>2, <1>3, InsertAtPlace

\* What the outer loop of Scheduler.Jobs does in its i-th turn.
JobsTurn(names) == [i \in 1..Len(names) |-> [q \in Seq(Nat) |-> InsertName(q, names[i])]]

(* Scheduler.Jobs is its outer loop.                                       *)
LEMMA JobsLoop ==
    ASSUME NEW names \in Seq(Nat)
    PROVE  LoopEnds(Jobs(names), Seq(Nat), Len(names), << >>, JobsTurn(names))
<1> DEFINE n == Len(names)
           V == Seq(Nat)
           turn == JobsTurn(names)
           Op(v, s) == InsertName(v, names[Max(s)])
           Body(f) == [s \in SUBSET DOMAIN names |->
                         IF s = {} THEN << >> ELSE Op(f[s \ {Max(s)}], s)]
           iter == CHOOSE f : f = Body(f)
<1>1. n \in Nat /\ DOMAIN names = 1..n /\ << >> \in V
  OBVIOUS
<1>2. \A i \in 1..n, v \in V : InsertName(v, names[i]) \in V
  BY <1>1, InsertNameTurn
<1>3. turn \in [1..n -> [V -> V]] /\ \A i \in 1..n, v \in V : turn[i][v] = InsertName(v, names[i])
  BY <1>2 DEF JobsTurn
<1>4. Jobs(names) = iter[DOMAIN names]
  BY Zenon DEF Jobs, FoldLeft, MapThenFoldSet
<1> HIDE DEF n, V, turn
<1>5. \A s \in SUBSET (1..n), v \in V : s # {} => turn[Max(s)][v] = Op(v, s)
  BY <1>1, <1>3, MaxOfIndices
<1> HIDE DEF Op
<1>6. \E f : f = Body(f)
  <2>1. PICK f : Folds(f, V, n, << >>, turn)
    BY <1>1, <1>3, FoldExists
  <2>2. f \in [SUBSET DOMAIN names -> V] /\ f[{}] = << >>
    BY <1>1, <2>1 DEF Folds
  <2>3. ASSUME NEW s \in SUBSET (1..n), s # {} PROVE f[s] = Op(f[s \ {Max(s)}], s)
    BY <1>1, <1>5, <2>1, <2>3, MaxOfIndices DEF Folds
  <2> QED
    BY <1>1, <2>2, <2>3
<1>7. iter = Body(iter)
  <2> HIDE DEF Body
  <2> QED
    BY <1>6
<1> HIDE DEF iter
<1>8. /\ iter[{}] = << >>
      /\ \A s \in SUBSET (1..n) : s # {} => iter[s] = Op(iter[s \ {Max(s)}], s)
  BY <1>1, <1>7
<1>9. Recurs(iter, V, n, << >>, turn)
  BY <1>5, <1>8 DEF Recurs
<1>10. LoopEnds(iter[1..n], V, n, << >>, turn)
  BY <1>1, <1>3, <1>9, FoldTurns
<1> QED
  BY <1>1, <1>4, <1>10 DEF n, V, turn

(* Scheduler.Jobs lists the names it is given in order, however many there *)
(* are.                                                                    *)
LEMMA JobsSorts ==
    ASSUME NEW names \in Seq(Nat), \A i, k \in DOMAIN names : i # k => names[i] # names[k]
    PROVE  SortOf(Jobs(names), names, NameOrder)
<1>1. PICK acc : /\ Turns(acc, Seq(Nat), Len(names), << >>, JobsTurn(names))
                 /\ acc[Len(names)] = Jobs(names)
  BY JobsLoop DEF LoopEnds
<1>2. Orders(NameOrder, Nat)
  BY DEF Orders, NameOrder
<1>3. Len(names) \in Nat /\ \A i \in 1..Len(names) : names[i] \in Nat
  OBVIOUS
<1>4. acc[0] = << >>
  BY <1>1 DEF Turns
<1>5. ASSUME NEW i \in 1..Len(names)
      PROVE  acc[i] = InsertAt(acc[i - 1], 1 + Place(acc[i - 1], names[i], NameOrder), names[i])
  <2>1. i - 1 \in 0..Len(names)
    BY <1>3
  <2>2. acc[i - 1] \in Seq(Nat) /\ acc[i] = JobsTurn(names)[i][acc[i - 1]]
    BY <1>1, <2>1 DEF Turns
  <2>3. acc[i] = InsertName(acc[i - 1], names[i])
    BY <2>2 DEF JobsTurn
  <2> QED
    BY <1>3, <2>2, <2>3, InsertNameTurn
<1> QED
  BY <1>1, <1>2, <1>4, <1>5, InsertionSorts

(* Scheduler.Jobs (sundial.go:260-279) lists every registered name once    *)
(* and in order, for any number of names in any order of the map.          *)
THEOREM JobsAreSortedHolds == Spec => []JobsAreSorted
<1>1. InputOK => JobsAreSorted
  <2> SUFFICES ASSUME InputOK, input.of = "rows" PROVE JobsAreSorted
    BY DEF JobsAreSorted
  <2> DEFINE out == Jobs(input.names)
  <2>1. SortOf(out, input.names, NameOrder)
    BY JobsSorts DEF InputOK
  <2> HIDE DEF out
  <2>2. ToSet(out) = ToSet(input.names) /\ \A i, k \in DOMAIN out : i < k => out[i] < out[k]
    BY <2>1 DEF SortOf, Ascending, NameOrder
  <2> QED
    BY <2>2 DEF JobsAreSorted, out
<1> QED
  BY <1>1, InputIsOK, PTL

----------------------------------------------------------------------------
\* The rows of a MemoryStorage, in the order of FetchDue.
Rows == [name : Nat, next : Nat]
RowOrder == {w \in Rows \X Rows : DueAfter(w[2], w[1])}

\* What the loop over the map does with the i-th row.
DueRowsTurn(jobs, now) ==
    [i \in 1..Len(jobs) |-> [v \in Seq(Rows) |-> IF jobs[i].next <= now THEN Append(v, jobs[i]) ELSE v]]

(* FetchDue reads the map in a loop.                                       *)
LEMMA DueRowsLoop ==
    ASSUME NEW jobs \in Seq(Rows), NEW now \in Nat
    PROVE  LoopEnds(DueRows(jobs, now), Seq(Rows), Len(jobs), << >>, DueRowsTurn(jobs, now))
<1> DEFINE n == Len(jobs)
           V == Seq(Rows)
           turn == DueRowsTurn(jobs, now)
           Op(v, s) == (IF jobs[Max(s)].next <= now THEN Append(v, jobs[Max(s)]) ELSE v)
           Body(f) == [s \in SUBSET DOMAIN jobs |->
                         IF s = {} THEN << >> ELSE Op(f[s \ {Max(s)}], s)]
           iter == CHOOSE f : f = Body(f)
<1>1. n \in Nat /\ DOMAIN jobs = 1..n /\ << >> \in V
  OBVIOUS
<1>2. \A i \in 1..n, v \in V : (IF jobs[i].next <= now THEN Append(v, jobs[i]) ELSE v) \in V
  BY <1>1
<1>3. turn \in [1..n -> [V -> V]] /\ \A i \in 1..n, v \in V : turn[i][v] = (IF jobs[i].next <= now THEN Append(v, jobs[i]) ELSE v)
  BY <1>2 DEF DueRowsTurn
<1>4. DueRows(jobs, now) = iter[DOMAIN jobs]
  BY Zenon DEF DueRows, FoldLeft, MapThenFoldSet
<1> HIDE DEF n, V, turn
<1>5. \A s \in SUBSET (1..n), v \in V : s # {} => turn[Max(s)][v] = Op(v, s)
  BY <1>1, <1>3, MaxOfIndices
<1> HIDE DEF Op
<1>6. \E f : f = Body(f)
  <2>1. PICK f : Folds(f, V, n, << >>, turn)
    BY <1>1, <1>3, FoldExists
  <2>2. f \in [SUBSET DOMAIN jobs -> V] /\ f[{}] = << >>
    BY <1>1, <2>1 DEF Folds
  <2>3. ASSUME NEW s \in SUBSET (1..n), s # {} PROVE f[s] = Op(f[s \ {Max(s)}], s)
    BY <1>1, <1>5, <2>1, <2>3, MaxOfIndices DEF Folds
  <2> QED
    BY <1>1, <2>2, <2>3
<1>7. iter = Body(iter)
  <2> HIDE DEF Body
  <2> QED
    BY <1>6
<1> HIDE DEF iter
<1>8. /\ iter[{}] = << >>
      /\ \A s \in SUBSET (1..n) : s # {} => iter[s] = Op(iter[s \ {Max(s)}], s)
  BY <1>1, <1>7
<1>9. Recurs(iter, V, n, << >>, turn)
  BY <1>5, <1>8 DEF Recurs
<1>10. LoopEnds(iter[1..n], V, n, << >>, turn)
  BY <1>1, <1>3, <1>9, FoldTurns
<1> QED
  BY <1>1, <1>4, <1>10 DEF n, V, turn

(* The inner loop of FetchDue's sort.                                      *)
LEMMA InsertDueTurn ==
    ASSUME NEW q \in Seq(Rows), NEW x \in Rows
    PROVE  /\ InsertDue(q, x) = InsertAt(q, 1 + Place(q, x, RowOrder), x)
           /\ InsertDue(q, x) \in Seq(Rows)
<1>1. {k \in DOMAIN q : ~ DueAfter(q[k], x)} = {k \in DOMAIN q : <<x, q[k]>> \notin RowOrder}
  BY DEF RowOrder
<1>2. InsertDue(q, x) = InsertAt(q, 1 + Place(q, x, RowOrder), x)
  BY <1>1 DEF InsertDue, Place
<1>3. Place(q, x, RowOrder) \in 0..Len(q)
  BY PlaceIsBound
<1> QED
  BY <1>2, <1>3, InsertAtPlace

\* What the outer loop of FetchDue's sort does in its i-th turn.
SortDueTurn(rows) == [i \in 1..Len(rows) |-> [v \in Seq(Rows) |-> InsertDue(v, rows[i])]]

(* FetchDue's sort is its outer loop.                                      *)
LEMMA SortDueLoop ==
    ASSUME NEW rows \in Seq(Rows)
    PROVE  LoopEnds(SortDue(rows), Seq(Rows), Len(rows), << >>, SortDueTurn(rows))
<1> DEFINE n == Len(rows)
           V == Seq(Rows)
           turn == SortDueTurn(rows)
           Op(v, s) == InsertDue(v, rows[Max(s)])
           Body(f) == [s \in SUBSET DOMAIN rows |->
                         IF s = {} THEN << >> ELSE Op(f[s \ {Max(s)}], s)]
           iter == CHOOSE f : f = Body(f)
<1>1. n \in Nat /\ DOMAIN rows = 1..n /\ << >> \in V
  OBVIOUS
<1>2. \A i \in 1..n, v \in V : InsertDue(v, rows[i]) \in V
  BY <1>1, InsertDueTurn
<1>3. turn \in [1..n -> [V -> V]] /\ \A i \in 1..n, v \in V : turn[i][v] = InsertDue(v, rows[i])
  BY <1>2 DEF SortDueTurn
<1>4. SortDue(rows) = iter[DOMAIN rows]
  BY Zenon DEF SortDue, FoldLeft, MapThenFoldSet
<1> HIDE DEF n, V, turn
<1>5. \A s \in SUBSET (1..n), v \in V : s # {} => turn[Max(s)][v] = Op(v, s)
  BY <1>1, <1>3, MaxOfIndices
<1> HIDE DEF Op
<1>6. \E f : f = Body(f)
  <2>1. PICK f : Folds(f, V, n, << >>, turn)
    BY <1>1, <1>3, FoldExists
  <2>2. f \in [SUBSET DOMAIN rows -> V] /\ f[{}] = << >>
    BY <1>1, <2>1 DEF Folds
  <2>3. ASSUME NEW s \in SUBSET (1..n), s # {} PROVE f[s] = Op(f[s \ {Max(s)}], s)
    BY <1>1, <1>5, <2>1, <2>3, MaxOfIndices DEF Folds
  <2> QED
    BY <1>1, <2>2, <2>3
<1>7. iter = Body(iter)
  <2> HIDE DEF Body
  <2> QED
    BY <1>6
<1> HIDE DEF iter
<1>8. /\ iter[{}] = << >>
      /\ \A s \in SUBSET (1..n) : s # {} => iter[s] = Op(iter[s \ {Max(s)}], s)
  BY <1>1, <1>7
<1>9. Recurs(iter, V, n, << >>, turn)
  BY <1>5, <1>8 DEF Recurs
<1>10. LoopEnds(iter[1..n], V, n, << >>, turn)
  BY <1>1, <1>3, <1>9, FoldTurns
<1> QED
  BY <1>1, <1>4, <1>10 DEF n, V, turn

(* FetchDue's sort orders the rows it is given by fire time and name.      *)
LEMMA SortDueSorts ==
    ASSUME NEW rows \in Seq(Rows), \A i, k \in DOMAIN rows : i # k => rows[i] # rows[k]
    PROVE  SortOf(SortDue(rows), rows, RowOrder)
<1>1. PICK acc : /\ Turns(acc, Seq(Rows), Len(rows), << >>, SortDueTurn(rows))
                 /\ acc[Len(rows)] = SortDue(rows)
  BY SortDueLoop DEF LoopEnds
<1>2. Orders(RowOrder, Rows)
  <2>1. \A a, b \in Rows : <<a, b>> \in RowOrder <=> DueAfter(b, a)
    BY DEF RowOrder
  <2>2. ASSUME NEW a \in Rows, NEW b \in Rows, a.name = b.name, a.next = b.next PROVE a = b
    <3>1. a = [name |-> a.name, next |-> a.next] /\ b = [name |-> b.name, next |-> b.next]
      BY DEF Rows
    <3> QED
      BY <2>2, <3>1
  <2>3. \A a \in Rows : a.name \in Nat /\ a.next \in Nat
    BY DEF Rows
  <2>4. \A a, b \in Rows : DueAfter(a, b) => ~ DueAfter(b, a)
    BY <2>3 DEF DueAfter
  <2>5. \A a, b \in Rows : a # b => DueAfter(a, b) \/ DueAfter(b, a)
    BY <2>2, <2>3 DEF DueAfter
  <2>6. \A a, b, c \in Rows : DueAfter(a, b) /\ DueAfter(b, c) => DueAfter(a, c)
    BY <2>3 DEF DueAfter
  <2> QED
    BY <2>1, <2>4, <2>5, <2>6 DEF Orders
<1>3. Len(rows) \in Nat /\ \A i \in 1..Len(rows) : rows[i] \in Rows
  OBVIOUS
<1>4. acc[0] = << >>
  BY <1>1 DEF Turns
<1>5. ASSUME NEW i \in 1..Len(rows)
      PROVE  acc[i] = InsertAt(acc[i - 1], 1 + Place(acc[i - 1], rows[i], RowOrder), rows[i])
  <2>1. i - 1 \in 0..Len(rows)
    BY <1>3
  <2>2. acc[i - 1] \in Seq(Rows) /\ acc[i] = SortDueTurn(rows)[i][acc[i - 1]]
    BY <1>1, <2>1 DEF Turns
  <2>3. acc[i] = InsertDue(acc[i - 1], rows[i])
    BY <2>2 DEF SortDueTurn
  <2> QED
    BY <1>3, <2>2, <2>3, InsertDueTurn
<1> QED
  BY <1>1, <1>2, <1>4, <1>5, InsertionSorts

\* The list holds each row of the set once.
ListOf(out, S) ==
    /\ out \in Seq(Rows)
    /\ ToSet(out) = S
    /\ \A i, k \in DOMAIN out : i # k => out[i] # out[k]

(* A row that is new to a list may be appended.                            *)
LEMMA AppendToList ==
    ASSUME NEW S, NEW q, ListOf(q, S), NEW x \in Rows, x \notin S
    PROVE  ListOf(Append(q, x), S \cup {x})
<1> DEFINE r == Append(q, x)
<1>1. q \in Seq(Rows) /\ Len(q) \in Nat /\ DOMAIN q = 1..Len(q)
  BY DEF ListOf
<1>2. /\ r \in Seq(Rows) /\ DOMAIN r = 1..(Len(q) + 1) /\ r[Len(q) + 1] = x
      /\ \A i \in 1..Len(q) : r[i] = q[i]
  BY <1>1
<1> HIDE DEF r
<1>3. \A i \in 1..Len(q) : q[i] \in S /\ q[i] # x
  BY <1>1 DEF ListOf, ToSet
<1>4. ASSUME NEW i \in DOMAIN r, NEW k \in DOMAIN r, i # k PROVE r[i] # r[k]
  <2>1. CASE i = Len(q) + 1
    BY <1>1, <1>2, <1>3, <1>4, <2>1
  <2>2. CASE k = Len(q) + 1
    BY <1>1, <1>2, <1>3, <1>4, <2>2
  <2>3. CASE i \in 1..Len(q) /\ k \in 1..Len(q)
    BY <1>1, <1>2, <1>4, <2>3 DEF ListOf
  <2> QED
    BY <1>1, <1>2, <2>1, <2>2, <2>3
<1>5. ToSet(r) \subseteq S \cup {x}
  <2> SUFFICES ASSUME NEW i \in DOMAIN r PROVE r[i] \in S \cup {x}
    BY DEF ToSet
  <2> QED
    BY <1>1, <1>2, <1>3
<1>6. S \cup {x} \subseteq ToSet(r)
  <2>1. \A i \in 1..(Len(q) + 1) : r[i] \in ToSet(r)
    BY <1>2 DEF ToSet
  <2>2. x \in ToSet(r)
    BY <1>1, <1>2, <2>1
  <2>3. ASSUME NEW y \in S PROVE y \in ToSet(r)
    <3>1. PICK i \in 1..Len(q) : q[i] = y
      BY <1>1 DEF ListOf, ToSet
    <3> QED
      BY <1>1, <1>2, <2>1, <3>1
  <2> QED
    BY <2>2, <2>3
<1> QED
  BY <1>2, <1>4, <1>5, <1>6 DEF ListOf, r

(* The loop over the map collects the due rows.                            *)
LEMMA DueRowsAreDue ==
    ASSUME NEW jobs \in Seq(Rows), NEW now \in Nat,
           \A i, k \in DOMAIN jobs : i # k => jobs[i] # jobs[k]
    PROVE  ListOf(DueRows(jobs, now), {r \in ToSet(jobs) : r.next <= now})
<1> DEFINE n == Len(jobs)
           late(i) == {jobs[j] : j \in {k \in 1..i : jobs[k].next <= now}}
<1>1. PICK acc : /\ Turns(acc, Seq(Rows), n, << >>, DueRowsTurn(jobs, now))
                 /\ acc[n] = DueRows(jobs, now)
  BY DueRowsLoop DEF LoopEnds
<1>2. n \in Nat /\ DOMAIN jobs = 1..n /\ \A i \in 1..n : jobs[i] \in Rows
  OBVIOUS
<1>3. acc[0] = << >> /\ \A i \in 0..n : acc[i] \in Seq(Rows)
  BY <1>1, <1>2 DEF Turns
<1> DEFINE Good == {i \in Nat : i <= n => ListOf(acc[i], late(i))}
<1>4. 0 \in Good
  <2>1. late(0) = {}
    OBVIOUS
  <2>2. ListOf(<< >>, {})
    BY DEF ListOf, ToSet
  <2> HIDE DEF late
  <2> QED
    BY <1>3, <2>1, <2>2
<1>5. ASSUME NEW i \in Good PROVE i + 1 \in Good
  <2> SUFFICES ASSUME i + 1 <= n PROVE ListOf(acc[i + 1], late(i + 1))
    OBVIOUS
  <2> DEFINE x == jobs[i + 1]
  <2>1. i \in Nat /\ i + 1 \in 1..n /\ (i + 1) - 1 = i /\ i \in 0..n /\ i <= n
    BY <1>2
  <2>2. ListOf(acc[i], late(i)) /\ acc[i] \in Seq(Rows)
    BY <1>3, <2>1
  <2>3. acc[i + 1] = DueRowsTurn(jobs, now)[i + 1][acc[(i + 1) - 1]]
    BY <1>1, <2>1, Zenon DEF Turns
  <2>4. acc[i + 1] = IF x.next <= now THEN Append(acc[i], x) ELSE acc[i]
    BY <2>1, <2>2, <2>3 DEF DueRowsTurn
  <2>5. x \in Rows /\ x \notin late(i)
    BY <1>2, <2>1
  <2>6. late(i + 1) = IF x.next <= now THEN late(i) \cup {x} ELSE late(i)
    <3>1. \A k \in 1..(i + 1) : k \in 1..i \/ k = i + 1
      BY <2>1
    <3>2. \A k \in 1..i : k \in 1..(i + 1)
      BY <2>1
    <3>3. i + 1 \in 1..(i + 1)
      BY <2>1
    <3> QED
      BY <3>1, <3>2, <3>3
  <2> HIDE DEF x, late
  <2> QED
    BY <2>2, <2>4, <2>5, <2>6, AppendToList
<1>6. Good = Nat
  <2> HIDE DEF Good
  <2> QED
    BY <1>4, <1>5, InductionOnNat DEF Good
<1>7. ListOf(acc[n], late(n))
  <2>1. n \in Good
    BY <1>2, <1>6
  <2> HIDE DEF late
  <2> QED
    BY <1>2, <2>1
<1>8. late(n) = {r \in ToSet(jobs) : r.next <= now}
  BY <1>2 DEF ToSet
<1> QED
  BY <1>1, <1>7, <1>8

(* FetchDue sorts the due rows and cuts the list at the limit.             *)
LEMMA FetchDueCuts ==
    ASSUME NEW jobs \in Seq(Rows), NEW now \in Nat, NEW limit \in Nat,
           \A i, k \in DOMAIN jobs : i # k => jobs[i] # jobs[k]
    PROVE  LET late == {r \in ToSet(jobs) : r.next <= now}
               out  == FetchDue(jobs, now, limit)
           IN  /\ ToSet(out) \subseteq late
               /\ \A i, k \in DOMAIN out : i < k => DueAfter(out[k], out[i])
               /\ \A r \in late \ ToSet(out) : /\ Len(out) = Limit(limit)
                                               /\ \A i \in DOMAIN out : DueAfter(r, out[i])
<1> DEFINE late == {r \in ToSet(jobs) : r.next <= now}
           rows == DueRows(jobs, now)
           all == SortDue(rows)
           L == Limit(limit)
           m == Min({Len(all), L})
           out == SubSeq(all, 1, m)
<1>1. ListOf(rows, late)
  BY DueRowsAreDue
<1>2. SortOf(all, rows, RowOrder)
  <2> HIDE DEF rows, late
  <2> QED
    BY <1>1, SortDueSorts DEF ListOf
<1>3. FetchDue(jobs, now, limit) = out
  BY DEF FetchDue, Truncate
<1>4. L \in Nat
  BY DEF Limit
<1> HIDE DEF late, rows, all, L
<1>5. /\ all \in Seq(Rows) /\ ToSet(all) = late /\ Len(all) \in Nat /\ DOMAIN all = 1..Len(all)
      /\ \A i, k \in DOMAIN all : i < k => DueAfter(all[k], all[i])
  <2>1. all \in Seq(ToSet(rows)) /\ Ascending(all, RowOrder) /\ ToSet(all) = ToSet(rows)
    BY <1>2 DEF SortOf
  <2>2. ToSet(rows) = late /\ \A r \in late : r \in Rows
    BY <1>1 DEF ListOf, ToSet
  <2>3. all \in Seq(Rows)
    BY <2>1, <2>2
  <2>4. \A a, b : <<a, b>> \in RowOrder => DueAfter(b, a)
    BY DEF RowOrder
  <2>5. \A i, k \in DOMAIN all : i < k => DueAfter(all[k], all[i])
    BY <2>1, <2>4 DEF Ascending
  <2> QED
    BY <2>1, <2>2, <2>3, <2>5
<1>6. m \in {Len(all), L} /\ m <= Len(all) /\ m <= L /\ m \in Nat
  <2> DEFINE S == {Len(all), L}
  <2>1. S \in SUBSET Nat /\ S # {}
    BY <1>4, <1>5
  <2>2. Min(S) \in S /\ \A y \in S : Min(S) <= y
    <3> HIDE DEF S
    <3> QED
      BY <2>1, MinOfNat
  <2> QED
    BY <1>4, <1>5, <2>2
<1> HIDE DEF m
<1>7. Len(out) = m /\ DOMAIN out = 1..m /\ \A i \in 1..m : out[i] = all[i] /\ i \in DOMAIN all
  <2>0. Len(all) \in Nat /\ m \in Nat /\ m <= Len(all) => \A i \in 1..m : i \in 1..Len(all)
    OBVIOUS
  <2>1. all \in Seq(Rows) /\ m \in Nat /\ m <= Len(all) /\ \A i \in 1..m : i \in DOMAIN all
    BY <1>5, <1>6, <2>0, Zenon
  <2>2. out \in Seq(Rows) /\ Len(out) = m /\ \A i \in 1..m : out[i] = all[i]
    BY <2>1
  <2> HIDE DEF out
  <2> QED
    BY <2>1, <2>2
<1> HIDE DEF out
<1>8. \A i \in DOMAIN all : all[i] \in late
  BY <1>5 DEF ToSet
<1>9. ToSet(out) \subseteq late
  BY <1>7, <1>8 DEF ToSet
<1>10. \A i, k \in DOMAIN out : i < k => DueAfter(out[k], out[i])
  BY <1>5, <1>7
<1>11. ASSUME NEW r \in late, r \notin ToSet(out)
       PROVE  Len(out) = L /\ \A i \in DOMAIN out : DueAfter(r, out[i])
  <2>1. PICK k \in 1..Len(all) : all[k] = r
    BY <1>5 DEF ToSet
  <2>0. k \in Nat /\ m \in Nat /\ Len(all) \in Nat /\ k <= Len(all) /\ k \in DOMAIN all
    <3>1. Len(all) \in Nat => k \in Nat /\ k <= Len(all)
      OBVIOUS
    <3> QED
      BY <1>5, <1>6, <3>1, Zenon
  <2>2. k > m
    <3>1. k \notin 1..m
      BY <1>7, <1>11, <2>1 DEF ToSet
    <3> QED
      BY <2>0, <3>1
  <2>3. m = L
    BY <1>4, <1>6, <2>0, <2>2
  <2>4. ASSUME NEW i \in 1..m PROVE DueAfter(all[k], all[i])
    <3>1. i < k
      BY <2>0, <2>2
    <3> QED
      BY <1>5, <1>7, <2>0, <3>1
  <2> QED
    BY <1>7, <2>1, <2>3, <2>4
<1> QED
  BY <1>3, <1>9, <1>10, <1>11 DEF late, L

(* MemoryStorage.FetchDue (storage.go:344-378) returns the oldest due rows *)
(* in order, for any number of rows in any order of the map.               *)
THEOREM FetchDueIsOldestHolds == Spec => []FetchDueIsOldest
<1>1. InputOK => FetchDueIsOldest
  <2> SUFFICES ASSUME InputOK, input.of = "rows" PROVE FetchDueIsOldest
    BY DEF FetchDueIsOldest
  <2> DEFINE jobs == [i \in DOMAIN input.names |-> [name |-> input.names[i], next |-> input.next[i]]]
  <2>1. /\ input.names \in Seq(Nat) /\ input.next \in [1..Len(input.names) -> Nat]
        /\ \A i, k \in DOMAIN input.names : i # k => input.names[i] # input.names[k]
        /\ input.now \in Nat /\ input.limit \in Nat
    BY DEF InputOK
  <2>2. /\ Len(input.names) \in Nat /\ DOMAIN input.names = 1..Len(input.names)
        /\ \A i \in 1..Len(input.names) : input.names[i] \in Nat /\ input.next[i] \in Nat
    BY <2>1
  <2>3. jobs \in [1..Len(input.names) -> Rows]
    BY <2>2 DEF Rows
  <2>4. jobs \in Seq(Rows)
    <3> HIDE DEF jobs
    <3> QED
      BY <2>2, <2>3
  <2>5. \A i, k \in DOMAIN jobs : i # k => jobs[i] # jobs[k]
    <3> SUFFICES ASSUME NEW i \in DOMAIN input.names, NEW k \in DOMAIN input.names, i # k
                 PROVE  jobs[i] # jobs[k]
      OBVIOUS
    <3>1. jobs[i].name = input.names[i] /\ jobs[k].name = input.names[k]
      OBVIOUS
    <3> QED
      BY <2>1, <3>1
  <2> HIDE DEF jobs
  <2>6. LET late == {r \in ToSet(jobs) : r.next <= input.now}
            out  == FetchDue(jobs, input.now, input.limit)
        IN  /\ ToSet(out) \subseteq late
            /\ \A i, k \in DOMAIN out : i < k => DueAfter(out[k], out[i])
            /\ \A r \in late \ ToSet(out) : /\ Len(out) = Limit(input.limit)
                                            /\ \A i \in DOMAIN out : DueAfter(r, out[i])
    BY <2>1, <2>4, <2>5, FetchDueCuts
  <2> QED
    BY <2>6, Zenon DEF FetchDueIsOldest, jobs
<1> QED
  BY <1>1, InputIsOK, PTL

----------------------------------------------------------------------------
\* The leader of the scheduler New returns, from what its options left.
LeaderOf(res, sc, pool) ==
    res.error = Nil => res.leader = IF ~ sc.leaderConfigured /\ pool THEN "postgres" ELSE sc.leader

(* New (sundial.go:154-217) rejects its arguments or makes a scheduler of  *)
(* what its options leave.                                                 *)
LEMMA NewMakes ==
    ASSUME NEW pool \in BOOLEAN, NEW opts, NEW schedOpts
    PROVE  /\ pool /\ opts.nodeID # "" /\ ~ (Defaulted(opts).tick < 100)
                 => New(pool, opts, schedOpts).error = Nil
           /\ LeaderOf(New(pool, opts, schedOpts), FoldLeft(ApplyOption, Fresh, schedOpts), pool)
<1> DEFINE sc == FoldLeft(ApplyOption, Fresh, schedOpts)
           o == Defaulted(opts)
           made == [error   |-> Nil,
                    opts    |-> o,
                    storage |-> IF sc.storage = Nil THEN "postgres" ELSE sc.storage,
                    leader  |-> IF ~ sc.leaderConfigured /\ pool THEN "postgres" ELSE sc.leader]
           res == New(pool, opts, schedOpts)
<1>1. res = IF opts.nodeID = "" THEN Rejected("ErrEmptyNodeID")
            ELSE IF o.tick < 100 THEN Rejected("ErrTickTooSmall")
            ELSE IF sc.storage = Nil /\ ~ pool THEN Rejected("pool or WithStorage")
            ELSE made
  BY Zenon DEF New
<1> HIDE DEF sc, o, res
<1>2. \A e : Rejected(e).error = e
  BY DEF Rejected
<1>3. /\ made.error = Nil
      /\ made.leader = IF ~ sc.leaderConfigured /\ pool THEN "postgres" ELSE sc.leader
  OBVIOUS
<1> HIDE DEF made
<1>4. pool /\ opts.nodeID # "" /\ ~ (o.tick < 100) => res = made
  BY <1>1
<1>5. res = made \/ res.error \in {"ErrEmptyNodeID", "ErrTickTooSmall", "pool or WithStorage"}
  BY <1>1, <1>2
<1>6. res.error = Nil => res = made
  BY <1>5 DEF Nil
<1>7. /\ pool /\ opts.nodeID # "" /\ ~ (o.tick < 100) => res.error = Nil
      /\ LeaderOf(res, sc, pool)
  BY <1>3, <1>4, <1>6 DEF LeaderOf
<1> QED
  BY <1>7, Zenon DEF sc, o, res

(* New accepts whatever AutoNodeID returns (sundial.go:32-45, 159-161),    *)
(* whatever the process finds.                                             *)
THEOREM NodeIDAcceptedHolds == Spec => []NodeIDAccepted
<1>1. ASSUME NEW id, id # ""
      PROVE  New(TRUE, [nodeID |-> id, tick |-> 0, grace |-> 0, renew |-> 0], << >>).error = Nil
  <2> DEFINE opts == [nodeID |-> id, tick |-> 0, grace |-> 0, renew |-> 0]
  <2>0. Defaulted(opts) = [nodeID |-> id, tick |-> 1000, grace |-> 30000, renew |-> 10000]
    <3> DEFINE o1 == [opts EXCEPT !.tick = OrDefault(opts.tick, 1000)]
               o2 == [o1 EXCEPT !.grace = OrDefault(o1.grace, 30000)]
               o3 == [o2 EXCEPT !.renew = OrDefault(o2.renew, 10000)]
    <3>1. Defaulted(opts) = o3
      BY DEF Defaulted
    <3>2. o1 = [nodeID |-> id, tick |-> 1000, grace |-> 0, renew |-> 0]
      <4>1. OrDefault(opts.tick, 1000) = 1000
        BY DEF OrDefault
      <4> QED
        BY <4>1
    <3> HIDE DEF o1
    <3>3. o2 = [nodeID |-> id, tick |-> 1000, grace |-> 30000, renew |-> 0]
      <4>1. OrDefault(o1.grace, 30000) = 30000
        BY <3>2 DEF OrDefault
      <4> QED
        BY <3>2, <4>1
    <3> HIDE DEF o2
    <3>4. o3 = [nodeID |-> id, tick |-> 1000, grace |-> 30000, renew |-> 10000]
      <4>1. OrDefault(o2.renew, 10000) = 10000
        BY <3>3 DEF OrDefault
      <4> QED
        BY <3>3, <4>1
    <3> HIDE DEF o3, opts
    <3> QED
      BY <3>1, <3>4
  <2>1. opts.nodeID # ""
    BY <1>1
  <2> HIDE DEF opts
  <2>4. ~ (Defaulted(opts).tick < 100)
    BY <2>0
  <2>5. opts.nodeID # "" /\ ~ (Defaulted(opts).tick < 100) => New(TRUE, opts, << >>).error = Nil
    BY NewMakes, Zenon
  <2>2. New(TRUE, opts, << >>).error = Nil
    BY <2>1, <2>4, <2>5
  <2> QED
    BY <2>2 DEF opts
<1>2. InputOK => NodeIDAccepted
  <2> SUFFICES ASSUME InputOK, input.of = "host" PROVE NodeIDAccepted
    BY DEF NodeIDAccepted
  <2> DEFINE id == AutoNodeID(input.host, input.env, input.canRead)
  <2>1. id # "" /\ ((input.env = "" /\ input.canRead) => id \in {"web-1", RandomID})
    BY DEF InputOK, AutoNodeID, RandomID
  <2> HIDE DEF id
  <2>2. New(TRUE, [nodeID |-> id, tick |-> 0, grace |-> 0, renew |-> 0], << >>).error = Nil
    BY <1>1, <2>1
  <2> QED
    BY <2>1, <2>2, Zenon DEF NodeIDAccepted, id
<1> QED
  BY <1>2, InputIsOK, PTL

\* A scheduler under construction, and the options of New.
Values == {Nil, "memory", "memory1", "memory2"}
Partial == [storage : Values, leader : Values, leaderConfigured : BOOLEAN]
Options == [kind : {"storage", "leader", "logger"}, val : Values]

(* What an option does to the leader and to the sentinel of New's loop.    *)
LEMMA ApplyOptionSets ==
    ASSUME NEW sc \in Partial, NEW o \in Options
    PROVE  /\ ApplyOption(sc, o) \in Partial
           /\ ApplyOption(sc, o).leader = IF o.kind = "leader" THEN o.val ELSE sc.leader
           /\ ApplyOption(sc, o).leaderConfigured
                 = (\/ sc.leaderConfigured \/ ApplyOption(sc, o).leader # Nil
                    \/ ApplyOption(sc, o).leader # sc.leader)
<1> DEFINE after == Apply(sc, o)
<1>1. /\ after \in Partial /\ after.leaderConfigured = sc.leaderConfigured
      /\ after.leader = IF o.kind = "leader" THEN o.val ELSE sc.leader
  BY DEF Apply, WithStorage, WithLeader, Partial, Options
<1>2. ApplyOption(sc, o) = [after EXCEPT !.leaderConfigured =
                              after.leaderConfigured \/ after.leader # Nil \/ after.leader # sc.leader]
  BY DEF ApplyOption
<1> HIDE DEF after
<1>3. /\ ApplyOption(sc, o) \in Partial
      /\ ApplyOption(sc, o).leader = after.leader
      /\ ApplyOption(sc, o).leaderConfigured
            = (after.leaderConfigured \/ after.leader # Nil \/ after.leader # sc.leader)
  BY <1>1, <1>2 DEF Partial
<1> QED
  BY <1>1, <1>3

\* What New's loop does with the i-th option.
OptionTurn(opts) == [i \in 1..Len(opts) |-> [v \in Partial |-> ApplyOption(v, opts[i])]]

(* New applies its options in a loop.                                      *)
LEMMA OptionsLoop ==
    ASSUME NEW opts \in Seq(Options)
    PROVE  LoopEnds(FoldLeft(ApplyOption, Fresh, opts), Partial, Len(opts), Fresh, OptionTurn(opts))
<1> DEFINE n == Len(opts)
           V == Partial
           turn == OptionTurn(opts)
           Op(v, s) == ApplyOption(v, opts[Max(s)])
           Body(f) == [s \in SUBSET DOMAIN opts |->
                         IF s = {} THEN Fresh ELSE Op(f[s \ {Max(s)}], s)]
           iter == CHOOSE f : f = Body(f)
<1>1. n \in Nat /\ DOMAIN opts = 1..n /\ Fresh \in V
  <2>1. Fresh \in Partial
    <3>1. FALSE \in BOOLEAN
      OBVIOUS
    <3> QED
      BY <3>1, Zenon DEF Fresh, Partial, Values
  <2> QED
    BY <2>1
<1>2. \A i \in 1..n, v \in V : ApplyOption(v, opts[i]) \in V
  <2>1. \A i \in 1..n : opts[i] \in Options
    OBVIOUS
  <2> QED
    BY <2>1, ApplyOptionSets
<1>3. turn \in [1..n -> [V -> V]] /\ \A i \in 1..n, v \in V : turn[i][v] = ApplyOption(v, opts[i])
  BY <1>2 DEF OptionTurn
<1>4. FoldLeft(ApplyOption, Fresh, opts) = iter[DOMAIN opts]
  BY Zenon DEF FoldLeft, MapThenFoldSet
<1> HIDE DEF n, V, turn
<1>5. \A s \in SUBSET (1..n), v \in V : s # {} => turn[Max(s)][v] = Op(v, s)
  BY <1>1, <1>3, MaxOfIndices
<1> HIDE DEF Op
<1>6. \E f : f = Body(f)
  <2>1. PICK f : Folds(f, V, n, Fresh, turn)
    BY <1>1, <1>3, FoldExists
  <2>2. f \in [SUBSET DOMAIN opts -> V] /\ f[{}] = Fresh
    BY <1>1, <2>1 DEF Folds
  <2>3. ASSUME NEW s \in SUBSET (1..n), s # {} PROVE f[s] = Op(f[s \ {Max(s)}], s)
    BY <1>1, <1>5, <2>1, <2>3, MaxOfIndices DEF Folds
  <2> QED
    BY <1>1, <2>2, <2>3
<1>7. iter = Body(iter)
  <2> HIDE DEF Body
  <2> QED
    BY <1>6
<1> HIDE DEF iter
<1>8. /\ iter[{}] = Fresh
      /\ \A s \in SUBSET (1..n) : s # {} => iter[s] = Op(iter[s \ {Max(s)}], s)
  BY <1>1, <1>7
<1>9. Recurs(iter, V, n, Fresh, turn)
  BY <1>5, <1>8 DEF Recurs
<1>10. LoopEnds(iter[1..n], V, n, Fresh, turn)
  BY <1>1, <1>3, <1>9, FoldTurns
<1> QED
  BY <1>1, <1>4, <1>10 DEF n, V, turn

\* What New's loop knows after i options: the leader is that of the last
\* WithLeader, and it counts as configured once one of them named one.
LeaderKnown(sc, opts, i) ==
    LET leaders == {k \in 1..i : opts[k].kind = "leader"}
    IN  /\ sc \in Partial
        /\ sc.leaderConfigured = (\E k \in leaders : opts[k].val # Nil)
        /\ IF leaders = {} THEN sc.leader = Nil
           ELSE \E k \in leaders : sc.leader = opts[k].val /\ \A j \in leaders : j <= k

(* One turn of New's loop.                                                 *)
LEMMA LeaderKnownStep ==
    ASSUME NEW opts \in Seq(Options), NEW i \in Nat, i + 1 \in 1..Len(opts),
           NEW sc \in Partial, LeaderKnown(sc, opts, i)
    PROVE  LeaderKnown(ApplyOption(sc, opts[i + 1]), opts, i + 1)
<1> DEFINE o == opts[i + 1]
           after == ApplyOption(sc, o)
           before == {k \in 1..i : opts[k].kind = "leader"}
           leaders == {k \in 1..(i + 1) : opts[k].kind = "leader"}
<1>1. o \in Options
  OBVIOUS
<1>2. /\ after \in Partial
      /\ after.leader = IF o.kind = "leader" THEN o.val ELSE sc.leader
      /\ after.leaderConfigured
            = (sc.leaderConfigured \/ after.leader # Nil \/ after.leader # sc.leader)
  BY <1>1, ApplyOptionSets
<1>3. leaders = IF o.kind = "leader" THEN before \cup {i + 1} ELSE before
  <2>1. \A k : k \in 1..(i + 1) <=> k \in 1..i \/ k = i + 1
    OBVIOUS
  <2> QED
    BY <2>1
<1>4. /\ sc.leaderConfigured = (\E k \in before : opts[k].val # Nil)
      /\ IF before = {} THEN sc.leader = Nil
         ELSE \E k \in before : sc.leader = opts[k].val /\ \A j \in before : j <= k
  BY DEF LeaderKnown
<1>5. sc.leader # Nil => sc.leaderConfigured
  BY <1>4
<1>6. \A k \in before : k \in Nat /\ k <= i + 1
  OBVIOUS
<1> HIDE DEF before, leaders, after
<1>7. CASE o.kind = "leader"
  <2>1. after.leaderConfigured = (\E k \in leaders : opts[k].val # Nil)
    <3>1. after.leader = opts[i + 1].val
      BY <1>2, <1>7
    <3>2. (\E k \in leaders : opts[k].val # Nil)
            <=> (\E k \in before : opts[k].val # Nil) \/ opts[i + 1].val # Nil
      BY <1>3, <1>7
    <3>3. after.leaderConfigured <=> (\E k \in leaders : opts[k].val # Nil)
      BY <1>2, <1>4, <1>5, <3>1, <3>2
    <3> QED
      BY <3>3, <1>2 DEF Partial
  <2>2. i + 1 \in leaders /\ after.leader = opts[i + 1].val /\ \A j \in leaders : j <= i + 1
    BY <1>2, <1>3, <1>6, <1>7
  <2> QED
    BY <1>2, <2>1, <2>2 DEF LeaderKnown, leaders, after
<1>8. CASE o.kind # "leader"
  <2>1. leaders = before /\ after.leader = sc.leader
    BY <1>2, <1>3, <1>8
  <2>2. after.leaderConfigured = sc.leaderConfigured
    BY <1>2, <1>5, <2>1 DEF Partial
  <2> QED
    BY <1>2, <1>4, <2>1, <2>2 DEF LeaderKnown, leaders, after
<1> QED
  BY <1>7, <1>8

(* What New's loop leaves.                                                 *)
LEMMA OptionsLeave ==
    ASSUME NEW opts \in Seq(Options), NEW sc,
           LoopEnds(sc, Partial, Len(opts), Fresh, OptionTurn(opts))
    PROVE  LeaderKnown(sc, opts, Len(opts))
<1> DEFINE n == Len(opts)
<1>1. PICK acc : Turns(acc, Partial, n, Fresh, OptionTurn(opts)) /\ acc[n] = sc
  BY DEF LoopEnds
<1>2. n \in Nat /\ acc[0] = Fresh /\ \A i \in 0..n : acc[i] \in Partial
  BY <1>1 DEF Turns
<1> DEFINE Good == {i \in Nat : i <= n => LeaderKnown(acc[i], opts, i)}
<1>3. 0 \in Good
  <2>1. Fresh \in Partial /\ Fresh.leader = Nil /\ Fresh.leaderConfigured = FALSE
    <3>1. Fresh \in Partial
      BY <1>2
    <3> QED
      BY <3>1 DEF Fresh
  <2>2. {k \in 1..0 : opts[k].kind = "leader"} = {}
    OBVIOUS
  <2>3. LeaderKnown(Fresh, opts, 0)
    BY <2>1, <2>2 DEF LeaderKnown
  <2> QED
    BY <1>2, <2>3
<1>4. ASSUME NEW i \in Good PROVE i + 1 \in Good
  <2> SUFFICES ASSUME i + 1 <= n PROVE LeaderKnown(acc[i + 1], opts, i + 1)
    OBVIOUS
  <2>1. i \in Nat /\ i + 1 \in 1..n /\ (i + 1) - 1 = i /\ i \in 0..n /\ i <= n
    BY <1>2
  <2>2. LeaderKnown(acc[i], opts, i) /\ acc[i] \in Partial
    BY <1>2, <2>1
  <2>3. acc[i + 1] = OptionTurn(opts)[i + 1][acc[(i + 1) - 1]]
    BY <1>1, <2>1, Zenon DEF Turns
  <2>4. acc[i + 1] = ApplyOption(acc[i], opts[i + 1])
    BY <2>1, <2>2, <2>3 DEF OptionTurn
  <2> QED
    BY <2>1, <2>2, <2>4, LeaderKnownStep
<1>5. Good = Nat
  <2> HIDE DEF Good
  <2> QED
    BY <1>3, <1>4, InductionOnNat DEF Good
<1> QED
  BY <1>1, <1>2, <1>5

(* New (sundial.go:184-216) ends with the leader of the last WithLeader    *)
(* once any of them named one, and with the default of the pool if there   *)
(* was none, for option lists of any length.                               *)
THEOREM LeaderOnceNamedHolds == Spec => []LeaderOnceNamed
<1>1. InputOK => LeaderOnceNamed
  <2> SUFFICES ASSUME InputOK, input.of = "new",
                      \/ \A i \in DOMAIN input.schedOpts : input.schedOpts[i].kind # "leader"
                      \/ \E i \in DOMAIN input.schedOpts : /\ input.schedOpts[i].kind = "leader"
                                                           /\ input.schedOpts[i].val # Nil
               PROVE  LeaderAsDocumented
    BY DEF LeaderOnceNamed, LeaderAsDocumented
  <2> DEFINE opts == input.schedOpts
             n == Len(opts)
             result == New(input.pool, input.opts, opts)
             leaders == {i \in DOMAIN opts : opts[i].kind = "leader"}
             default == IF input.pool THEN "postgres" ELSE Nil
             sc == FoldLeft(ApplyOption, Fresh, opts)
  <2>1. opts \in Seq(SomeOptions) /\ input.pool \in BOOLEAN
    BY DEF InputOK
  <2>2. SomeOptions \subseteq Options
    BY DEF SomeOptions, Options, Values
  <2>3. opts \in Seq(Options) /\ n \in Nat /\ DOMAIN opts = 1..n
    <3>1. opts \in Seq(Options)
      <4> HIDE DEF opts
      <4> QED
        BY <2>1, <2>2
    <3> QED
      BY <3>1
  <2>4. LeaderOf(result, sc, input.pool)
    BY <2>1, NewMakes, Zenon
  <2>5. LoopEnds(sc, Partial, n, Fresh, OptionTurn(opts))
    BY <2>3, OptionsLoop, Zenon
  <2> HIDE DEF sc, result
  <2>6. LeaderKnown(sc, opts, n)
    BY <2>3, <2>5, OptionsLeave
  <2>7. /\ sc.leaderConfigured = (\E k \in leaders : opts[k].val # Nil)
        /\ IF leaders = {} THEN sc.leader = Nil
           ELSE \E k \in leaders : sc.leader = opts[k].val /\ \A j \in leaders : j <= k
    BY <2>3, <2>6 DEF LeaderKnown
  <2>8. leaders # {} => Max(leaders) \in leaders /\ \A j \in leaders : j <= Max(leaders)
    <3>1. leaders \in SUBSET (0..n)
      BY <2>3
    <3> HIDE DEF leaders
    <3> QED
      BY <2>3, <3>1, MaxOfBounded
  <2>9. \A k \in leaders : k \in Nat
    BY <2>3
  <2>13. leaders = {} \/ \E k \in leaders : opts[k].val # Nil
    OBVIOUS
  <2> HIDE DEF leaders, opts, n
  <2>10. leaders # {} => sc.leader = opts[Max(leaders)].val
    <3> SUFFICES ASSUME leaders # {} PROVE sc.leader = opts[Max(leaders)].val
      OBVIOUS
    <3>1. PICK k \in leaders : sc.leader = opts[k].val /\ \A j \in leaders : j <= k
      BY <2>7
    <3>2. ASSUME NEW m \in leaders, \A j \in leaders : j <= m PROVE m = k
      BY <2>9, <3>1, <3>2
    <3>3. Max(leaders) = k
      BY <2>8, <3>2
    <3> QED
      BY <3>1, <3>3
  <2>11. CASE leaders = {}
    <3>1. ~ sc.leaderConfigured /\ sc.leader = Nil
      BY <2>7, <2>11
    <3>2. result.error = Nil => result.leader = default
      BY <2>4, <3>1 DEF LeaderOf
    <3> QED
      BY <2>11, <3>2, Zenon DEF LeaderAsDocumented, result, leaders, opts
  <2>12. CASE leaders # {}
    <3>1. sc.leaderConfigured
      BY <2>7, <2>12, <2>13
    <3>2. result.error = Nil => result.leader = opts[Max(leaders)].val
      BY <2>4, <2>10, <2>12, <3>1 DEF LeaderOf
    <3> QED
      BY <2>12, <3>2, Zenon DEF LeaderAsDocumented, result, leaders, opts
  <2> QED
    BY <2>11, <2>12
<1> QED
  BY <1>1, InputIsOK, PTL
=============================================================================
