--------------------------- MODULE ScheduleProofs ---------------------------
(***************************************************************************)
(* Facts about the operators of Schedule, for every schedule and instant.  *)
(***************************************************************************)
EXTENDS Schedule, WellFoundedInduction, FiniteSetTheorems, TLAPS

(* Min picks the least member of a non-empty set of natural numbers.       *)
LEMMA MinOfNat ==
    ASSUME NEW S \in SUBSET Nat, S # {}
    PROVE  Min(S) \in S /\ \A y \in S : Min(S) <= y
<1>1. PICK x \in S : \A y \in S : ~ (<<y, x>> \in OpToRel(<, Nat))
  BY NatLessThanWellFounded, WFMin, Zenon
<1>2. ASSUME NEW y \in S PROVE x <= y
  <2>1. y < x => <<y, x>> \in OpToRel(<, Nat)
    BY Zenon DEF OpToRel
  <2>2. ~ (y < x)
    BY <1>1, <2>1
  <2>3. QED
    BY <2>2
<1>3. QED
  BY <1>2 DEF Min

(* Induction over the natural numbers, with a set for the predicate.       *)
LEMMA InductionOnNat ==
    ASSUME NEW S \in SUBSET Nat, 0 \in S, \A n \in S : n + 1 \in S
    PROVE  S = Nat
<1>1. SUFFICES ASSUME Nat \ S # {} PROVE FALSE
  OBVIOUS
<1>2. Min(Nat \ S) \in Nat \ S /\ \A y \in Nat \ S : Min(Nat \ S) <= y
  BY <1>1, MinOfNat
<1> QED
  BY <1>2

\* The values that `step` takes `base` through.
Unfolds(f, V, base, step) ==
    /\ f \in [Nat -> V]
    /\ f[0] = base
    /\ \A i \in Nat : f[i + 1] = step[i][f[i]]

(* A function on the natural numbers may be defined by its first value and *)
(* by what each step does to the value before.                             *)
LEMMA RecursionOnNat ==
    ASSUME NEW V, NEW base \in V, NEW step \in [Nat -> [V -> V]]
    PROVE  \E f : Unfolds(f, V, base, step)
<1> DEFINE Approx(g, k) == /\ g \in [0..k -> V] /\ g[0] = base
                           /\ \A i \in 0..(k - 1) : g[i + 1] = step[i][g[i]]
           Defined == {k \in Nat : \E g : Approx(g, k)}
           F == [k \in Nat |-> CHOOSE g : Approx(g, k)]
           f == [k \in Nat |-> F[k][k]]
<1>1. Defined = Nat
  <2>1. 0 \in Defined
    <3> DEFINE g == [i \in 0..0 |-> base]
    <3>1. Approx(g, 0)
      OBVIOUS
    <3> QED
      BY <3>1
  <2>2. ASSUME NEW k \in Defined PROVE k + 1 \in Defined
    <3>1. PICK g : Approx(g, k)
      OBVIOUS
    <3> DEFINE h == [i \in 0..(k + 1) |-> IF i = k + 1 THEN step[k][g[k]] ELSE g[i]]
    <3>2. h \in [0..(k + 1) -> V] /\ h[0] = base
      BY <3>1
    <3>3. ASSUME NEW i \in 0..((k + 1) - 1) PROVE h[i + 1] = step[i][h[i]]
      BY <3>1
    <3>4. Approx(h, k + 1)
      BY <3>2, <3>3
    <3> HIDE DEF h, Approx
    <3> QED
      BY <3>4
  <2> HIDE DEF Defined
  <2> QED
    BY <2>1, <2>2, InductionOnNat DEF Defined
<1>2. \A k \in Nat : Approx(F[k], k)
  <2> SUFFICES ASSUME NEW k \in Nat PROVE Approx(F[k], k)
    OBVIOUS
  <2>1. \E g : Approx(g, k)
    BY <1>1
  <2> HIDE DEF Approx
  <2> QED
    BY <2>1
<1>3. \A k \in Nat : F[k + 1][k] = F[k][k]
  <2> SUFFICES ASSUME NEW k \in Nat PROVE F[k + 1][k] = F[k][k]
    OBVIOUS
  <2> DEFINE Agree == {i \in Nat : i <= k => F[k + 1][i] = F[k][i]}
  <2>0. Approx(F[k], k) /\ Approx(F[k + 1], k + 1)
    <3> HIDE DEF F, Approx
    <3> QED
      BY <1>2
  <2> HIDE DEF F
  <2>1. 0 \in Agree
    BY <2>0
  <2>2. ASSUME NEW i \in Agree PROVE i + 1 \in Agree
    <3>1. i \in Nat /\ (i <= k => F[k + 1][i] = F[k][i])
      OBVIOUS
    <3>2. ASSUME i + 1 <= k PROVE F[k + 1][i + 1] = F[k][i + 1]
      <4>1. i \in 0..(k - 1) /\ i \in 0..((k + 1) - 1) /\ i <= k
        BY <3>1, <3>2
      <4>2. F[k][i + 1] = step[i][F[k][i]]
        BY <2>0, <4>1
      <4>3. F[k + 1][i + 1] = step[i][F[k + 1][i]]
        BY <2>0, <4>1
      <4> QED
        BY <3>1, <4>1, <4>2, <4>3
    <3> QED
      BY <3>1, <3>2
  <2>3. Agree = Nat
    <3> HIDE DEF Agree
    <3> QED
      BY <2>1, <2>2, InductionOnNat DEF Agree
  <2>4. k \in Agree
    BY <2>3
  <2> QED
    BY <2>4
<1>4. f \in [Nat -> V] /\ f[0] = base
  <2> HIDE DEF F
  <2>1. \A k \in Nat : F[k][k] \in V /\ F[k][0] = base
    BY <1>2
  <2> QED
    BY <2>1
<1>5. ASSUME NEW i \in Nat PROVE f[i + 1] = step[i][f[i]]
  <2>1. Approx(F[i + 1], i + 1)
    <3> HIDE DEF F, Approx
    <3> QED
      BY <1>2
  <2> HIDE DEF F
  <2>2. F[i + 1][i + 1] = step[i][F[i + 1][i]]
    BY <2>1
  <2> QED
    BY <1>3, <2>2
<1> HIDE DEF f
<1> QED
  BY <1>4, <1>5 DEF Unfolds

----------------------------------------------------------------------------
(* Every kind of schedule answers with zero or with an instant strictly    *)
(* after the one asked for (schedule.go:18-30): a claimed row always moves *)
(* past the tick that claimed it.                                          *)
THEOREM NextFireIsLater ==
    ASSUME NEW s \in Schedules, NEW after \in Nat
    PROVE  /\ computeNextFire(s, after) \in Nat
           /\ computeNextFire(s, after) # ZeroTime => computeNextFire(s, after) > after
<1>1. CASE s \in [kind : {"every"}, d : Instant]
  BY <1>1 DEF computeNextFire, EveryNext, Instant, ZeroTime
<1>2. CASE s \in [kind : {"at"}, t : Instant]
  BY <1>2 DEF computeNextFire, AtNext, Instant, ZeroTime
<1>3. CASE s \in [kind : {"cron"}, fires : SUBSET Instant]
  <2> DEFINE later == {t \in s.fires : t > after}
  <2>1. later \in SUBSET Nat
    BY <1>3 DEF Instant
  <2>2. later # {} => Min(later) \in later
    BY <2>1, MinOfNat
  <2>3. computeNextFire(s, after) = IF later = {} THEN ZeroTime ELSE Min(later)
    BY <1>3 DEF computeNextFire, CronNext, RobfigNext
  <2>4. QED
    BY <2>1, <2>2, <2>3 DEF ZeroTime
<1>4. QED
  BY <1>1, <1>2, <1>3 DEF Schedules

(* The iterator's loop: each call of Next starts where the one before      *)
(* ended.                                                                  *)
LEMMA IteratedNextUnfolds ==
    ASSUME NEW s \in Schedules, NEW from \in Nat
    PROVE  LET fire == IteratedNext(s, from)
           IN  /\ fire \in [Nat -> Nat]
               /\ fire[0] = from
               /\ \A i \in Nat : fire[i + 1] = computeNextFire(s, fire[i])
<1> DEFINE step == [i \in Nat |-> [t \in Nat |-> computeNextFire(s, t)]]
           Body(f) == [i \in Nat |-> IF i = 0 THEN from ELSE computeNextFire(s, f[i - 1])]
           fire == IteratedNext(s, from)
<1>1. step \in [Nat -> [Nat -> Nat]]
  BY NextFireIsLater
<1>2. PICK f : Unfolds(f, Nat, from, step)
  <2> HIDE DEF step
  <2> QED
    BY <1>1, RecursionOnNat
<1>3. f = Body(f)
  <2>1. ASSUME NEW i \in Nat PROVE f[i] = IF i = 0 THEN from ELSE computeNextFire(s, f[i - 1])
    <3>1. CASE i # 0
      <4>1. i - 1 \in Nat /\ (i - 1) + 1 = i
        BY <3>1
      <4>2. f[(i - 1) + 1] = step[i - 1][f[i - 1]]
        BY <1>2, <4>1, Zenon DEF Unfolds
      <4>3. f[i - 1] \in Nat
        BY <1>2, <4>1 DEF Unfolds
      <4> QED
        BY <3>1, <4>1, <4>2, <4>3
    <3> QED
      BY <1>2, <3>1 DEF Unfolds
  <2> QED
    BY <1>2, <2>1 DEF Unfolds
<1>4. fire = Body(fire)
  <2>1. fire = CHOOSE g : g = Body(g)
    BY Zenon DEF IteratedNext
  <2> HIDE DEF fire, Body
  <2> QED
    BY <1>3, <2>1
<1>5. fire[0] = from /\ \A i \in Nat : fire[i + 1] = computeNextFire(s, fire[i])
  <2> HIDE DEF fire
  <2>1. ASSUME NEW i \in Nat PROVE fire[i + 1] = computeNextFire(s, fire[i])
    BY <1>4
  <2>2. fire[0] = from
    BY <1>4
  <2> QED
    BY <2>1, <2>2
<1>6. \A i \in Nat : fire[i] \in Nat
  <2> DEFINE Typed == {i \in Nat : fire[i] \in Nat}
  <2> HIDE DEF fire
  <2>1. 0 \in Typed
    BY <1>5
  <2>2. ASSUME NEW i \in Typed PROVE i + 1 \in Typed
    BY <1>5, NextFireIsLater
  <2>3. Typed = Nat
    <3> HIDE DEF Typed
    <3> QED
      BY <2>1, <2>2, InductionOnNat DEF Typed
  <2> QED
    BY <2>3
<1>7. fire \in [Nat -> Nat]
  <2> HIDE DEF fire
  <2> QED
    BY <1>4, <1>6
<1> QED
  BY <1>5, <1>7

(* A multiple of d is followed by the next multiple and by nothing before. *)
LEMMA Multiples ==
    ASSUME NEW d \in Nat \ {0}, NEW x \in Nat, x % d = 0
    PROVE  /\ (x + d) % d = 0
           /\ \A y \in Nat : y % d = 0 /\ y > x => y >= x + d
<1> DEFINE q == x \div d
<1>1. q \in Nat /\ x = d * q
  OBVIOUS
<1>2. x + d = d * (q + 1)
  BY <1>1
<1>3. (d * (q + 1)) % d = 0
  <2> HIDE DEF q
  <2> QED BY <1>1
<1>4. ASSUME NEW y \in Nat, y % d = 0, y > x PROVE y >= x + d
  <2> DEFINE p == y \div d
  <2>1. p \in Nat /\ y = d * p
    BY <1>4
  <2> HIDE DEF p, q
  <2>2. p >= q + 1
    <3>1. SUFFICES ASSUME p <= q PROVE FALSE
      BY <1>1, <2>1
    <3>2. d * p <= d * q
      BY <1>1, <2>1, <3>1
    <3> QED BY <1>4, <1>1, <2>1, <3>2
  <2>3. d * p >= d * (q + 1)
    BY <1>1, <2>1, <2>2
  <2> QED BY <1>2, <2>1, <2>3
<1> QED BY <1>2, <1>3, <1>4

\* The instants after `from` that a schedule names.
InstantsAfter(s, from) ==
    {t \in Instant : /\ t > from
                     /\ \/ s.kind = "every" /\ (t - from) % s.d = 0
                        \/ s.kind = "at" /\ t = s.t
                        \/ s.kind = "cron" /\ t \in s.fires}

(* Next(a) (schedule.go:18-30) is the earliest instant after `a`, and zero *)
(* only if the schedule names none; `a` may be any instant the iteration   *)
(* reaches.                                                                *)
LEMMA NextIsFirst ==
    ASSUME NEW s \in Schedules, NEW from \in Nat, NEW a \in {from} \cup InstantsAfter(s, from)
    PROVE  LET t == computeNextFire(s, a)
               later == {u \in InstantsAfter(s, from) : u > a}
           IN  IF later = {} THEN t = ZeroTime ELSE t \in later /\ \A u \in later : t <= u
<1>0. a \in Nat /\ a >= from
  BY DEF InstantsAfter, Instant
<1>1. CASE s \in [kind : {"every"}, d : Instant]
  <2>1. s.kind = "every" /\ s.d \in Nat \ {0} /\ computeNextFire(s, a) = a + s.d
    BY <1>1 DEF computeNextFire, EveryNext, Instant, ZeroTime
  <2>2. (a - from) \in Nat /\ (a - from) % s.d = 0
    BY <1>0, <2>1 DEF InstantsAfter
  <2>3. ((a - from) + s.d) % s.d = 0
    BY <2>1, <2>2, Multiples
  <2>4. (a - from) + s.d = (a + s.d) - from
    BY <1>0, <2>1
  <2>5. a + s.d \in InstantsAfter(s, from) /\ a + s.d > a
    <3> DEFINE t == a + s.d
    <3>1. (t - from) % s.d = 0
      BY <2>3, <2>4
    <3>2. t \in Instant /\ t > a /\ t > from
      BY <1>0, <2>1 DEF Instant, ZeroTime
    <3> HIDE DEF t
    <3>3. t \in InstantsAfter(s, from) /\ t > a
      BY <2>1, <3>1, <3>2 DEF InstantsAfter
    <3> QED
      BY <3>3 DEF t
  <2>6. ASSUME NEW u \in InstantsAfter(s, from), u > a PROVE a + s.d <= u
    <3>1. u \in Nat /\ u - from \in Nat /\ (u - from) % s.d = 0 /\ u - from > a - from
      BY <1>0, <2>1, <2>6 DEF InstantsAfter, Instant
    <3>2. u - from >= (a - from) + s.d
      BY <2>1, <2>2, <3>1, Multiples
    <3> QED
      BY <1>0, <2>1, <3>1, <3>2
  <2> QED
    BY <2>1, <2>5, <2>6
<1>2. CASE s \in [kind : {"at"}, t : Instant]
  BY <1>0, <1>2 DEF computeNextFire, AtNext, Instant, ZeroTime, InstantsAfter
<1>3. CASE s \in [kind : {"cron"}, fires : SUBSET Instant]
  <2> DEFINE later == {t \in s.fires : t > a}
  <2>1. later \in SUBSET Nat
    BY <1>3 DEF Instant
  <2>2. later # {} => Min(later) \in later /\ \A u \in later : Min(later) <= u
    BY <2>1, MinOfNat
  <2>3. computeNextFire(s, a) = IF later = {} THEN ZeroTime ELSE Min(later)
    BY <1>3 DEF computeNextFire, CronNext, RobfigNext
  <2>4. later = {u \in InstantsAfter(s, from) : u > a}
    BY <1>0, <1>3 DEF InstantsAfter, Instant
  <2> HIDE DEF later
  <2> QED
    BY <2>2, <2>3, <2>4
<1> QED
  BY <1>1, <1>2, <1>3 DEF Schedules

\* The list has the oldest instants of a window, and all of them unless the
\* cap cut it.
OldestInside(out, s, from, until, limit) ==
    LET inside == {t \in InstantsAfter(s, from) : t < until}
    IN  /\ out \in Seq(inside)
        /\ \A i, k \in DOMAIN out : i < k => out[i] < out[k]
        /\ \A t \in inside : \/ \E i \in DOMAIN out : out[i] = t
                             \/ Len(out) = limit /\ \A i \in DOMAIN out : out[i] < t

(* iterateSchedule (schedule.go:91-105) is sound and complete for every    *)
(* schedule, window and cap: its instants are those the schedule names     *)
(* strictly inside the window, in order; what is missing comes after all   *)
(* of them and only because the cap was reached.                           *)
THEOREM IterateIsOldest ==
    ASSUME NEW s \in Schedules, NEW from \in Nat, NEW until \in Nat, NEW limit \in Nat
    PROVE  OldestInside(iterateSchedule(s, from, until, limit), s, from, until, limit)
<1> DEFINE fire == IteratedNext(s, from)
           out == iterateSchedule(s, from, until, limit)
           window == {t \in InstantsAfter(s, from) : t < until}
           returns(i) == fire[i] = ZeroTime \/ fire[i] >= until
           stops == {k \in 0..limit : k = limit \/ returns(k+1)}
           len == Min(stops)
           Found(t, i) == \E j \in 1..i : fire[j] = t
           Good == {i \in Nat : i <= len =>
                      /\ fire[i] \in {from} \cup InstantsAfter(s, from)
                      /\ fire[i] >= from + i
                      /\ i > 0 => fire[i] \in window
                      /\ \A j \in 1..(i - 1) : fire[j] < fire[i]
                      /\ \A t \in window : Found(t, i) \/ fire[i] < t}
<1>1. /\ fire \in [Nat -> Nat] /\ fire[0] = from
      /\ \A i \in Nat : fire[i + 1] = computeNextFire(s, fire[i])
  BY IteratedNextUnfolds
<1>2. len \in 0..limit /\ \A k \in stops : len <= k
  <2>1. stops \in SUBSET Nat /\ limit \in stops /\ stops \subseteq 0..limit
    OBVIOUS
  <2> HIDE DEF stops
  <2> QED
    BY <2>1, MinOfNat
<1>3. len = limit \/ returns(len + 1)
  <2>1. stops \in SUBSET Nat /\ limit \in stops
    OBVIOUS
  <2>2. Min(stops) \in stops
    <3> HIDE DEF stops
    <3> QED
      BY <2>1, MinOfNat
  <2> QED
    BY <2>2
<1>4. ASSUME NEW i \in Nat, i < len PROVE ~ returns(i + 1)
  <2>1. i \in 0..limit /\ i # limit
    BY <1>2, <1>4
  <2>2. i \notin stops
    <3> HIDE DEF stops
    <3> QED
      BY <1>2, <1>4
  <2> QED
    BY <2>1, <2>2
<1> HIDE DEF fire, len
<1>5. 0 \in Good
  BY <1>1 DEF InstantsAfter
<1>6. ASSUME NEW i \in Good PROVE i + 1 \in Good
  <2> SUFFICES ASSUME i + 1 <= len
               PROVE  /\ fire[i + 1] \in {from} \cup InstantsAfter(s, from)
                      /\ fire[i + 1] >= from + (i + 1)
                      /\ i + 1 > 0 => fire[i + 1] \in window
                      /\ \A j \in 1..((i + 1) - 1) : fire[j] < fire[i + 1]
                      /\ \A t \in window : Found(t, i + 1) \/ fire[i + 1] < t
    OBVIOUS
  <2>0. i \in Nat /\ len \in Nat /\ i < len
    BY <1>2
  <2>1. /\ fire[i] \in {from} \cup InstantsAfter(s, from) /\ fire[i] \in Nat
        /\ fire[i] >= from + i
        /\ \A j \in 1..(i - 1) : fire[j] < fire[i]
        /\ \A t \in window : Found(t, i) \/ fire[i] < t
    BY <1>1, <2>0
  <2> DEFINE later == {u \in InstantsAfter(s, from) : u > fire[i]}
  <2>2. fire[i + 1] = computeNextFire(s, fire[i]) /\ ~ returns(i + 1)
    BY <1>1, <1>4, <2>0
  <2>3. fire[i + 1] \in later /\ \A u \in later : fire[i + 1] <= u
    BY <2>1, <2>2, NextIsFirst DEF ZeroTime
  <2>4. fire[i + 1] \in window /\ fire[i + 1] > fire[i] /\ fire[i + 1] \in Nat
    BY <1>1, <2>2, <2>3
  <2>5. \A j \in 1..((i + 1) - 1) : fire[j] < fire[i + 1]
    BY <1>1, <2>1, <2>4
  <2>6. ASSUME NEW t \in window PROVE Found(t, i + 1) \/ fire[i + 1] < t
    <3>1. CASE Found(t, i)
      BY <3>1, <2>0
    <3>2. CASE fire[i] < t
      <4>1. t \in later /\ t \in Nat
        BY <3>2 DEF InstantsAfter, Instant
      <4>2. fire[i + 1] <= t
        BY <2>3, <4>1
      <4>3. i + 1 \in 1..(i + 1)
        BY <2>0
      <4> QED
        BY <2>4, <4>1, <4>2, <4>3
    <3> QED
      BY <2>1, <3>1, <3>2
  <2> QED
    BY <2>0, <2>1, <2>4, <2>5, <2>6
<1>7. \A i \in Nat : i \in Good
  <2> HIDE DEF Good
  <2>1. Good \in SUBSET Nat
    BY DEF Good
  <2> QED
    BY <1>5, <1>6, <2>1, InductionOnNat
<1>8. CASE limit <= 0 \/ from >= until
  <2>1. out = << >>
    BY <1>8 DEF iterateSchedule
  <2>2. window = {} \/ limit = 0
    BY <1>8 DEF InstantsAfter, Instant
  <2>4. Len(out) = 0 /\ DOMAIN out = {} /\ out \in Seq(window)
    BY <2>1
  <2> HIDE DEF out
  <2>5. OldestInside(out, s, from, until, limit)
    BY <2>2, <2>4 DEF OldestInside
  <2> QED
    BY <2>5 DEF out
<1>9. CASE ~ (limit <= 0 \/ from >= until)
  <2>1. out = [i \in 1..len |-> fire[i]]
    BY <1>9 DEF iterateSchedule, fire, len
  <2>2. len \in Nat
    BY <1>2
  <2>3. \A i \in 1..len : fire[i] \in window /\ i \in Good
    BY <1>7, <2>2
  <2>4. out \in Seq(window) /\ Len(out) = len /\ DOMAIN out = 1..len /\ \A i \in 1..len : out[i] = fire[i]
    BY <2>1, <2>2, <2>3
  <2> HIDE DEF out
  <2>5. ASSUME NEW i \in 1..len, NEW k \in 1..len, i < k PROVE fire[i] < fire[k]
    <3>1. k \in Good
      BY <2>3
    <3> QED
      BY <2>2, <2>5, <3>1
  <2>6. ASSUME NEW t \in window PROVE Found(t, len) \/ fire[len] < t
    <3>1. len \in Good
      BY <1>7, <2>2
    <3> QED
      BY <2>2, <3>1
  <2>7. ASSUME NEW i \in 1..len PROVE fire[i] <= fire[len]
    <3>1. i \in Nat /\ len \in 1..len /\ (i < len \/ i = len)
      BY <2>2
    <3>2. fire[i] \in Nat /\ fire[len] \in Nat
      BY <1>1, <2>2, <3>1
    <3>3. i < len => fire[i] < fire[len]
      BY <2>5, <3>1
    <3> QED
      BY <3>1, <3>2, <3>3
  <2>8. fire[len] \in {from} \cup InstantsAfter(s, from) /\ fire[len] >= from + len /\ fire[len] \in Nat
    <3>1. len \in Good
      BY <1>7, <2>2
    <3> QED
      BY <1>1, <2>2, <3>1
  <2>9. ASSUME NEW t \in window, fire[len] < t PROVE len = limit
    <3>1. t \in Nat /\ t < until /\ t \in {u \in InstantsAfter(s, from) : u > fire[len]}
      BY <2>9 DEF InstantsAfter, Instant
    <3>2. fire[len + 1] = computeNextFire(s, fire[len])
      BY <1>1, <2>2
    <3>3. fire[len + 1] \in InstantsAfter(s, from) /\ fire[len + 1] <= t
      BY <2>8, <3>1, <3>2, NextIsFirst
    <3>4. ~ returns(len + 1)
      BY <3>1, <3>3 DEF InstantsAfter, Instant
    <3> QED
      BY <1>3, <3>4
  <2>10. ASSUME NEW t \in window
         PROVE  Found(t, len) \/ (len = limit /\ \A i \in 1..len : fire[i] < t)
    <3>1. t \in Nat
      BY DEF InstantsAfter, Instant
    <3> QED
      BY <1>1, <2>2, <2>6, <2>7, <2>8, <2>9, <3>1
  <2>11. /\ out \in Seq(window)
         /\ \A i, k \in DOMAIN out : i < k => out[i] < out[k]
         /\ \A t \in window : \/ \E i \in DOMAIN out : out[i] = t
                              \/ Len(out) = limit /\ \A i \in DOMAIN out : out[i] < t
    <3> HIDE DEF window
    <3> QED
      BY <2>4, <2>5, <2>10
  <2>12. OldestInside(out, s, from, until, limit)
    BY <2>11, Zenon DEF OldestInside
  <2> QED
    BY <2>12 DEF out
<1> QED
  BY <1>8, <1>9

(* The list is a sequence of instants that respects the cap.               *)
LEMMA IterateLength ==
    ASSUME NEW s \in Schedules, NEW from \in Nat, NEW until \in Nat, NEW limit \in Nat
    PROVE  LET out == iterateSchedule(s, from, until, limit)
           IN  out \in Seq(Nat) /\ Len(out) <= limit
<1> DEFINE fire == IteratedNext(s, from)
           stops == {k \in 0..limit : k = limit \/ fire[k+1] = ZeroTime \/ fire[k+1] >= until}
           len == Min(stops)
<1>1. fire \in [Nat -> Nat]
  BY IteratedNextUnfolds
<1>2. len \in 0..limit
  <2>1. stops \in SUBSET Nat /\ limit \in stops /\ stops \subseteq 0..limit
    OBVIOUS
  <2> HIDE DEF stops
  <2> QED
    BY <2>1, MinOfNat
<1>3. iterateSchedule(s, from, until, limit) \in {<< >>, [i \in 1..len |-> fire[i]]}
  BY DEF iterateSchedule
<1>4. [i \in 1..len |-> fire[i]] \in Seq(Nat) /\ Len([i \in 1..len |-> fire[i]]) = len
  <2> HIDE DEF len, fire
  <2> QED
    BY <1>1, <1>2
<1>5. << >> \in Seq(Nat) /\ Len(<< >>) <= limit
  OBVIOUS
<1> DEFINE listed == [i \in 1..len |-> fire[i]]
<1>6. listed \in Seq(Nat) /\ Len(listed) <= limit
  BY <1>2, <1>4
<1> HIDE DEF len, fire, listed
<1> QED
  BY <1>3, <1>5, <1>6 DEF listed

\* The instant t is one of the entries of the list.
Covers(out, t) == \E i \in DOMAIN out : out[i] = t

(* A window with no more instants than the cap is replayed to the last of  *)
(* them.                                                                   *)
LEMMA IterateCovers ==
    ASSUME NEW s \in Schedules, NEW from \in Nat, NEW until \in Nat, NEW limit \in Nat,
           Cardinality({u \in InstantsAfter(s, from) : u < until}) <= limit,
           NEW t \in InstantsAfter(s, from), t < until
    PROVE  Covers(iterateSchedule(s, from, until, limit), t)
<1> DEFINE out == iterateSchedule(s, from, until, limit)
           inside == {u \in InstantsAfter(s, from) : u < until}
           image == {out[i] : i \in 1..limit}
<1>1. OldestInside(out, s, from, until, limit)
  BY IterateIsOldest
<1>2. t \in inside /\ Cardinality(inside) <= limit
  OBVIOUS
<1>3. IsFiniteSet(inside)
  <2>1. IsFiniteSet((from + 1)..until)
    BY FS_Interval
  <2>2. inside \subseteq (from + 1)..until
    BY DEF InstantsAfter, Instant
  <2> HIDE DEF inside
  <2> QED
    BY <2>1, <2>2, FS_Subset
<1> HIDE DEF out
<1>4. /\ out \in Seq(inside)
      /\ \A i, k \in DOMAIN out : i < k => out[i] < out[k]
      /\ \/ \E i \in DOMAIN out : out[i] = t
         \/ Len(out) = limit /\ \A i \in DOMAIN out : out[i] < t
  BY <1>1, <1>2, Zenon DEF OldestInside
<1>5. \A u \in inside : u \in Nat
  BY DEF InstantsAfter, Instant
<1> HIDE DEF inside
<1>6. ASSUME Len(out) = limit, \A i \in DOMAIN out : out[i] < t PROVE FALSE
  <2>1. DOMAIN out = 1..limit /\ \A i \in 1..limit : out[i] \in inside
    BY <1>4, <1>6
  <2>2. t \notin image
    BY <1>5, <1>6, <2>1
  <2>3. out \in Bijection(1..limit, image)
    <3>1. out \in [1..limit -> image]
      BY <1>4, <2>1
    <3>2. ASSUME NEW a \in 1..limit, NEW b \in 1..limit, out[a] = out[b] PROVE a = b
      <4>1. out[a] \in Nat /\ out[b] \in Nat /\ a \in Nat /\ b \in Nat
        BY <1>5, <2>1
      <4>2. a < b => out[a] < out[b]
        BY <1>4, <2>1
      <4>3. b < a => out[b] < out[a]
        BY <1>4, <2>1
      <4> QED
        BY <3>2, <4>1, <4>2, <4>3
    <3>3. \A y \in image : \E x \in 1..limit : out[x] = y
      OBVIOUS
    <3> QED
      BY <2>1, <3>1, <3>2, <3>3 DEF Bijection, Injection, Surjection, IsInjective
  <2>4. IsFiniteSet(1..limit) /\ Cardinality(1..limit) = limit
    BY FS_Interval
  <2>5. image \subseteq inside
    BY <2>1
  <2> HIDE DEF image
  <2>6. IsFiniteSet(image) /\ Cardinality(image) = limit
    BY <2>3, <2>4, FS_Bijection DEF ExistsBijection
  <2>7. Cardinality(image \cup {t}) = limit + 1
    BY <2>2, <2>6, FS_AddElement
  <2>8. image \cup {t} \subseteq inside
    BY <1>2, <2>5
  <2>9. Cardinality(image \cup {t}) <= Cardinality(inside)
    BY <1>3, <2>8, FS_Subset
  <2>10. Cardinality(inside) \in Nat
    BY <1>3, FS_CardinalityType
  <2> QED
    BY <1>2, <2>7, <2>9, <2>10
<1>7. \E i \in DOMAIN out : out[i] = t
  BY <1>4, <1>6
<1> QED
  BY <1>7 DEF Covers, out

----------------------------------------------------------------------------
(* A power is a product: the first is one, each further one is multiplied. *)
LEMMA PowUnfolds ==
    ASSUME NEW m \in Int, NEW k \in Nat
    PROVE  /\ Pow(m, k) \in Int
           /\ Pow(m, 0) = 1
           /\ Pow(m, k + 1) = m * Pow(m, k)
<1> DEFINE step == [i \in Nat |-> [v \in Int |-> m * v]]
           Body(f) == [i \in Nat |-> IF i = 0 THEN 1 ELSE m * f[i - 1]]
           power == CHOOSE f : f = Body(f)
<1>1. step \in [Nat -> [Int -> Int]]
  OBVIOUS
<1>2. PICK f : Unfolds(f, Int, 1, step)
  <2>1. 1 \in Int
    OBVIOUS
  <2> HIDE DEF step
  <2> QED
    BY <1>1, <2>1, RecursionOnNat, Zenon
<1>3. f = Body(f)
  <2>1. ASSUME NEW i \in Nat PROVE f[i] = IF i = 0 THEN 1 ELSE m * f[i - 1]
    <3>1. CASE i # 0
      <4>1. i - 1 \in Nat /\ (i - 1) + 1 = i
        BY <3>1
      <4>2. f[(i - 1) + 1] = step[i - 1][f[i - 1]]
        BY <1>2, <4>1, Zenon DEF Unfolds
      <4>3. f[i - 1] \in Int
        BY <1>2, <4>1 DEF Unfolds
      <4> QED
        BY <3>1, <4>1, <4>2, <4>3
    <3> QED
      BY <1>2, <3>1 DEF Unfolds
  <2> QED
    BY <1>2, <2>1 DEF Unfolds
<1>4. power = Body(power)
  <2> HIDE DEF Body
  <2> QED
    BY <1>3
<1>5. \A i \in Nat : Pow(m, i) = power[i]
  BY Zenon DEF Pow
<1> HIDE DEF power
<1>6. power[0] = 1 /\ \A i \in Nat : power[i + 1] = m * power[i]
  <2>1. ASSUME NEW i \in Nat PROVE power[i + 1] = m * power[i]
    BY <1>4
  <2> QED
    BY <1>4, <2>1
<1>7. \A i \in Nat : power[i] \in Int
  <2> DEFINE Typed == {i \in Nat : power[i] \in Int}
  <2>1. 0 \in Typed
    BY <1>6
  <2>2. ASSUME NEW i \in Typed PROVE i + 1 \in Typed
    BY <1>6
  <2>3. Typed = Nat
    <3> HIDE DEF Typed
    <3> QED
      BY <2>1, <2>2, InductionOnNat DEF Typed
  <2> QED
    BY <2>3
<1> QED
  BY <1>5, <1>6, <1>7

(* A power of a positive number is positive.                               *)
LEMMA PowPositive ==
    ASSUME NEW m \in Nat \ {0}, NEW k \in Nat
    PROVE  Pow(m, k) \in Nat \ {0}
<1> DEFINE Positive == {i \in Nat : Pow(m, i) \in Nat \ {0}}
<1>1. 0 \in Positive
  BY PowUnfolds
<1>2. ASSUME NEW i \in Positive PROVE i + 1 \in Positive
  <2>1. Pow(m, i + 1) = m * Pow(m, i) /\ Pow(m, i) \in Nat \ {0}
    BY PowUnfolds
  <2> QED
    BY <2>1
<1>3. Positive = Nat
  <2> HIDE DEF Positive
  <2> QED
    BY <1>1, <1>2, InductionOnNat DEF Positive
<1> QED
  BY <1>3

(* The quotient x \div q is the last b with q * b <= x.                    *)
LEMMA Quotient ==
    ASSUME NEW x \in Nat, NEW q \in Nat \ {0}, NEW b \in Int
    PROVE  /\ b <= x \div q => q * b <= x
           /\ x \div q <= b => x < q * (b + 1)
           /\ q * b <= x => b <= x \div q
<1> DEFINE d == x \div q
<1>1. d \in Int /\ q * d <= x /\ x < q * d + q
  OBVIOUS
<1> HIDE DEF d
<1>2. ASSUME b <= d PROVE q * b <= q * d
  BY <1>1, <1>2
<1>3. ASSUME d <= b PROVE q * d + q <= q * (b + 1)
  <2>1. q * (d + 1) <= q * (b + 1)
    BY <1>1, <1>3
  <2> QED
    BY <1>1, <2>1
<1>4. ASSUME b > d PROVE q * d + q <= q * b
  <2>1. q * (d + 1) <= q * b
    BY <1>1, <1>4
  <2> QED
    BY <1>1, <2>1
<1>5. q * b \in Int /\ q * d \in Int /\ q * (b + 1) \in Int
  BY <1>1
<1>6. /\ b <= d => q * b <= x
      /\ d <= b => x < q * (b + 1)
      /\ q * b <= x => b <= d
  BY <1>1, <1>2, <1>3, <1>4, <1>5
<1> QED
  BY <1>6 DEF d

(* The jitter moves a positive duration x/q to between half of it and one  *)
(* and a half times it, and truncation takes off less than one.            *)
LEMMA JitterOfPositive ==
    ASSUME NEW x \in Nat \ {0}, NEW q \in Nat \ {0}
    PROVE  /\ Jittered(x, q) # {}
           /\ \A b \in Jittered(x, q) : b \in Nat /\ (2 * q) * b < 3 * x /\ x < (2 * q) * (b + 1)
<1> DEFINE w == 2 * q
           lo == x \div w
           hi == (3 * x - 1) \div w
<1>1. w \in Nat \ {0} /\ 3 * x - 1 \in Nat /\ x <= 3 * x - 1
  OBVIOUS
<1>2. Jittered(x, q) = lo..hi
  BY DEF Jittered
<1> HIDE DEF w
<1>3. lo \in Nat /\ hi \in Int
  BY <1>1
<1>4. lo <= hi
  <2>1. w * lo <= x
    BY <1>1, <1>3, Quotient
  <2>2. w * lo <= 3 * x - 1
    BY <1>1, <1>3, <2>1
  <2> QED
    BY <1>1, <1>3, <2>2, Quotient
<1>5. ASSUME NEW b \in lo..hi PROVE b \in Nat /\ w * b < 3 * x /\ x < w * (b + 1)
  <2>1. b \in Nat /\ lo <= b /\ b <= hi
    BY <1>3
  <2>2. w * b <= 3 * x - 1
    BY <1>1, <2>1, Quotient
  <2>3. x < w * (b + 1)
    BY <1>1, <2>1, Quotient
  <2> QED
    BY <1>1, <2>1, <2>2, <2>3
<1> HIDE DEF lo, hi
<1>6. lo \in lo..hi
  BY <1>3, <1>4
<1> QED
  BY <1>2, <1>5, <1>6 DEF w

(* The jitter of a duration that is not positive is not positive.          *)
LEMMA JitterOfOthers ==
    ASSUME NEW x \in Int, x <= 0, NEW q \in Nat \ {0}
    PROVE  /\ Jittered(x, q) # {}
           /\ \A b \in Jittered(x, q) : b \in Int /\ b <= 0
<1>1. CASE x = 0
  BY <1>1 DEF Jittered
<1>2. CASE x < 0
  <2> DEFINE y == -x
             sizes == Jittered(y, q)
  <2>1. y \in Nat \ {0} /\ ~ (x > 0) /\ x # 0
    BY <1>2
  <2>2. sizes = (y \div (2 * q)) .. ((3 * y - 1) \div (2 * q))
    BY <2>1 DEF Jittered
  <2>3. Jittered(x, q) = {-b : b \in (y \div (2 * q)) .. ((3 * y - 1) \div (2 * q))}
    BY <2>1 DEF Jittered
  <2>4. Jittered(x, q) = {-b : b \in sizes}
    BY <2>2, <2>3
  <2>5. sizes # {} /\ \A b \in sizes : b \in Nat
    <3> HIDE DEF y
    <3> QED
      BY <2>1, JitterOfPositive
  <2> HIDE DEF sizes
  <2> QED
    BY <2>4, <2>5
<1> QED
  BY <1>1, <1>2

\* What computeBackoff applies the jitter to, in units of 1/Scale.
Base(r, attempt) ==
    IF Grown(r, attempt) > r.max * Scale(r, attempt) THEN r.max * Scale(r, attempt)
    ELSE Grown(r, attempt)

(* The clamped law is a fraction with a positive denominator.              *)
LEMMA BaseType ==
    ASSUME NEW r \in RawPolicies, NEW attempt \in Int
    PROVE  /\ computeBackoff(r, attempt) = Jittered(Base(r, attempt), Scale(r, attempt))
           /\ r.max \in Int
           /\ Scale(r, attempt) \in Nat \ {0}
           /\ Grown(r, attempt) \in Int
           /\ r.max * Scale(r, attempt) \in Int
           /\ Base(r, attempt) \in Int
           /\ Base(r, attempt) <= Grown(r, attempt)
           /\ Base(r, attempt) <= r.max * Scale(r, attempt)
           /\ Base(r, attempt) \in {Grown(r, attempt), r.max * Scale(r, attempt)}
<1>1. r.initial \in Int /\ r.max \in Int /\ r.multiplier.num \in Int /\ r.multiplier.den \in Nat \ {0}
  BY DEF RawPolicies
<1>2. Exponent(attempt) \in Nat
  BY DEF Exponent
<1>3. Scale(r, attempt) \in Nat \ {0}
  BY <1>1, <1>2, PowPositive, Zenon DEF Scale
<1>4. Pow(r.multiplier.num, Exponent(attempt)) \in Int
  BY <1>1, <1>2, PowUnfolds
<1>5. Grown(r, attempt) \in Int
  BY <1>1, <1>4 DEF Grown
<1>6. r.max * Scale(r, attempt) \in Int
  BY <1>1, <1>3
<1>7. computeBackoff(r, attempt) = Jittered(Base(r, attempt), Scale(r, attempt))
  BY Zenon DEF computeBackoff, Base
<1> QED
  BY <1>1, <1>3, <1>5, <1>6, <1>7 DEF Base

(* computeBackoff (dispatcher.go:454-465) for every policy a caller may    *)
(* write and every attempt: the jitter always leaves a delay; with a       *)
(* positive MaxBackoff no delay reaches one and a half times it, however   *)
(* large the power grows; and if the law is positive too, the delay is at  *)
(* least half of it, or of MaxBackoff, up to truncation.                   *)
THEOREM BackoffBounded ==
    ASSUME NEW r \in RawPolicies, NEW attempt \in Int
    PROVE  /\ computeBackoff(r, attempt) # {}
           /\ \A b \in computeBackoff(r, attempt) :
                /\ b \in Int
                /\ r.max > 0 => 2 * b < 3 * r.max
                /\ r.max > 0 /\ Grown(r, attempt) > 0 =>
                      /\ b \in Nat
                      /\ \/ (2 * Scale(r, attempt)) * (b + 1) > Grown(r, attempt)
                         \/ 2 * (b + 1) > r.max
<1> DEFINE S == Scale(r, attempt)
           G == Grown(r, attempt)
           x == Base(r, attempt)
           m == r.max
<1>1. /\ computeBackoff(r, attempt) = Jittered(x, S)
      /\ m \in Int /\ S \in Nat \ {0} /\ G \in Int /\ m * S \in Int /\ x \in Int
      /\ x <= G /\ x <= m * S /\ x \in {G, m * S}
  BY BaseType
<1> HIDE DEF S, G, x, m
<1>2. CASE x > 0
  <2>1. x \in Nat \ {0}
    BY <1>1, <1>2
  <2>2. /\ Jittered(x, S) # {}
        /\ \A b \in Jittered(x, S) : b \in Nat /\ (2 * S) * b < 3 * x /\ x < (2 * S) * (b + 1)
    BY <1>1, <2>1, JitterOfPositive
  <2>3. ASSUME NEW b \in Jittered(x, S) PROVE 2 * b < 3 * m
    <3>1. SUFFICES ASSUME 2 * b >= 3 * m PROVE FALSE
      BY <1>1, <2>2
    <3>2. b \in Nat /\ (2 * S) * b < 3 * x
      BY <2>2
    <3>3. S * (2 * b) >= S * (3 * m)
      BY <1>1, <3>1, <3>2
    <3>4. S * (2 * b) = (2 * S) * b /\ S * (3 * m) = 3 * (m * S)
      BY <1>1, <3>2
    <3> QED
      BY <1>1, <3>2, <3>3, <3>4
  <2>4. ASSUME NEW b \in Jittered(x, S), x = m * S PROVE 2 * (b + 1) > m
    <3>1. SUFFICES ASSUME 2 * (b + 1) <= m PROVE FALSE
      BY <1>1, <2>2
    <3>2. b \in Nat /\ m * S < (2 * S) * (b + 1)
      BY <2>2, <2>4
    <3>3. S * (2 * (b + 1)) <= S * m
      BY <1>1, <3>1, <3>2
    <3>4. S * (2 * (b + 1)) = (2 * S) * (b + 1) /\ S * m = m * S
      BY <1>1, <3>2
    <3> QED
      BY <1>1, <3>2, <3>3, <3>4
  <2> QED
    BY <1>1, <2>2, <2>3, <2>4 DEF S, G, m
<1>3. CASE x <= 0
  <2>1. Jittered(x, S) # {} /\ \A b \in Jittered(x, S) : b \in Int /\ b <= 0
    BY <1>1, <1>3, JitterOfOthers
  <2>2. ~ (m > 0 /\ G > 0)
    <3>1. m > 0 => m * S > 0
      BY <1>1
    <3> QED
      BY <1>1, <1>3, <3>1
  <2> QED
    BY <1>1, <2>1, <2>2 DEF S, G, m
<1> QED
  BY <1>1, <1>2, <1>3

(* The exponential law of a policy with positive fields is positive.       *)
LEMMA GrownPositive ==
    ASSUME NEW r \in RetryPolicies, NEW attempt \in Int
    PROVE  r \in RawPolicies /\ r.max > 0 /\ Grown(r, attempt) > 0
<1>1. /\ r.initial \in Nat \ {0} /\ r.max \in Nat \ {0}
      /\ r.multiplier.num \in Nat \ {0} /\ r \in RawPolicies
  BY DEF RetryPolicies, RawPolicies
<1>2. Exponent(attempt) \in Nat
  BY DEF Exponent
<1>3. Pow(r.multiplier.num, Exponent(attempt)) \in Nat \ {0}
  BY <1>1, <1>2, PowPositive, Zenon
<1> QED
  BY <1>1, <1>3 DEF Grown

(* With a multiplier of at least one (dispatcher.go:458) the next attempt  *)
(* waits more than a third of what this one did, up to truncation, though  *)
(* both are jittered and the clamp may lie between them.                   *)
THEOREM BackoffGrows ==
    ASSUME NEW r \in RetryPolicies, NEW attempt \in Nat \ {0},
           r.multiplier.num >= r.multiplier.den,
           NEW b \in computeBackoff(r, attempt), NEW c \in computeBackoff(r, attempt + 1)
    PROVE  b < 3 * (c + 1)
<1> DEFINE S == Scale(r, attempt)
           G == Grown(r, attempt)
           x == Base(r, attempt)
           y == Base(r, attempt + 1)
           m == r.max
           p == r.multiplier.num
           q == r.multiplier.den
<1>1. p \in Nat \ {0} /\ q \in Nat \ {0} /\ p >= q /\ r.initial \in Nat \ {0} /\ m \in Nat \ {0}
  BY DEF RetryPolicies
<1>2. r \in RawPolicies /\ attempt \in Int /\ attempt + 1 \in Int /\ G > 0 /\ Grown(r, attempt + 1) > 0
  BY GrownPositive
<1>3. /\ computeBackoff(r, attempt) = Jittered(x, S)
      /\ S \in Nat \ {0} /\ G \in Int /\ x \in Int
      /\ x <= G /\ x <= m * S /\ x \in {G, m * S}
  BY <1>2, BaseType
<1>4. /\ computeBackoff(r, attempt + 1) = Jittered(y, Scale(r, attempt + 1))
      /\ Scale(r, attempt + 1) \in Nat \ {0} /\ Grown(r, attempt + 1) \in Int /\ y \in Int
      /\ y \in {Grown(r, attempt + 1), m * Scale(r, attempt + 1)}
  BY <1>2, BaseType
<1>5. Scale(r, attempt + 1) = q * S /\ Grown(r, attempt + 1) = p * G
  <2>1. Exponent(attempt) \in Nat /\ Exponent(attempt + 1) = Exponent(attempt) + 1
    BY DEF Exponent
  <2>2. p \in Int /\ q \in Int
    BY <1>1
  <2>3. Scale(r, attempt + 1) = q * S
    <3>1. Pow(q, Exponent(attempt) + 1) = q * Pow(q, Exponent(attempt))
      <4> HIDE DEF q
      <4> QED
        BY <2>1, <2>2, PowUnfolds, Zenon
    <3> QED
      BY <2>1, <3>1 DEF Scale
  <2>4. Grown(r, attempt + 1) = p * G
    <3>1. Pow(p, Exponent(attempt) + 1) = p * Pow(p, Exponent(attempt)) /\ Pow(p, Exponent(attempt)) \in Int
      <4> HIDE DEF p
      <4> QED
        BY <2>1, <2>2, PowUnfolds, Zenon
    <3> DEFINE w == Pow(p, Exponent(attempt))
    <3>2. Grown(r, attempt + 1) = r.initial * (p * w) /\ G = r.initial * w /\ w \in Int
      BY <2>1, <3>1 DEF Grown
    <3> HIDE DEF w, G
    <3> QED
      BY <1>1, <3>2
  <2> QED
    BY <2>3, <2>4
<1> HIDE DEF S, G, x, y, m, p, q
<1>6. x * q <= y
  <2>1. x * q <= G * q /\ G * q <= p * G
    BY <1>1, <1>2, <1>3
  <2>2. x * q <= (m * S) * q /\ (m * S) * q = m * (q * S)
    BY <1>1, <1>3
  <2>3. x * q \in Int /\ G * q \in Int /\ p * G \in Int /\ m * (q * S) \in Int
    BY <1>1, <1>3
  <2> QED
    BY <1>4, <1>5, <2>1, <2>2, <2>3
<1>7. x \in Nat \ {0} /\ y \in Nat \ {0}
  <2>1. m * S > 0 /\ m * S \in Int
    BY <1>1, <1>3
  <2>2. x > 0
    BY <1>2, <1>3, <2>1
  <2>3. x * q > 0 /\ x * q \in Int
    BY <1>1, <1>3, <2>2
  <2> QED
    BY <1>3, <1>4, <1>6, <2>2, <2>3
<1>8. b \in Nat /\ (2 * S) * b < 3 * x
  BY <1>3, <1>7, JitterOfPositive
<1>9. c \in Nat /\ y < (2 * (q * S)) * (c + 1)
  <2>1. q * S \in Nat \ {0} /\ c \in Jittered(y, q * S)
    BY <1>4, <1>5
  <2> QED
    BY <1>7, <2>1, JitterOfPositive
<1>10. SUFFICES ASSUME b >= 3 * (c + 1) PROVE FALSE
  BY <1>8, <1>9
<1>11. ((2 * S) * b) * q < (3 * x) * q
  BY <1>1, <1>3, <1>8
<1> DEFINE P == q * S
<1>12. ((2 * S) * b) * q = 2 * (P * b) /\ (3 * x) * q = 3 * (x * q)
  BY <1>1, <1>3, <1>8
<1>13. (2 * P) * (c + 1) = 2 * (P * (c + 1)) /\ P \in Nat \ {0}
  BY <1>1, <1>3, <1>9
<1>14. P * b >= P * (3 * (c + 1)) /\ P * (3 * (c + 1)) = 3 * (P * (c + 1))
  <2> HIDE DEF P
  <2> QED
    BY <1>8, <1>9, <1>10, <1>13
<1>15. P * b \in Int /\ P * (c + 1) \in Int /\ x * q \in Int
  BY <1>1, <1>3, <1>8, <1>9, <1>13
<1>16. y < 2 * (P * (c + 1))
  BY <1>9, <1>13
<1> HIDE DEF P
<1> QED
  BY <1>4, <1>6, <1>11, <1>12, <1>14, <1>15, <1>16
=============================================================================
