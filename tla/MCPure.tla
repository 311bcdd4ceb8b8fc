------------------------------- MODULE MCPure -------------------------------
(***************************************************************************)
(* The pure operators on bounded inputs: a step picks the arguments of one *)
(* of them, the next step forgets them.  The operators are compared with   *)
(* definitions that do not iterate.                                        *)
(***************************************************************************)
EXTENDS Schedule, Config, Sorting

CONSTANTS MaxInstant,   \* windows and cron fires lie in 1..MaxInstant
          MaxLimit,     \* largest cap on the iterator and on FetchDue
          MaxAttempt,   \* largest attempt number for the backoff
          MaxOptions,   \* longest list of scheduler options
          MaxRows       \* most rows or names in a map

ASSUME BoundsAreNat ==
    {MaxInstant, MaxLimit, MaxAttempt, MaxOptions, MaxRows} \subseteq Nat

VARIABLE input

Times == 1..MaxInstant
Nothing == [of |-> "nothing"]

SmallSchedules ==      [kind : {"every"}, d : Times]
                  \cup [kind : {"at"}, t : Times]
                  \cup [kind : {"cron"}, fires : SUBSET Times]

SomeOptions == [kind : {"storage"}, val : {Nil, "memory"}]
          \cup [kind : {"leader"}, val : {Nil, "memory1", "memory2"}]
          \cup {[kind |-> "logger", val |-> Nil]}

Init == input = Nothing

Pick(inputs) == input = Nothing /\ input' \in inputs

\* A schedule, a window and a cap for the iterator.
PickWindow == Pick([of : {"window"}, sched : SmallSchedules, from : Times, until : Times,
                    limit : 0..MaxLimit])

\* A policy as the caller wrote it, with unset, negative and fractional
\* fields, and an attempt.
PickBackoff == Pick([of : {"backoff"}, attempt : 0..MaxAttempt,
                     retry : [maxAttempts : {0}, initial : {-1, 0, 2}, max : {-1, 0, 1, 5},
                              multiplier : [num : {-2, 0, 1, 3}, den : {1, 2}]]])

\* What New is called with.
PickNew == Pick([of : {"new"}, pool : BOOLEAN, schedOpts : SeqOf(SomeOptions, MaxOptions),
                 opts : [nodeID : {"", "node"}, tick : {-1, 0, 99, 100},
                         grace : {-1, 0, 5}, renew : {0, 5}]])

\* What AutoNodeID finds.
PickHost == Pick([of : {"host"}, host : {Nil, "", "localhost", "web-1"},
                  env : {"", "localhost", "pod-1"}, canRead : BOOLEAN])

\* The rows of a MemoryStorage in the order its map gives them: names are
\* distinct.
PickRows == \E names \in SetToAllKPermutations(1..MaxRows) :
               Pick([of : {"rows"}, names : {names}, next : [1..Len(names) -> 1..3],
                     now : 0..3, limit : 0..MaxLimit])

Forget == input # Nothing /\ input' = Nothing

Next == PickWindow \/ PickBackoff \/ PickNew \/ PickHost \/ PickRows \/ Forget

Spec == Init /\ [][Next]_input

----------------------------------------------------------------------------
\* The instants after `a` that the schedule names, without calling Next:
\* an interval counts from `a`, a cron expression has its own set.
Named(s, a) ==
    CASE s.kind = "every" -> {t \in (a+1)..(2 * MaxInstant) : (t - a) % s.d = 0}
      [] s.kind = "at"    -> {s.t} \cap ((a+1)..MaxInstant)
      [] s.kind = "cron"  -> s.fires \cap ((a+1)..MaxInstant)

(* iterateSchedule (schedule.go:91-105) returns the instants of the        *)
(* schedule that lie strictly inside (from, until), in order and without   *)
(* repetition, and when the cap cuts the list it keeps the oldest ones.    *)
IterateIsWindow ==
    input.of = "window" =>
        LET out    == iterateSchedule(input.sched, input.from, input.until, input.limit)
            inside == {t \in Named(input.sched, input.from) : t < input.until}
        IN  /\ \A i, k \in DOMAIN out : i < k => out[i] < out[k]
            /\ ToSet(out) \subseteq inside
            /\ Len(out) < input.limit => inside \subseteq ToSet(out)
            /\ Len(out) <= input.limit
            /\ \A t \in inside \ ToSet(out), i \in DOMAIN out : out[i] < t

(* The backoff of a job (job.go:101-117, dispatcher.go:454-465), whatever  *)
(* policy the caller wrote: some delay is always possible, and no delay    *)
(* reaches one and a half times MaxBackoff (five minutes if it was left    *)
(* zero), however many attempts there are.  If no field is negative, the   *)
(* delay is at least half of what the exponential law gives, or of         *)
(* MaxBackoff where that is less, up to truncation.                        *)
BackoffWithinJitter ==
    input.of = "backoff" =>
        LET r       == withDefaults(input.retry)
            ceiling == IF input.retry.max = 0 THEN 300000 ELSE input.retry.max
            B       == computeBackoff(r, input.attempt)
            law     == Grown(r, input.attempt)
            scale   == Scale(r, input.attempt)
        IN  /\ B # {}
            /\ ceiling > 0 => \A b \in B : 2 * b < 3 * ceiling
            /\ (ceiling > 0 /\ input.retry.initial >= 0 /\ input.retry.multiplier.num >= 0) =>
                  \A b \in B : \/ 2 * scale * (b + 1) > law
                               \/ 2 * (b + 1) > ceiling

(* "Pass nil to disable leadership entirely" (sundial.go:133), and the     *)
(* sentinel of New is there "so WithLeader(nil) can be told apart from     *)
(* 'user did not pass WithLeader at all'" (sundial.go:184): the last       *)
(* WithLeader decides, and only without one the pool gives the default.    *)
LeaderAsDocumented ==
    input.of = "new" =>
        LET result  == New(input.pool, input.opts, input.schedOpts)
            leaders == {i \in DOMAIN input.schedOpts : input.schedOpts[i].kind = "leader"}
            default == IF input.pool THEN "postgres" ELSE Nil
        IN  result.error = Nil =>
              result.leader = IF leaders = {} THEN default
                              ELSE input.schedOpts[Max(leaders)].val

(* The same (sundial.go:184-216) for callers that name a leader at least   *)
(* once or never use WithLeader: other options in between, and a nil after *)
(* a leader, do not bring the default back.                                *)
LeaderOnceNamed ==
    (input.of = "new" =>
        \/ \A i \in DOMAIN input.schedOpts : input.schedOpts[i].kind # "leader"
        \/ \E i \in DOMAIN input.schedOpts : /\ input.schedOpts[i].kind = "leader"
                                             /\ input.schedOpts[i].val # Nil)
    => LeaderAsDocumented

(* New accepts whatever AutoNodeID returns (sundial.go:32-45, 159-161):    *)
(* "The returned string is non-empty by construction".  A process without  *)
(* a name of its own gets a random one as long as that is possible.        *)
NodeIDAccepted ==
    input.of = "host" =>
        LET id   == AutoNodeID(input.host, input.env, input.canRead)
            opts == [nodeID |-> id, tick |-> 0, grace |-> 0, renew |-> 0]
        IN  /\ New(TRUE, opts, << >>).error = Nil
            /\ (input.env = "" /\ input.canRead) => id \in {"web-1", RandomID}

(* MemoryStorage.FetchDue (storage.go:344-378) returns due rows by fire    *)
(* time and then name, whatever order the map has, and a row that the      *)
(* limit cuts off comes after all that are returned.                       *)
FetchDueIsOldest ==
    input.of = "rows" =>
        LET jobs == [i \in DOMAIN input.names |-> [name |-> input.names[i], next |-> input.next[i]]]
            late == {r \in ToSet(jobs) : r.next <= input.now}
            out  == FetchDue(jobs, input.now, input.limit)
        IN  /\ ToSet(out) \subseteq late
            /\ \A i, k \in DOMAIN out : i < k => DueAfter(out[k], out[i])
            /\ \A r \in late \ ToSet(out) : /\ Len(out) = Limit(input.limit)
                                            /\ \A i \in DOMAIN out : DueAfter(r, out[i])

(* Scheduler.Jobs (sundial.go:260-279) lists every registered name once    *)
(* and in order, whatever order the map has.                               *)
JobsAreSorted ==
    input.of = "rows" =>
        LET out == Jobs(input.names)
        IN  /\ ToSet(out) = ToSet(input.names)
            /\ \A i, k \in DOMAIN out : i < k => out[i] < out[k]
=============================================================================
