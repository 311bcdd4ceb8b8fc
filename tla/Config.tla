------------------------------- MODULE Config -------------------------------
(***************************************************************************)
(* What a scheduler is made from (sundial.go, job.go): New applies the     *)
(* defaults and the options, and Schedule completes a job's retry policy.  *)
(* Durations are milliseconds; Nil is Go's nil; an implementation of       *)
(* Storage or Leader is named by a string.                                 *)
(***************************************************************************)
EXTENDS Integers, Sequences, SequencesExt

Nil == "nil"

OrDefault(x, default) == IF x = 0 THEN default ELSE x

----------------------------------------------------------------------------
(* The options of New, applied in order.                                   *)

WithStorage(sc, s) == IF s = Nil THEN sc ELSE [sc EXCEPT !.storage = s]

WithLeader(sc, l) == [sc EXCEPT !.leader = l]

Apply(sc, o) == IF o.kind = "storage" THEN WithStorage(sc, o.val)
                ELSE IF o.kind = "leader" THEN WithLeader(sc, o.val)
                ELSE sc                                    \* WithLogger

\* Mutant: the sentinel forgets what earlier options did.
ApplyAndForget(sc, o) ==
    LET after == Apply(sc, o)
    IN  [after EXCEPT !.leaderConfigured = after.leader # Nil \/ after.leader # sc.leader]

\* One turn of New's loop.  leaderConfigured is a variable of New.
ApplyOption(sc, o) ==
    LET after == Apply(sc, o)
    IN  [after EXCEPT !.leaderConfigured =
            @ \/ after.leader # Nil \/ after.leader # sc.leader]

Fresh == [storage |-> Nil, leader |-> Nil, leaderConfigured |-> FALSE]

\* The Options with New's defaults.  Negative values are kept.
Defaulted(opts) ==
    [opts EXCEPT !.tick  = OrDefault(@, 1000),
                 !.grace = OrDefault(@, 30000),
                 !.renew = OrDefault(@, 10000)]

Rejected(error) == [error |-> error]

New(pool, opts, schedOpts) ==
    LET o  == Defaulted(opts)
        sc == FoldLeft(ApplyOption, Fresh, schedOpts)
    IN  IF opts.nodeID = "" THEN Rejected("ErrEmptyNodeID")
        ELSE IF o.tick < 100 THEN Rejected("ErrTickTooSmall")
        ELSE IF sc.storage = Nil /\ ~ pool THEN Rejected("pool or WithStorage")
        ELSE [error   |-> Nil,
              opts    |-> o,
              storage |-> IF sc.storage = Nil THEN "postgres" ELSE sc.storage,
              leader  |-> IF ~ sc.leaderConfigured /\ pool THEN "postgres" ELSE sc.leader]

----------------------------------------------------------------------------
(* AutoNodeID, from what the process finds: the host name (Nil: an error), *)
(* $HOSTNAME and whether random bytes can be read.                         *)

RandomID == "sundial-<8-hex>"

\* Mutant: $HOSTNAME is taken though it is not set.
AutoNodeIDUnchecked(host, env, canRead) ==
    IF host \notin {Nil, "", "localhost"} THEN host ELSE env

AutoNodeID(host, env, canRead) ==
    IF host \notin {Nil, "", "localhost"} THEN host
    ELSE IF env # "" THEN env
    ELSE IF canRead THEN RandomID ELSE "sundial-unknown"

----------------------------------------------------------------------------
(* JobOptions.withDefaults: the retry policy; the other fields are kept.   *)
(* Only zero is replaced, a negative value stays.                          *)

withDefaults(r) ==
    [r EXCEPT !.maxAttempts = OrDefault(@, 3),
              !.initial     = OrDefault(@, 1000),
              !.max         = OrDefault(@, 300000),
              !.multiplier  = IF @.num = 0 THEN [num |-> 2, den |-> 1] ELSE @]
=============================================================================
