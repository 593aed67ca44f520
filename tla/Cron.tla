-------------------------------- MODULE Cron --------------------------------
(***************************************************************************)
(* The cron expressions of pkg/schedule: what `schedule create` accepts    *)
(* (job.go) and when the daemon finds that a schedule matches the clock    *)
(* (daemon.go).                                                            *)
(*                                                                         *)
(* A field is abstracted to what both functions read of its text:          *)
(*   [kind |-> "any"]                 the text "*"                         *)
(*   [kind |-> "every", n |-> N]      "*/" followed by a text Atoi reads   *)
(*                                    as N, or NaN where Atoi fails        *)
(*   [kind |-> "list", vals |-> S]    the comma separated values, again    *)
(*                                    NaN for an element Atoi rejects      *)
(* A schedule is the sequence of its fields as strings.Fields splits it.   *)
(***************************************************************************)
EXTENDS Integers, Sequences

CONSTANT NaN   \* what strconv.Atoi's error is abstracted to

ASSUME NaNAssumption == NaN \notin Int

Number == Int \cup {NaN}

Field == [kind : {"any"}]
           \cup [kind : {"every"}, n : Number]
           \cup [kind : {"list"}, vals : (SUBSET Number) \ {{}}]

Schedule == Seq(Field)

(***************************************************************************)
(* minute, hour, day of month, month, day of week                          *)
(***************************************************************************)
FieldRanges == << <<0, 59>>, <<0, 23>>, <<1, 31>>, <<1, 12>>, <<0, 6>> >>

\* mutant of InRange: the upper border is off by one
InRangeOffByOne(v, min, max) == v \in Int /\ min <= v /\ v <= max + 1

InRange(v, min, max) == v \in Int /\ min <= v /\ v <= max

ValidateCronField(field, min, max) ==
    \/ field.kind = "any"
    \/ field.kind = "every" /\ field.n \in Int /\ field.n > 0
    \/ field.kind = "list" /\ \A v \in field.vals : InRange(v, min, max)

ValidateCronSchedule(schedule) ==
    /\ Len(schedule) = 5
    /\ \A i \in 1..5 :
         ValidateCronField(schedule[i], FieldRanges[i][1], FieldRanges[i][2])

\* mutant of MatchesCronField: steps are counted from one
MatchesFromOne(field, currentValue) ==
    \/ field.kind = "any"
    \/ /\ field.kind = "every"
       /\ field.n \in Int /\ field.n > 0
       /\ (currentValue - 1) % field.n = 0
    \/ field.kind = "list" /\ currentValue \in field.vals

MatchesCronField(field, currentValue) ==
    \/ field.kind = "any"
    \/ /\ field.kind = "every"
       /\ field.n \in Int /\ field.n > 0
       /\ currentValue % field.n = 0
    \/ field.kind = "list" /\ currentValue \in field.vals

(***************************************************************************)
(* The five field tests of shouldJobRun; clock is <<minute, hour, day,     *)
(* month, weekday>> of the instant the daemon compares with.               *)
(***************************************************************************)
MatchesSchedule(schedule, clock) ==
    /\ Len(schedule) = 5
    /\ \A i \in 1..5 : MatchesCronField(schedule[i], clock[i])
=============================================================================
