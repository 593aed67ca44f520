------------------------------ MODULE CronField ------------------------------
(***************************************************************************)
(* One cron field against one turn of its clock: the daemon compares the   *)
(* field with every value the clock shows, from the first of the field's   *)
(* range to the last.  What it fires on is compared with what the field    *)
(* was accepted as by `schedule create`.                                   *)
(***************************************************************************)
EXTENDS Cron

CONSTANT Fields   \* the field texts a user may give

ASSUME FieldsAssumption == Fields \subseteq Field

VARIABLES
    unit,    \* which of the five fields
    field,   \* the field given for it
    value,   \* what the clock shows next
    fired    \* the values the field matched so far

turnVars == <<unit, field, value, fired>>

First == FieldRanges[unit][1]
Last == FieldRanges[unit][2]

TurnInit ==
    /\ unit \in 1..5
    /\ field \in {f \in Fields :
         ValidateCronField(f, FieldRanges[unit][1], FieldRanges[unit][2])}
    /\ value = First
    /\ fired = {}

ClockTurns ==
    /\ value <= Last
    /\ fired' = IF MatchesCronField(field, value) THEN fired \cup {value} ELSE fired
    /\ value' = value + 1
    /\ UNCHANGED <<unit, field>>

TurnSpec == TurnInit /\ [][ClockTurns]_turnVars

-----------------------------------------------------------------------------
Turned == value > Last

(***************************************************************************)
(* The validation and the match agree: a list that was accepted fires on   *)
(* each of its values in a turn, and on nothing else; validateCronField    *)
(* lets no value through that the clock never shows.                       *)
(***************************************************************************)
ListFiresOnItsValues ==
    Turned /\ field.kind = "list" => fired = field.vals

(***************************************************************************)
(* In a field that counts from zero, */N fires at the start of the range   *)
(* and then every N, as standard cron does.                                *)
(***************************************************************************)
StandardSteps(first, last, n) == {v \in first..last : (v - first) % n = 0}

StepsFromZeroAreStandard ==
    Turned /\ field.kind = "every" /\ First = 0 =>
      fired = StandardSteps(First, Last, field.n)

(***************************************************************************)
(* Over a turn of its clock an accepted field fires where its text says    *)
(* (validateCronField and matchesCronField together).                      *)
(***************************************************************************)
FieldsFireAsWritten == ListFiresOnItsValues /\ StepsFromZeroAreStandard
=============================================================================
