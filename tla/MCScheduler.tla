----------------------------- MODULE MCScheduler -----------------------------
(***************************************************************************)
(* Small instances of Scheduler for TLC.  Times are half minutes, so       *)
(* Calendar[t] is the wall clock t \div 2 minutes after a midnight.        *)
(***************************************************************************)
EXTENDS Scheduler

CONSTANTS n1, n2, c1, c2, w1, w2, w3

Any == [kind |-> "any"]

EveryMinute == <<Any, Any, Any, Any, Any>>
OddMinutes == <<[kind |-> "list", vals |-> {1, 3, 5}], Any, Any, Any, Any>>
EverySecondMinute == <<[kind |-> "every", n |-> 2], Any, Any, Any, Any>>
Malformed == <<[kind |-> "list", vals |-> {60, NaN}], Any, Any, Any, Any>>

MCOneSchedule == {EveryMinute}
MCSchedules == {EveryMinute, EverySecondMinute, Malformed}

MCCalendar == [t \in 0..MaxTime |-> <<t \div 2, 0, 1, 1, 3>>]
=============================================================================
