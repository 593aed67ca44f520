----------------------------- MODULE MCCronField -----------------------------
(***************************************************************************)
(* Fields for TLC: steps up to and beyond every range, malformed numbers,  *)
(* and lists of one or two values around the borders of the five ranges.   *)
(***************************************************************************)
EXTENDS CronField

Borders == {-1, 0, 1, 6, 7, 12, 13, 23, 24, 31, 32, 59, 60, NaN}

MCFields ==
    {[kind |-> "any"]}
      \cup {[kind |-> "every", n |-> k] : k \in (-1..61) \cup {NaN}}
      \cup {[kind |-> "list", vals |-> {a, b}] : a, b \in Borders}
=============================================================================
