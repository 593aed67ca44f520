-------------------------- MODULE AnalyzerProgram --------------------------
(***************************************************************************)
(* The notation for analyzers: the steps of CollectorProgram, and what is  *)
(* theirs alone.  An analyzer reads files that were collected and decides  *)
(* with the outcomes of its spec: each is a pass, a warn or a fail with a  *)
(* condition in "when".  The error of a step is returned ("error") or one  *)
(* of "skip", "fail" and "done" of CollectorProgram.                       *)
(***************************************************************************)
EXTENDS CollectorProgram

Read(file) == Call(file, "error")                     \* getFile, and unmarshal it
Missing(what) == Instr("missing", what, "none")       \* there was nothing to read
Result(verdict) == Instr("result", verdict, "none")   \* a result with this verdict; "" for none
Drop(verdict) == Instr("drop", verdict, "none")       \* results of this verdict are left out
Outcomes(rule) == Instr("outcomes", rule, "fail")     \* the loop over the outcomes
Rendered(rule) == Instr("rendered", rule, "fail")     \* the same; messages are templates
NeedOutcome(kind) == Instr("need", kind, "none")      \* an outcome of the kind is dereferenced
Deref == Instr("deref", "", "none")                   \* the result is: result.Strict = ...
Panic(what) == Instr("raise", what, "crash")

\* taken if there is a result with the verdict; "any": if there is a result
IfVerdict(verdict, body) == <<[If(body)[1] EXCEPT !.kind = "ifVerdict", !.what = verdict]>> \o body

\* taken if the spec has outcomes
IfOutcomes(body) == <<[If(body)[1] EXCEPT !.kind = "ifOutcomes"]>> \o body

\* a loop over one item or more
Some(Body(_)) == Loop(<<Iteration(Body("1")), OrBreak(If(<<>>)), Iteration(Body("2"))>>)

\* findFiles: the files that match, if any
FindFiles(what, Body(_)) == Call(what, "error") \o IfElse(Missing(what), Some(Body))

Continue == OrNext(Instr("goto", "", "none"))

-----------------------------------------------------------------------------
(***************************************************************************)
(* The conditions of outcomes: none, two of the spec that hold or not, one *)
(* that has the form of a condition with a term or an operator nobody      *)
(* knows, and one that is none at all.  A rule says what a loop does with  *)
(* an outcome whose condition holds or does not:                           *)
(*                                                                         *)
(*   "hit"    return its verdict          "miss"    go on                  *)
(*   "error"  return an error             "crash"   nil is dereferenced    *)
(*   "fail"   return a fail, whatever it is                                *)
(*   "mark"   set its verdict and go on   "dropWarn", "dropPass"  and take *)
(*                                        that verdict back                *)
(***************************************************************************)
Kind == {"pass", "warn", "fail"}
When == {"", "a", "b", "odd", "bad"}
Outcome == [kind : Kind, when : When] \union {[kind |-> "blank", when |-> ""]}

Rule(Treat(_, _)) == [o \in Outcome, holds \in BOOLEAN |-> Treat(o, holds)]

\* the first one that matches returns; a condition that cannot be read is an error
Standard(o, holds) ==
    IF o.kind = "blank" THEN "miss"
    ELSE IF o.when \in {"odd", "bad"} THEN "error"
    ELSE IF o.when = "" \/ holds THEN "hit"
    ELSE "miss"

\* a term or an operator that nobody knows does not match
Lenient(o, holds) == IF o.when = "odd" THEN "miss" ELSE Standard(o, holds)

\* it is read as something else: another term, or a number, that holds or not
Guessed(o, holds) ==
    IF o.when = "odd" THEN (IF holds THEN "hit" ELSE "miss") ELSE Standard(o, holds)

\* there is nothing to compare with: conditions are not even read
Unread(o, holds) == IF o.when = "" THEN Standard(o, holds) ELSE "miss"

\* an empty when is compared with what it stands for
Implied(o, holds) ==
    IF o.kind # "blank" /\ o.when = "" THEN (IF holds THEN "hit" ELSE "miss")
    ELSE Standard(o, holds)
=============================================================================
