----------------------------- MODULE Analyzers -----------------------------
(***************************************************************************)
(* One analyzer at work: its program (see AnalyzerProgram), the outcomes   *)
(* of its spec, what it could not read, and the results and the error it   *)
(* returns.                                                                *)
(***************************************************************************)
EXTENDS Integers, Sequences, FiniteSets

CONSTANTS
    Analyzer,     \* names of analyzers
    Program,      \* [Analyzer -> sequences of steps]
    RuleOf,       \* what the loops over outcomes do, by name
    SpecOutcome,  \* outcomes a spec may have
    MaxOutcomes,  \* bound: outcomes of a spec
    Exclusive,    \* rules whose conditions are "true" (a) and "false" (b)
    Implying,     \* those where an outcome without a condition has one of them:
                  \* "true" if it is a pass, "false" otherwise
    Leveled,      \* rules where it stands for the level of the outcome itself
    Guessing,     \* rules that read a term nobody knows as something else
    Listing,      \* rules that give one result for every outcome that matches
    Ignoring,     \* rules that do not take the first match
    Forgiving,    \* rules that pass over conditions they cannot read, or guess
    Trusting,     \* [Analyzer -> steps]: it may pass although they have failed
    Undecided,    \* analyzers that may end without a result
    Unclear,      \* analyzers whose result may have no verdict, or two
    Panicking     \* [Analyzer -> steps]: nil may be dereferenced

VARIABLES
    analyzer,     \* the one at work
    at,           \* the step it is at
    outcomes,     \* outcomes of its spec
    given,        \* the spec is known; it is chosen when it is first looked at
    lost,         \* what could not be read
    results,      \* verdicts of its results, a set for each
    asked,        \* rules that have decided something
    wrong,        \* those that have decided it against the order of the spec
    forgiven,     \* those that have passed over one they cannot read, or guessed
    culprit,      \* the step it has crashed in
    result        \* "running", "ok", "error" or "crash"

vars == <<analyzer, at, outcomes, given, lost, results, asked, wrong, forgiven, culprit, result>>

Init ==
    /\ analyzer \in Analyzer
    /\ at = 1
    /\ outcomes = <<>> /\ given = FALSE
    /\ lost = {} /\ results = {} /\ asked = {} /\ wrong = {} /\ forgiven = {}
    /\ culprit = ""
    /\ result = "running"

Specs == UNION {[1..n -> SpecOutcome] : n \in 0..MaxOutcomes}

Step == Program[analyzer][at]
Running(kinds) == result = "running" /\ at <= Len(Program[analyzer]) /\ Step.kind \in kinds

Look == outcomes' \in (IF given THEN {outcomes} ELSE Specs) /\ given' = TRUE
Goto(n) == at' = n /\ UNCHANGED <<analyzer, result, culprit>>
Crash == result' = "crash" /\ culprit' = Step.what /\ UNCHANGED <<analyzer, at>>
SpecStays == UNCHANGED <<outcomes, given>>

-----------------------------------------------------------------------------
\* The loop over the outcomes.

Fact == [a : BOOLEAN, b : BOOLEAN, odd : BOOLEAN, level : {"pass", "warn", "fail", "other"}]
Facts(rule) == {f \in Fact : /\ rule \in Exclusive => f.a # f.b
                             /\ rule \notin Guessing => ~f.odd
                             /\ rule \notin Leveled => f.level = "other"}

Holds(rule, f, o) ==
    CASE o.when = "a" -> f.a
      [] o.when = "b" -> f.b
      [] o.when = "odd" -> f.odd
      [] o.when = "" /\ rule \in Implying -> IF o.kind = "pass" THEN f.a ELSE f.b
      [] o.when = "" /\ rule \in Leveled -> f.level = o.kind
      [] OTHER -> FALSE

First(indices) == CHOOSE i \in indices : \A j \in indices : i <= j

Marks == {"mark", "dropWarn", "dropPass"}
Dropped(does) ==
    IF does = "dropWarn" THEN "warn" ELSE IF does = "dropPass" THEN "pass" ELSE ""

\* what the loop does with an outcome
Does(rule, f, o) == RuleOf[rule][o, Holds(rule, f, o)]

\* verdicts that are set by these outcomes of the spec and not taken back
Marked(rule, f, spec, indices) ==
    {spec[j].kind : j \in {i \in indices :
        /\ Does(rule, f, spec[i]) \in Marks
        /\ \A k \in indices : i < k => Dropped(Does(rule, f, spec[k])) # spec[i].kind}}

\* mutant: the loop goes on after a match, and the last one decides
ChosenLast(rule, f, spec) ==
    LET ends == {i \in DOMAIN spec : Does(rule, f, spec[i]) \notin Marks \union {"miss"}}
        end == CHOOSE i \in ends : \A j \in ends : j <= i
        does == Does(rule, f, spec[end])
    IN  IF ends = {} THEN Marked(rule, f, spec, DOMAIN spec)
        ELSE IF does \in {"hit", "last"} THEN {spec[end].kind} ELSE {does}

\* mutant: the loop ends before the last outcome
ChosenButLast(rule, f, spec) ==
    LET ends == {i \in DOMAIN spec : /\ Does(rule, f, spec[i]) \notin Marks \union {"miss"}
                                     /\ i < Len(spec)}
        does == Does(rule, f, spec[First(ends)])
    IN  IF ends = {} THEN Marked(rule, f, spec, DOMAIN spec)
        ELSE IF does \in {"hit", "last"} THEN {spec[First(ends)].kind} ELSE {does}

\* mutant: what has matched is dereferenced after the loop
ChosenOrNil(rule, f, spec) ==
    LET ends == {i \in DOMAIN spec : Does(rule, f, spec[i]) \notin Marks \union {"miss"}}
        does == Does(rule, f, spec[First(ends)])
    IN  IF ends = {} THEN {"crash"}
        ELSE IF does \in {"hit", "last"} THEN {spec[First(ends)].kind} ELSE {does}

\* what the loop (in analyzeRegistry, and its copies) does: verdicts, or an
\* error, a crash, nothing
Chosen(rule, f, spec) ==
    LET ends == {i \in DOMAIN spec : Does(rule, f, spec[i]) \notin Marks \union {"miss"}}
        end == First(ends)
        does == Does(rule, f, spec[end])
        marked == Marked(rule, f, spec, {i \in DOMAIN spec : i < end})
    IN  IF ends = {} THEN Marked(rule, f, spec, DOMAIN spec)
        ELSE IF does = "last" /\ marked # {} THEN marked
        ELSE IF does \in {"hit", "last"} THEN {spec[end].kind}
        ELSE {does}

\* what a reader of the spec expects: the first outcome whose condition holds
\* decides, unless one that cannot be read comes before it; one that is guessed
\* holds if the guess does
Unreadable(spec) == {i \in DOMAIN spec : spec[i].when \in {"odd", "bad"}}
Matches(rule, f, o) ==
    /\ o.kind # "blank"
    /\ \/ Holds(rule, f, o)
       \/ o.when = "" /\ rule \notin Implying \union Leveled
Matching(rule, f, spec) == {i \in DOMAIN spec : Matches(rule, f, spec[i])}

Expected(rule, f, spec) ==
    LET matching == Matching(rule, f, spec)
    IN  IF matching = {} THEN {} ELSE {spec[First(matching)].kind}

Misread(rule, f, spec) ==
    \E i \in Unreadable(spec) : \A j \in Matching(rule, f, spec) : i <= j

Decide(rule, f) ==
    LET chosen == Chosen(rule, f, outcomes')
        refused == chosen \in {{"error"}, {"crash"}}
    IN  /\ asked' = asked \union {rule}
        /\ wrong' = wrong \union
              {r \in {rule} : ~refused /\ chosen # Expected(rule, f, outcomes')}
        /\ forgiven' = forgiven \union
              {r \in {rule} : ~refused /\ Misread(rule, f, outcomes')}
        /\ CASE chosen = {"error"} -> /\ result' = "error" /\ results' = {}
                                      /\ UNCHANGED <<analyzer, at, culprit>>
             [] chosen = {"crash"} -> Crash /\ UNCHANGED results
             [] chosen = {}        -> Goto(at + 1) /\ UNCHANGED results
             [] OTHER -> /\ results' = results \union (IF rule \in Listing THEN {{v} : v \in chosen}
                                                       ELSE {chosen})
                         /\ Goto(at + 1 + Step.over)

TryOutcomes ==
    /\ Running({"outcomes", "rendered"})
    /\ Look
    /\ \E f \in Facts(Step.what) : Decide(Step.what, f)
    /\ UNCHANGED lost

\* the message of the outcome that matches is no template
FailToRender ==
    /\ Running({"rendered"})
    /\ Look
    /\ \E f \in Facts(Step.what) :
          Chosen(Step.what, f, outcomes') \in {{"pass"}, {"warn"}, {"fail"}}
    /\ result' = "error" /\ results' = {}
    /\ UNCHANGED <<analyzer, at, lost, asked, wrong, forgiven, culprit>>

-----------------------------------------------------------------------------
Succeed ==
    /\ Running({"call"})
    /\ Goto(at + 1)
    /\ UNCHANGED <<lost, results, asked, wrong, forgiven>> /\ SpecStays

\* mutant: the error is logged, and the analyzer goes on
FailGoesOn ==
    /\ Running({"call"})
    /\ lost' = lost \union {Step.what}
    /\ Goto(at + 1 + Step.over)
    /\ UNCHANGED <<results, asked, wrong, forgiven>> /\ SpecStays

\* return nil, err; or go on without what could not be read
Fail ==
    /\ Running({"call"})
    /\ lost' = lost \union {Step.what}
    /\ IF Step.onError = "error"
       THEN result' = "error" /\ results' = {} /\ UNCHANGED <<analyzer, at, culprit>>
       ELSE Goto(at + 1 + Step.over) /\ UNCHANGED results
    /\ UNCHANGED <<asked, wrong, forgiven>> /\ SpecStays

FindNothing ==
    /\ Running({"missing"})
    /\ lost' = lost \union {Step.what}
    /\ Goto(at + 1)
    /\ UNCHANGED <<results, asked, wrong, forgiven>> /\ SpecStays

AppendResult ==
    /\ Running({"result"})
    /\ results' = results \union {{Step.what} \ {""}}
    /\ Goto(at + 1)
    /\ UNCHANGED <<lost, asked, wrong, forgiven>> /\ SpecStays

LeaveOut ==
    /\ Running({"drop"})
    /\ results' = results \ {{Step.what}}
    /\ Goto(at + 1)
    /\ UNCHANGED <<lost, asked, wrong, forgiven>> /\ SpecStays

Branch ==
    /\ Running({"if"})
    /\ \E n \in {at + 1, at + 1 + Step.over} : Goto(n)
    /\ UNCHANGED <<lost, results, asked, wrong, forgiven>> /\ SpecStays

BranchOnVerdict ==
    /\ Running({"ifVerdict"})
    /\ Goto(IF results # {} /\ (Step.what = "any" \/ \E r \in results : Step.what \in r)
            THEN at + 1 ELSE at + 1 + Step.over)
    /\ UNCHANGED <<lost, results, asked, wrong, forgiven>> /\ SpecStays

BranchOnOutcomes ==
    /\ Running({"ifOutcomes"})
    /\ Look
    /\ Goto(IF outcomes' # <<>> THEN at + 1 ELSE at + 1 + Step.over)
    /\ UNCHANGED <<lost, results, asked, wrong, forgiven>>

Jump ==
    /\ Running({"goto"})
    /\ Goto(at + 1 + Step.over)
    /\ UNCHANGED <<lost, results, asked, wrong, forgiven>> /\ SpecStays

\* nil is dereferenced unless the spec has such an outcome
UseOutcome ==
    /\ Running({"need"})
    /\ Look
    /\ IF \E i \in DOMAIN outcomes' : outcomes'[i].kind = Step.what THEN Goto(at + 1) ELSE Crash
    /\ UNCHANGED <<lost, results, asked, wrong, forgiven>>

\* nil is dereferenced unless there is a result
UseResult ==
    /\ Running({"deref"})
    /\ IF results # {} THEN Goto(at + 1) ELSE Crash
    /\ UNCHANGED <<lost, results, asked, wrong, forgiven>> /\ SpecStays

RaiseError ==
    /\ Running({"raise"})
    /\ IF Step.onError = "crash" THEN Crash
       ELSE result' = "error" /\ UNCHANGED <<analyzer, at, culprit>>
    /\ results' = {}
    /\ UNCHANGED <<lost, asked, wrong, forgiven>> /\ SpecStays

ReturnResults ==
    /\ result = "running" /\ at > Len(Program[analyzer])
    /\ result' = "ok"
    /\ UNCHANGED <<analyzer, at, lost, results, asked, wrong, forgiven, culprit>> /\ SpecStays

Ended == result # "running" /\ UNCHANGED vars

Next ==
    \/ TryOutcomes \/ FailToRender \/ Succeed \/ Fail \/ FindNothing \/ AppendResult \/ LeaveOut
    \/ Branch \/ BranchOnVerdict \/ BranchOnOutcomes \/ Jump
    \/ UseOutcome \/ UseResult \/ RaiseError \/ ReturnResults \/ Ended

Spec == Init /\ [][Next]_vars

-----------------------------------------------------------------------------
(***************************************************************************)
(* What the programs and the rules are, one step and one outcome at a time.*)
(***************************************************************************)
Verdicts == {"pass", "warn", "fail"}
Ends == {"hit", "last"}
Refusals == {"error", "crash"}

\* steps lead to steps, and verdicts are verdicts
ProgramsAreWellFormed ==
    /\ MaxOutcomes \in Nat
    /\ \A a \in Analyzer : Len(Program[a]) \in Nat
    /\ \A a \in Analyzer : \A n \in 1..Len(Program[a]) :
         LET step == Program[a][n]
         IN  /\ n + 1 + step.over \in 1..(Len(Program[a]) + 1)
             /\ step.kind \in {"outcomes", "rendered"} => step.what \in DOMAIN RuleOf
             /\ step.kind = "result" => step.what \in Verdicts \union {"nil", ""}
    /\ \A rule \in DOMAIN RuleOf : \A f \in Facts(rule), o \in SpecOutcome :
         /\ Does(rule, f, o) \in Marks \union Ends \union Refusals \union {"miss", "fail"}
         /\ Does(rule, f, o) \in Marks \union Ends => o.kind \in Verdicts

\* the rule ends the loop with an outcome that matches, and only with one
InOrder(rule) ==
    \A f \in Facts(rule), o \in SpecOutcome :
        Does(rule, f, o) \in (IF Matches(rule, f, o) THEN {"hit"} ELSE {"miss"}) \union Refusals

\* the rule refuses what it cannot read, and returns nothing that does not match
Strict(rule) ==
    \A f \in Facts(rule), o \in SpecOutcome :
        /\ o.when \in {"odd", "bad"} => Does(rule, f, o) \in Refusals
        /\ Does(rule, f, o) \in Ends \union {"fail"} => Matches(rule, f, o)

RulesAreInOrder ==
    \A rule \in DOMAIN RuleOf :
        /\ rule \notin Ignoring => InOrder(rule)
        /\ rule \notin Forgiving => Strict(rule)

-----------------------------------------------------------------------------
TypeOK ==
    /\ analyzer \in Analyzer
    /\ at \in 1..(Len(Program[analyzer]) + 1)
    /\ outcomes \in Specs /\ given \in BOOLEAN
    /\ results \subseteq SUBSET (Verdicts \union {"nil"})
    /\ (wrong \union forgiven) \subseteq asked /\ asked \subseteq DOMAIN RuleOf
    /\ result \in {"running", "ok", "error", "crash"}

(***************************************************************************)
(* The first outcome whose condition holds decides, or an error says that  *)
(* the analyzer cannot: the order of the spec is what its author relies    *)
(* on.  The rules of Ignoring do otherwise.                                *)
(***************************************************************************)
FirstMatchDecides == wrong \subseteq Ignoring

(***************************************************************************)
(* A condition that cannot be read, and comes before one that holds, ends  *)
(* the analysis with an error: a mistake in a spec decides nothing, and    *)
(* lets no later outcome decide.  The rules of Forgiving pass over it, or  *)
(* read it as something that is not there.                                 *)
(***************************************************************************)
MistakesAreErrors == forgiven \subseteq Forgiving

(***************************************************************************)
(* The verdict is that of the first outcome of the spec that holds, and of *)
(* no later one (the loops over Outcomes of every Analyze).                *)
(***************************************************************************)
OutcomesDecide == TypeOK /\ FirstMatchDecides /\ MistakesAreErrors

(***************************************************************************)
(* What could not be read is not reported as healthy.  The steps of        *)
(* Trusting are the ones whose failure does not keep an analyzer from      *)
(* passing.                                                                *)
(***************************************************************************)
LostIsNotPassed ==
    result = "ok" /\ lost # {} =>
        \/ \A r \in results : "pass" \notin r
        \/ lost \intersect Trusting[analyzer] # {}

(***************************************************************************)
(* An analyzer whose spec ends in an outcome without a condition, or that  *)
(* does not ask its spec, returns a verdict, and one for every result.     *)
(***************************************************************************)
Decisive ==
    \/ asked = {}
    \/ /\ \E i \in DOMAIN outcomes : outcomes[i].kind # "blank" /\ outcomes[i].when = ""
       /\ asked \intersect (Implying \union Leveled) = {}

VerdictIsGiven ==
    result = "ok" /\ Decisive =>
        /\ results # {} \/ analyzer \in Undecided
        /\ (\A r \in results : Cardinality(r \ {"nil"}) = 1) \/ analyzer \in Unclear

(***************************************************************************)
(* No spec and no file make an analyzer dereference nil, which ends the    *)
(* analysis of the whole bundle, but for the steps of Panicking.           *)
(***************************************************************************)
NothingPanics == result = "crash" => culprit \in Panicking[analyzer]
=============================================================================
