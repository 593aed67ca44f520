--------------------------- MODULE AnalyzerPaths ---------------------------
(***************************************************************************)
(* The paths of a program without the spec: where an analyzer is, its      *)
(* results, whether it has lost what it needs, and whether the spec had to *)
(* decide so far.  A loop over outcomes gives anything that its rule may   *)
(* give with a spec of any length, so these paths are finitely many.       *)
(***************************************************************************)
EXTENDS Analyzers

\* a rule may do this with an outcome
May(rule, does) == \E f \in Facts(rule), o \in SpecOutcome : Does(rule, f, o) = does

\* kinds of the outcomes that it does one of these with
KindsOf(rule, does) ==
    {o.kind : o \in {u \in SpecOutcome : \E f \in Facts(rule) : Does(rule, f, u) \in does}}

\* an outcome without a condition ends its loop
Settles(rule) ==
    \A f \in Facts(rule), o \in SpecOutcome :
        o.kind # "blank" /\ o.when = "" => Does(rule, f, o) \notin Marks \union {"miss"}

\* the verdicts a loop may give
GivenAtEnd(rule) ==
    {{v} : v \in KindsOf(rule, Ends) \union {x \in {"fail"} : May(rule, x)}}
GivenByMarks(rule) == SUBSET KindsOf(rule, Marks)
Gives(rule, decisive) ==
    IF decisive /\ Settles(rule)
    THEN GivenAtEnd(rule) \union (IF May(rule, "last") THEN GivenByMarks(rule) \ {{}} ELSE {})
    ELSE GivenAtEnd(rule) \union GivenByMarks(rule)

LossWith(a, loss, what) ==
    IF loss = "trusted" \/ what \in Trusting[a] THEN "trusted" ELSE "lost"

ResultsWith(rule, verdicts) == IF rule \in Listing THEN {{v} : v \in verdicts} ELSE {verdicts}

Path(n, verdicts, loss, decisive) ==
    [at |-> n, results |-> verdicts, loss |-> loss, decisive |-> decisive]

Start == Path(1, {}, "none", TRUE)

\* the loop gives no verdict, and the analyzer goes on; or it gives some
AfterLoop(p, step, verdicts, decisive) ==
    IF verdicts = {} THEN Path(p.at + 1, p.results, p.loss, decisive)
    ELSE Path(p.at + 1 + step.over, p.results \union ResultsWith(step.what, verdicts),
              p.loss, decisive)

AfterLoops(p, step, decisive) ==
    {AfterLoop(p, step, verdicts, decisive) : verdicts \in Gives(step.what, decisive)}

\* whether the spec has to decide still, once this rule is asked
Decisions(p, rule) ==
    {d \in BOOLEAN : d => p.decisive /\ rule \notin Implying \union Leveled}

\* where the step leads, but for errors and crashes
After(a, p) ==
    LET step == Program[a][p.at]
        next == p.at + 1
        jump == p.at + 1 + step.over
        Going(n) == Path(n, p.results, p.loss, p.decisive)
        Losing(n) == Path(n, p.results, LossWith(a, p.loss, step.what), p.decisive)
        Having(verdicts) == Path(next, verdicts, p.loss, p.decisive)
    IN  CASE step.kind \in {"outcomes", "rendered"} ->
                UNION {AfterLoops(p, step, d) : d \in Decisions(p, step.what)}
          [] step.kind = "call" ->
                {Going(next)} \union (IF step.onError = "error" THEN {} ELSE {Losing(jump)})
          [] step.kind = "missing" -> {Losing(next)}
          [] step.kind = "result" -> {Having(p.results \union {{step.what} \ {""}})}
          [] step.kind = "drop" -> {Having(p.results \ {{step.what}})}
          [] step.kind = "ifVerdict" ->
                {Going(IF p.results # {} /\ (step.what = "any" \/ \E r \in p.results : step.what \in r)
                       THEN next ELSE jump)}
          [] step.kind \in {"if", "ifOutcomes"} -> {Going(next), Going(jump)}
          [] step.kind = "goto" -> {Going(jump)}
          [] step.kind = "need" -> {Going(next)}
          [] step.kind = "deref" -> IF p.results = {} THEN {} ELSE {Going(next)}
          [] OTHER -> {}

PathsAreClosed(Paths) ==
    \A a \in Analyzer :
        /\ Start \in Paths[a]
        /\ \A p \in Paths[a] : p.at <= Len(Program[a]) => After(a, p) \subseteq Paths[a]

\* the path that the analyzer is on
Loss ==
    IF lost = {} THEN "none"
    ELSE IF lost \intersect Trusting[analyzer] # {} THEN "trusted" ELSE "lost"
Here == Path(at, results, Loss, Decisive)

\* what a path may end with, and where it may crash
EndIsSound(a, p) ==
    /\ p.loss = "lost" => \A r \in p.results : "pass" \notin r
    /\ p.decisive =>
         /\ p.results # {} \/ a \in Undecided
         /\ (\A r \in p.results : Cardinality(r \ {"nil"}) = 1) \/ a \in Unclear

MayCrash(a, p) ==
    LET step == Program[a][p.at]
    IN  \/ step.kind \in {"outcomes", "rendered"} /\ May(step.what, "crash")
        \/ step.kind = "need"
        \/ step.kind = "deref" /\ p.results = {}
        \/ step.kind = "raise" /\ step.onError = "crash"

PathsAreSound(Paths) ==
    \A a \in Analyzer : \A p \in Paths[a] :
        IF p.at <= Len(Program[a]) THEN MayCrash(a, p) => Program[a][p.at].what \in Panicking[a]
        ELSE EndIsSound(a, p)
=============================================================================
