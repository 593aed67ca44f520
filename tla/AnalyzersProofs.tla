--------------------------- MODULE AnalyzersProofs ---------------------------
(***************************************************************************)
(* Theorems about Analyzers, for any programs, rules and specs of any      *)
(* length.                                                                 *)
(***************************************************************************)
EXTENDS AnalyzerPaths, WellFoundedInduction, TLAPS

LEMMA FirstIs ==
    ASSUME NEW S, S \subseteq Nat, S # {}
    PROVE  First(S) \in S /\ \A j \in S : First(S) <= j
<1>1. PICK x \in S : \A y \in S : ~ (<<y, x>> \in OpToRel(<, Nat))
  BY NatLessThanWellFounded, WFMin, Zenon
<1>2. ASSUME NEW y \in S PROVE x <= y
  <2>1. x \in Nat /\ y \in Nat
    OBVIOUS
  <2>2. ~ (y < x)
    BY <1>1, <2>1 DEF OpToRel
  <2> QED
    BY <2>1, <2>2
<1> QED
  BY <1>2 DEF First

LEMMA SpecIs ==
    ASSUME MaxOutcomes \in Nat, NEW spec \in Specs
    PROVE  DOMAIN spec \subseteq Nat /\ \A i \in DOMAIN spec : spec[i] \in SpecOutcome
<1>1. PICK n \in 0..MaxOutcomes : spec \in [1..n -> SpecOutcome]
  BY DEF Specs
<1> QED
  BY <1>1

(***************************************************************************)
(* What one loop does, from what its rule does with one outcome.           *)
(***************************************************************************)
Stops(rule, f, spec) == {i \in DOMAIN spec : Does(rule, f, spec[i]) \notin Marks \union {"miss"}}

LEMMA ChosenIs ==
    ASSUME MaxOutcomes \in Nat, NEW rule, NEW f, NEW spec \in Specs
    PROVE  \/ /\ Stops(rule, f, spec) = {}
              /\ Chosen(rule, f, spec) = Marked(rule, f, spec, DOMAIN spec)
           \/ \E end \in DOMAIN spec, indices \in SUBSET DOMAIN spec :
                /\ Does(rule, f, spec[end]) \notin Marks \union {"miss"}
                /\ \A i \in DOMAIN spec : i < end => Does(rule, f, spec[i]) \in Marks \union {"miss"}
                /\ Chosen(rule, f, spec) =
                     IF Does(rule, f, spec[end]) = "last" /\ Marked(rule, f, spec, indices) # {}
                     THEN Marked(rule, f, spec, indices)
                     ELSE IF Does(rule, f, spec[end]) \in Ends THEN {spec[end].kind}
                     ELSE {Does(rule, f, spec[end])}
<1>1. CASE Stops(rule, f, spec) = {}
  BY <1>1 DEF Stops, Chosen
<1>2. CASE Stops(rule, f, spec) # {}
  <2>1. Stops(rule, f, spec) \subseteq Nat /\ Stops(rule, f, spec) \subseteq DOMAIN spec
    BY SpecIs DEF Stops
  <2>2. PICK end : end = First(Stops(rule, f, spec))
    OBVIOUS
  <2>3. end \in Stops(rule, f, spec) /\ \A j \in Stops(rule, f, spec) : end <= j
    BY <1>2, <2>1, <2>2, FirstIs
  <2>4. ASSUME NEW i \in DOMAIN spec, i < end PROVE Does(rule, f, spec[i]) \in Marks \union {"miss"}
    <3>1. i \in Nat /\ end \in Nat
      BY <2>1, <2>3, SpecIs
    <3>2. ~ (end <= i)
      BY <2>4, <3>1
    <3> QED
      BY <2>3, <3>2 DEF Stops
  <2>5. PICK indices \in SUBSET DOMAIN spec : indices = {i \in DOMAIN spec : i < end}
    OBVIOUS
  <2>6. Chosen(rule, f, spec) =
          IF Does(rule, f, spec[end]) = "last" /\ Marked(rule, f, spec, indices) # {}
          THEN Marked(rule, f, spec, indices)
          ELSE IF Does(rule, f, spec[end]) \in Ends THEN {spec[end].kind}
          ELSE {Does(rule, f, spec[end])}
    BY <1>2, <2>2, <2>5 DEF Chosen, Stops, Ends
  <2>7. end \in DOMAIN spec /\ Does(rule, f, spec[end]) \notin Marks \union {"miss"}
    BY <2>3 DEF Stops
  <2> QED
    BY <2>4, <2>6, <2>7
<1> QED
  BY <1>1, <1>2

\* An outcome that ends the loop by being refused is an error or a crash.
LEMMA RefusedIs ==
    ASSUME NEW x \in Refusals
    PROVE  {x} \in {{"error"}, {"crash"}} /\ x # "last" /\ x \notin Ends \union {"hit"}
  BY DEF Refusals, Ends

LEMMA ChosenType ==
    ASSUME ProgramsAreWellFormed, NEW rule \in DOMAIN RuleOf, NEW f \in Facts(rule), NEW spec \in Specs
    PROVE  Chosen(rule, f, spec) \in {{"error"}, {"crash"}} \/ Chosen(rule, f, spec) \subseteq Verdicts
<1>1. MaxOutcomes \in Nat
  BY DEF ProgramsAreWellFormed
<1>2. \A i \in DOMAIN spec : spec[i] \in SpecOutcome
  BY <1>1, SpecIs
<1>3. \A i \in DOMAIN spec :
        /\ Does(rule, f, spec[i]) \in Marks \union Ends \union Refusals \union {"miss", "fail"}
        /\ Does(rule, f, spec[i]) \in Marks \union Ends => spec[i].kind \in Verdicts
  BY <1>2 DEF ProgramsAreWellFormed
<1>4. \A indices \in SUBSET DOMAIN spec : Marked(rule, f, spec, indices) \subseteq Verdicts
  BY <1>3 DEF Marked
<1>5. DOMAIN spec \in SUBSET DOMAIN spec
  OBVIOUS
<1>6. CASE Chosen(rule, f, spec) = Marked(rule, f, spec, DOMAIN spec)
  BY <1>4, <1>5, <1>6
<1>7. ASSUME NEW end \in DOMAIN spec, NEW indices \in SUBSET DOMAIN spec,
             Does(rule, f, spec[end]) \notin Marks \union {"miss"},
             Chosen(rule, f, spec) =
               IF Does(rule, f, spec[end]) = "last" /\ Marked(rule, f, spec, indices) # {}
               THEN Marked(rule, f, spec, indices)
               ELSE IF Does(rule, f, spec[end]) \in Ends THEN {spec[end].kind}
               ELSE {Does(rule, f, spec[end])}
      PROVE  Chosen(rule, f, spec) \in {{"error"}, {"crash"}} \/ Chosen(rule, f, spec) \subseteq Verdicts
  <2>1. PICK does : does = Does(rule, f, spec[end])
    OBVIOUS
  <2>2. does \in Ends \union Refusals \union {"fail"} /\ (does \in Ends => spec[end].kind \in Verdicts)
    BY <1>3, <1>7, <2>1
  <2>3. \/ Chosen(rule, f, spec) = Marked(rule, f, spec, indices)
        \/ does \in Ends /\ Chosen(rule, f, spec) = {spec[end].kind}
        \/ does \notin Ends /\ Chosen(rule, f, spec) = {does}
    BY <1>7, <2>1
  <2>4. {"fail"} \subseteq Verdicts
    BY DEF Verdicts
  <2> QED
    BY <1>4, <2>2, <2>3, <2>4, RefusedIs
<1> QED
  BY <1>1, <1>6, <1>7, ChosenIs

LEMMA ChosenInOrder ==
    ASSUME MaxOutcomes \in Nat, NEW rule, InOrder(rule), NEW f \in Facts(rule), NEW spec \in Specs,
           Chosen(rule, f, spec) \notin {{"error"}, {"crash"}}
    PROVE  Chosen(rule, f, spec) = Expected(rule, f, spec)
<1>1. DOMAIN spec \subseteq Nat /\ \A i \in DOMAIN spec : spec[i] \in SpecOutcome
  BY SpecIs
<1>2. \A i \in DOMAIN spec :
        /\ Matches(rule, f, spec[i]) => Does(rule, f, spec[i]) \in {"hit"} \union Refusals
        /\ ~Matches(rule, f, spec[i]) => Does(rule, f, spec[i]) \in {"miss"} \union Refusals
  BY <1>1 DEF InOrder
<1>3. \A i \in DOMAIN spec : Does(rule, f, spec[i]) \notin Marks /\ Does(rule, f, spec[i]) # "last"
  BY <1>2 DEF Marks, Refusals
<1>4. \A indices \in SUBSET DOMAIN spec : Marked(rule, f, spec, indices) = {}
  BY <1>3 DEF Marked
<1>5. CASE Stops(rule, f, spec) = {} /\ Chosen(rule, f, spec) = Marked(rule, f, spec, DOMAIN spec)
  <2>1. Chosen(rule, f, spec) = {}
    BY <1>4, <1>5
  <2>2. \A i \in DOMAIN spec : Does(rule, f, spec[i]) = "miss"
    BY <1>3, <1>5 DEF Stops
  <2>3. "miss" \notin {"hit"} \union Refusals
    BY DEF Refusals
  <2>4. Matching(rule, f, spec) = {}
    BY <1>2, <2>2, <2>3 DEF Matching
  <2> QED
    BY <2>1, <2>4 DEF Expected
<1>6. ASSUME NEW end \in DOMAIN spec,
             Does(rule, f, spec[end]) \notin Marks \union {"miss"},
             \A i \in DOMAIN spec : i < end => Does(rule, f, spec[i]) \in Marks \union {"miss"},
             Chosen(rule, f, spec) =
               IF Does(rule, f, spec[end]) \in Ends THEN {spec[end].kind}
               ELSE {Does(rule, f, spec[end])}
      PROVE  Chosen(rule, f, spec) = Expected(rule, f, spec)
  <2>1. Does(rule, f, spec[end]) \in {"hit"} \union Refusals
    BY <1>2, <1>6
  <2>2. Does(rule, f, spec[end]) \notin Refusals
    BY <1>6, RefusedIs
  <2>3. Does(rule, f, spec[end]) = "hit" /\ Chosen(rule, f, spec) = {spec[end].kind}
    BY <1>6, <2>1, <2>2 DEF Ends
  <2>4. "hit" \notin {"miss"} \union Refusals /\ "miss" \notin {"hit"} \union Refusals
    BY DEF Refusals
  <2>5. end \in Matching(rule, f, spec)
    BY <1>2, <2>3, <2>4 DEF Matching
  <2>6. ASSUME NEW i \in Matching(rule, f, spec) PROVE ~ (i < end)
    <3>1. i \in DOMAIN spec /\ Matches(rule, f, spec[i])
      BY DEF Matching
    <3>2. Does(rule, f, spec[i]) # "miss"
      BY <1>2, <2>4, <3>1
    <3> QED
      BY <1>3, <1>6, <3>1, <3>2
  <2>7. Matching(rule, f, spec) \subseteq Nat
    BY <1>1 DEF Matching
  <2>8. First(Matching(rule, f, spec)) = end
    <3>1. PICK first : first = First(Matching(rule, f, spec))
      OBVIOUS
    <3>2. first \in Matching(rule, f, spec) /\ first <= end
      BY <2>5, <2>7, <3>1, FirstIs
    <3>3. ~ (first < end) /\ first \in Nat /\ end \in Nat
      BY <2>5, <2>6, <2>7, <3>2
    <3> QED
      BY <3>1, <3>2, <3>3
  <2> QED
    BY <2>3, <2>5, <2>8 DEF Expected
<1> QED
  BY <1>3, <1>5, <1>6, ChosenIs

LEMMA ChosenStrict ==
    ASSUME ProgramsAreWellFormed, NEW rule \in DOMAIN RuleOf, Strict(rule),
           NEW f \in Facts(rule), NEW spec \in Specs,
           Chosen(rule, f, spec) \notin {{"error"}, {"crash"}}
    PROVE  ~ Misread(rule, f, spec)
<1> SUFFICES ASSUME Misread(rule, f, spec) PROVE FALSE
  OBVIOUS
<1>1. MaxOutcomes \in Nat
  BY DEF ProgramsAreWellFormed
<1>2. DOMAIN spec \subseteq Nat /\ \A i \in DOMAIN spec : spec[i] \in SpecOutcome
  BY <1>1, SpecIs
<1>3. PICK i \in DOMAIN spec : /\ spec[i].when \in {"odd", "bad"}
                               /\ \A j \in Matching(rule, f, spec) : i <= j
  BY DEF Misread, Unreadable
<1>4. Does(rule, f, spec[i]) \in Refusals
  BY <1>2, <1>3 DEF Strict
<1>5. Does(rule, f, spec[i]) \notin Marks \union {"miss"}
  BY <1>4 DEF Refusals, Marks
<1>6. Stops(rule, f, spec) # {}
  BY <1>5 DEF Stops
<1>7. ASSUME NEW end \in DOMAIN spec, NEW indices \in SUBSET DOMAIN spec,
             Does(rule, f, spec[end]) \notin Marks \union {"miss"},
             \A k \in DOMAIN spec : k < end => Does(rule, f, spec[k]) \in Marks \union {"miss"},
             Chosen(rule, f, spec) =
               IF Does(rule, f, spec[end]) = "last" /\ Marked(rule, f, spec, indices) # {}
               THEN Marked(rule, f, spec, indices)
               ELSE IF Does(rule, f, spec[end]) \in Ends THEN {spec[end].kind}
               ELSE {Does(rule, f, spec[end])}
      PROVE  FALSE
  <2>1. i \in Nat /\ end \in Nat /\ ~ (i < end)
    BY <1>2, <1>5, <1>7
  <2>2. PICK does : does = Does(rule, f, spec[end])
    OBVIOUS
  <2>3. does \notin Refusals
    BY <1>7, <2>2, RefusedIs
  <2>4. does \in Ends \union {"fail"}
    <3>1. does \in Marks \union Ends \union Refusals \union {"miss", "fail"}
      BY <1>2, <2>2 DEF ProgramsAreWellFormed
    <3> QED
      BY <1>7, <2>2, <2>3, <3>1
  <2>5. end \in Matching(rule, f, spec)
    BY <1>2, <2>2, <2>4 DEF Strict, Matching
  <2>6. i <= end
    BY <1>3, <2>5
  <2>7. i # end
    BY <1>4, <2>2, <2>3
  <2> QED
    BY <2>1, <2>6, <2>7
<1> QED
  BY <1>1, <1>6, <1>7, ChosenIs

(***************************************************************************)
(* Every step keeps the order of the spec, the errors of its conditions    *)
(* and the types.                                                          *)
(***************************************************************************)
LEMMA SpecsStay ==
    ASSUME TypeOK, SpecStays \/ Look
    PROVE  outcomes' \in Specs /\ given' \in BOOLEAN
  BY DEF TypeOK, SpecStays, Look

LEMMA StepIs ==
    ASSUME ProgramsAreWellFormed, TypeOK, NEW kinds, Running(kinds)
    PROVE  /\ analyzer \in Analyzer
           /\ at + 1 \in 1..(Len(Program[analyzer]) + 1)
           /\ at + 1 + Step.over \in 1..(Len(Program[analyzer]) + 1)
           /\ Step.kind \in kinds
           /\ Step.kind \in {"outcomes", "rendered"} => Step.what \in DOMAIN RuleOf
           /\ Step.kind = "result" => Step.what \in Verdicts \union {"nil", ""}
<1>1. analyzer \in Analyzer /\ at \in 1..(Len(Program[analyzer]) + 1) /\ at <= Len(Program[analyzer])
  BY DEF Running, TypeOK
<1>2. PICK a \in Analyzer : a = analyzer
  BY <1>1
<1>3. PICK len \in Nat : len = Len(Program[a])
  BY <1>2 DEF ProgramsAreWellFormed
<1>4. PICK n \in 1..len : n = at
  BY <1>1, <1>2, <1>3
<1>5. n + 1 \in 1..(len + 1)
  OBVIOUS
<1>6. /\ n + 1 + Program[a][n].over \in 1..(len + 1)
      /\ Program[a][n].kind \in {"outcomes", "rendered"} => Program[a][n].what \in DOMAIN RuleOf
      /\ Program[a][n].kind = "result" => Program[a][n].what \in Verdicts \union {"nil", ""}
  BY <1>3 DEF ProgramsAreWellFormed
<1> QED
  BY <1>2, <1>3, <1>4, <1>5, <1>6 DEF Step, Running

\* a step that does not ask the spec
LEMMA PlainStep ==
    ASSUME TypeOK, UNCHANGED <<analyzer, asked, wrong, forgiven>>, SpecStays \/ Look,
           at' \in 1..(Len(Program[analyzer]) + 1),
           results' \subseteq SUBSET (Verdicts \union {"nil"}),
           result' \in {"running", "ok", "error", "crash"}
    PROVE  TypeOK'
  BY SpecsStay DEF TypeOK

LEMMA DecideTypes ==
    ASSUME ProgramsAreWellFormed, TypeOK, Running({"outcomes", "rendered"}), Look,
           NEW rule, rule = Step.what, NEW f \in Facts(rule), Decide(rule, f)
    PROVE  TypeOK'
<1>1. outcomes' \in Specs /\ given' \in BOOLEAN
  BY SpecsStay
<1>2. PICK spec \in Specs : spec = outcomes'
  BY <1>1
<1>3. /\ rule \in DOMAIN RuleOf
      /\ at + 1 \in 1..(Len(Program[analyzer]) + 1)
      /\ at + 1 + Step.over \in 1..(Len(Program[analyzer]) + 1)
  BY StepIs
<1>4. PICK chosen : chosen = Chosen(rule, f, spec)
  OBVIOUS
<1>5. chosen \in {{"error"}, {"crash"}} \/ chosen \subseteq Verdicts
  BY <1>3, <1>4, ChosenType
<1>6. (wrong' \union forgiven') \subseteq asked' /\ asked' \subseteq DOMAIN RuleOf
  BY <1>3 DEF Decide, TypeOK
<1>7. /\ results' \in {{}, results, results \union {{v} : v \in chosen}, results \union {chosen}}
      /\ chosen \in {{"error"}, {"crash"}} => results' \in {{}, results}
  BY <1>2, <1>4 DEF Decide
<1>8. results' \subseteq SUBSET (Verdicts \union {"nil"})
  BY <1>5, <1>7 DEF TypeOK
<1>9. analyzer' = analyzer /\ at' \in {at, at + 1, at + 1 + Step.over}
  BY <1>2, <1>4 DEF Decide, Goto, Crash
<1>10. result' \in {result, "error", "crash"}
  BY <1>2, <1>4 DEF Decide, Goto, Crash
<1> QED
  BY <1>1, <1>3, <1>6, <1>8, <1>9, <1>10 DEF TypeOK

LEMMA TypeStep ==
    ASSUME ProgramsAreWellFormed, TypeOK, [Next]_vars
    PROVE  TypeOK'
<1>1. CASE TryOutcomes
  BY <1>1, DecideTypes DEF TryOutcomes
<1>2. CASE FailToRender
  <2>1. /\ UNCHANGED <<analyzer, at, asked, wrong, forgiven>> /\ Look
        /\ results' = {} /\ result' = "error"
    BY <1>2 DEF FailToRender
  <2> QED
    BY <2>1, PlainStep DEF TypeOK
<1>3. CASE Succeed \/ Fail \/ FindNothing
  <2>1. Running({"call"}) \/ Running({"missing"})
    BY <1>3 DEF Succeed, Fail, FindNothing
  <2>2. /\ at' \in {at, at + 1, at + 1 + Step.over} /\ results' \in {{}, results}
        /\ result' \in {result, "error"}
        /\ UNCHANGED <<analyzer, asked, wrong, forgiven>> /\ SpecStays
    BY <1>3 DEF Succeed, Fail, FindNothing, Goto
  <2> QED
    BY <2>1, <2>2, StepIs, PlainStep DEF TypeOK
<1>4. CASE AppendResult
  <2>1. Running({"result"}) /\ results' = results \union {{Step.what} \ {""}}
    BY <1>4 DEF AppendResult
  <2>2. {Step.what} \ {""} \subseteq Verdicts \union {"nil"}
    BY <2>1, StepIs
  <2>3. /\ at' = at + 1 /\ result' = result
        /\ UNCHANGED <<analyzer, asked, wrong, forgiven>> /\ SpecStays
    BY <1>4 DEF AppendResult, Goto
  <2> QED
    BY <2>1, <2>2, <2>3, StepIs, PlainStep DEF TypeOK
<1>5. CASE LeaveOut
  <2>1. /\ Running({"drop"}) /\ results' \subseteq results /\ at' = at + 1 /\ result' = result
        /\ UNCHANGED <<analyzer, asked, wrong, forgiven>> /\ SpecStays
    BY <1>5 DEF LeaveOut, Goto
  <2> QED
    BY <2>1, StepIs, PlainStep DEF TypeOK
<1>6. CASE Branch \/ BranchOnVerdict \/ BranchOnOutcomes \/ Jump
  <2>1. \E kinds : Running(kinds)
    BY <1>6 DEF Branch, BranchOnVerdict, BranchOnOutcomes, Jump
  <2>2. /\ at' \in {at + 1, at + 1 + Step.over} /\ UNCHANGED <<results, result>>
        /\ UNCHANGED <<analyzer, asked, wrong, forgiven>> /\ (SpecStays \/ Look)
    BY <1>6 DEF Branch, BranchOnVerdict, BranchOnOutcomes, Jump, Goto
  <2> QED
    BY <2>1, <2>2, StepIs, PlainStep DEF TypeOK
<1>7. CASE UseOutcome \/ UseResult \/ RaiseError
  <2>1. \E kinds : Running(kinds)
    BY <1>7 DEF UseOutcome, UseResult, RaiseError
  <2>2. /\ at' \in {at, at + 1} /\ results' \in {{}, results}
        /\ result' \in {result, "error", "crash"}
        /\ UNCHANGED <<analyzer, asked, wrong, forgiven>> /\ (SpecStays \/ Look)
    BY <1>7 DEF UseOutcome, UseResult, RaiseError, Goto, Crash
  <2> QED
    BY <2>1, <2>2, StepIs, PlainStep DEF TypeOK
<1>8. CASE ReturnResults
  <2>1. /\ UNCHANGED <<analyzer, at, results, asked, wrong, forgiven>> /\ SpecStays
        /\ result' = "ok"
    BY <1>8 DEF ReturnResults
  <2> QED
    BY <2>1, PlainStep DEF TypeOK
<1>9. CASE UNCHANGED vars
  BY <1>9 DEF vars, TypeOK
<1> QED
  BY <1>1, <1>2, <1>3, <1>4, <1>5, <1>6, <1>7, <1>8, <1>9 DEF Next, Ended

LEMMA TypeInit ==
    ASSUME ProgramsAreWellFormed, Init
    PROVE  TypeOK
<1>1. Len(Program[analyzer]) \in Nat /\ MaxOutcomes \in Nat
  BY DEF Init, ProgramsAreWellFormed
<1>2. at \in 1..(Len(Program[analyzer]) + 1)
  <2>1. PICK len \in Nat : len = Len(Program[analyzer])
    BY <1>1
  <2>2. 1 \in 1..(len + 1)
    OBVIOUS
  <2>3. at = 1
    BY DEF Init
  <2> QED
    BY <2>1, <2>2, <2>3
<1>3. << >> \in [1..0 -> SpecOutcome] /\ 0 \in 0..MaxOutcomes
  BY <1>1
<1>4. outcomes \in Specs
  BY <1>3 DEF Init, Specs
<1> QED
  BY <1>2, <1>4 DEF Init, TypeOK

LEMMA OrderStep ==
    ASSUME ProgramsAreWellFormed, RulesAreInOrder, OutcomesDecide,
           Running({"outcomes", "rendered"}), Look,
           NEW rule, rule = Step.what, NEW f \in Facts(rule), Decide(rule, f)
    PROVE  FirstMatchDecides' /\ MistakesAreErrors'
<1>1. TypeOK /\ FirstMatchDecides /\ MistakesAreErrors
  BY DEF OutcomesDecide
<1>2. PICK spec \in Specs : spec = outcomes'
  BY <1>1, SpecsStay
<1>3. rule \in DOMAIN RuleOf /\ MaxOutcomes \in Nat
  BY <1>1, StepIs DEF ProgramsAreWellFormed
<1>4. PICK chosen : chosen = Chosen(rule, f, spec)
  OBVIOUS
<1>5. FirstMatchDecides'
  <2>1. wrong' \subseteq wrong \union {r \in {rule} : /\ chosen \notin {{"error"}, {"crash"}}
                                                     /\ chosen # Expected(rule, f, spec)}
    BY <1>2, <1>4 DEF Decide
  <2>2. rule \notin Ignoring => InOrder(rule)
    BY <1>3 DEF RulesAreInOrder
  <2>3. rule \notin Ignoring /\ chosen \notin {{"error"}, {"crash"}} => chosen = Expected(rule, f, spec)
    BY <1>3, <1>4, <2>2, ChosenInOrder
  <2> QED
    BY <1>1, <2>1, <2>3 DEF FirstMatchDecides
<1>6. MistakesAreErrors'
  <2>1. forgiven' \subseteq forgiven \union {r \in {rule} : /\ chosen \notin {{"error"}, {"crash"}}
                                                           /\ Misread(rule, f, spec)}
    BY <1>2, <1>4 DEF Decide
  <2>2. rule \notin Forgiving => Strict(rule)
    BY <1>3 DEF RulesAreInOrder
  <2>3. rule \notin Forgiving /\ chosen \notin {{"error"}, {"crash"}} => ~ Misread(rule, f, spec)
    BY <1>3, <1>4, <2>2, ChosenStrict
  <2> QED
    BY <1>1, <2>1, <2>3 DEF MistakesAreErrors
<1> QED
  BY <1>5, <1>6

(***************************************************************************)
(* Whatever the data and however long the spec, the first outcome whose    *)
(* condition holds decides, and a condition that cannot be read before it  *)
(* is an error (the loops over Outcomes of every Analyze): what each rule  *)
(* does with one outcome is enough, but for the rules of Ignoring and      *)
(* Forgiving.                                                              *)
(***************************************************************************)
THEOREM FirstOutcomesDecide ==
    ASSUME ProgramsAreWellFormed, RulesAreInOrder
    PROVE  Spec => []OutcomesDecide
<1>1. Init => OutcomesDecide
  BY TypeInit DEF Init, OutcomesDecide, FirstMatchDecides, MistakesAreErrors
<1>2. OutcomesDecide /\ [Next]_vars => OutcomesDecide'
  <2> SUFFICES ASSUME OutcomesDecide, [Next]_vars PROVE OutcomesDecide'
    OBVIOUS
  <2>1. TypeOK /\ FirstMatchDecides /\ MistakesAreErrors
    BY DEF OutcomesDecide
  <2>2. TypeOK'
    BY <2>1, TypeStep
  <2>3. CASE TryOutcomes
    BY <2>2, <2>3, OrderStep DEF TryOutcomes, OutcomesDecide
  <2>4. CASE UNCHANGED <<wrong, forgiven>>
    BY <2>1, <2>2, <2>4 DEF OutcomesDecide, FirstMatchDecides, MistakesAreErrors
  <2>5. TryOutcomes \/ UNCHANGED <<wrong, forgiven>>
    BY DEF Next, FailToRender, Succeed, Fail, FindNothing, AppendResult, LeaveOut, Branch,
           BranchOnVerdict, BranchOnOutcomes, Jump, UseOutcome, UseResult, RaiseError,
           ReturnResults, Ended, vars
  <2> QED
    BY <2>3, <2>4, <2>5
<1> QED
  BY <1>1, <1>2, PTL DEF Spec

(***************************************************************************)
(* What a loop gives with a spec of any length is what AnalyzerPaths says. *)
(***************************************************************************)
LEMMA ChosenGiven ==
    ASSUME ProgramsAreWellFormed, NEW rule \in DOMAIN RuleOf, NEW f \in Facts(rule), NEW spec \in Specs,
           NEW decisive,
           decisive => \E i \in DOMAIN spec : spec[i].kind # "blank" /\ spec[i].when = ""
    PROVE  \/ Chosen(rule, f, spec) = {"error"}
           \/ Chosen(rule, f, spec) = {"crash"} /\ May(rule, "crash")
           \/ Chosen(rule, f, spec) \subseteq Verdicts /\ Chosen(rule, f, spec) \in Gives(rule, decisive)
<1>1. MaxOutcomes \in Nat
  BY DEF ProgramsAreWellFormed
<1>2. \A i \in DOMAIN spec : spec[i] \in SpecOutcome
  BY <1>1, SpecIs
<1>3. \A i \in DOMAIN spec :
        /\ Does(rule, f, spec[i]) \in Marks \union Ends \union Refusals \union {"miss", "fail"}
        /\ Does(rule, f, spec[i]) \in Marks \union Ends => spec[i].kind \in Verdicts
  BY <1>2 DEF ProgramsAreWellFormed
<1>4. \A indices \in SUBSET DOMAIN spec : Marked(rule, f, spec, indices) \in GivenByMarks(rule)
  <2> SUFFICES ASSUME NEW indices \in SUBSET DOMAIN spec, NEW j \in indices,
                      Does(rule, f, spec[j]) \in Marks
               PROVE  spec[j].kind \in KindsOf(rule, Marks)
    BY DEF Marked, GivenByMarks
  <2> QED
    BY <1>2 DEF KindsOf
<1>5. \A indices \in SUBSET DOMAIN spec : Marked(rule, f, spec, indices) \subseteq Verdicts
  BY <1>3 DEF Marked
<1>6. GivenAtEnd(rule) \subseteq Gives(rule, decisive)
  BY DEF Gives
<1>7. CASE Stops(rule, f, spec) = {} /\ Chosen(rule, f, spec) = Marked(rule, f, spec, DOMAIN spec)
  <2>1. ASSUME decisive, Settles(rule) PROVE FALSE
    <3>1. PICK i \in DOMAIN spec : spec[i].kind # "blank" /\ spec[i].when = ""
      BY <2>1
    <3>2. Does(rule, f, spec[i]) \notin Marks \union {"miss"}
      BY <1>2, <2>1, <3>1 DEF Settles
    <3> QED
      BY <1>7, <3>1, <3>2 DEF Stops
  <2>2. Gives(rule, decisive) = GivenAtEnd(rule) \union GivenByMarks(rule)
    BY <2>1, Zenon DEF Gives
  <2>3. DOMAIN spec \in SUBSET DOMAIN spec
    OBVIOUS
  <2> QED
    BY <1>4, <1>5, <1>7, <2>2, <2>3
<1>8. ASSUME NEW end \in DOMAIN spec, NEW indices \in SUBSET DOMAIN spec,
             Does(rule, f, spec[end]) \notin Marks \union {"miss"},
             Chosen(rule, f, spec) =
               IF Does(rule, f, spec[end]) = "last" /\ Marked(rule, f, spec, indices) # {}
               THEN Marked(rule, f, spec, indices)
               ELSE IF Does(rule, f, spec[end]) \in Ends THEN {spec[end].kind}
               ELSE {Does(rule, f, spec[end])}
      PROVE  \/ Chosen(rule, f, spec) = {"error"}
             \/ Chosen(rule, f, spec) = {"crash"} /\ May(rule, "crash")
             \/ Chosen(rule, f, spec) \subseteq Verdicts /\ Chosen(rule, f, spec) \in Gives(rule, decisive)
  <2>1. PICK does : does = Does(rule, f, spec[end])
    OBVIOUS
  <2>2. does \in Ends \union Refusals \union {"fail"} /\ May(rule, does)
    BY <1>2, <1>3, <1>8, <2>1 DEF May
  <2>3. CASE does = "last" /\ Marked(rule, f, spec, indices) # {}
    <3>1. Marked(rule, f, spec, indices) \in Gives(rule, decisive)
      BY <1>4, <2>2, <2>3 DEF Gives
    <3> QED
      BY <1>5, <1>8, <2>1, <2>3, <3>1
  <2>4. CASE does \in Ends /\ Chosen(rule, f, spec) = {spec[end].kind}
    <3>1. spec[end].kind \in KindsOf(rule, Ends)
      BY <1>2, <2>1, <2>4 DEF KindsOf
    <3>2. {spec[end].kind} \in GivenAtEnd(rule)
      BY <3>1 DEF GivenAtEnd
    <3>3. {spec[end].kind} \subseteq Verdicts
      BY <1>3, <2>1, <2>4
    <3> QED
      BY <1>6, <2>4, <3>2, <3>3
  <2>5. CASE does \notin Ends /\ Chosen(rule, f, spec) = {does}
    <3>1. does \in {"error", "crash", "fail"}
      BY <2>2, <2>5 DEF Refusals
    <3>2. does = "fail" => {"fail"} \in GivenAtEnd(rule) /\ {"fail"} \subseteq Verdicts
      BY <2>2 DEF GivenAtEnd, Verdicts
    <3> QED
      BY <1>6, <2>2, <2>5, <3>1, <3>2
  <2> QED
    BY <1>8, <2>1, <2>3, <2>4, <2>5
<1> QED
  BY <1>1, <1>7, <1>8, ChosenIs

(***************************************************************************)
(* Where the steps of a program lead.                                      *)
(***************************************************************************)
LEMMA HereIs ==
    /\ Here.at = at /\ Here.results = results /\ Here.loss = Loss
    /\ Here.decisive = Decisive
  BY DEF Here, Path

LEMMA AfterOutcomes ==
    ASSUME NEW a, NEW p, Program[a][p.at].kind \in {"outcomes", "rendered"},
           NEW decisive \in Decisions(p, Program[a][p.at].what),
           NEW verdicts \in Gives(Program[a][p.at].what, decisive)
    PROVE  AfterLoop(p, Program[a][p.at], verdicts, decisive) \in After(a, p)
<1>1. PICK step : step = Program[a][p.at]
  OBVIOUS
<1>2. AfterLoop(p, step, verdicts, decisive) \in AfterLoops(p, step, decisive)
  BY <1>1 DEF AfterLoops
<1>3. AfterLoop(p, step, verdicts, decisive)
        \in UNION {AfterLoops(p, step, d) : d \in Decisions(p, step.what)}
  BY <1>1, <1>2, Zenon
<1>4. After(a, p) = UNION {AfterLoops(p, step, d) : d \in Decisions(p, step.what)}
  BY <1>1 DEF After
<1> QED
  BY <1>1, <1>3, <1>4

LEMMA LossStep ==
    ASSUME NEW what, lost' = lost \union {what}, analyzer' = analyzer
    PROVE  Loss' = LossWith(analyzer, Loss, what)
  BY DEF Loss, LossWith

LEMMA LossStays ==
    ASSUME UNCHANGED <<lost, analyzer>>
    PROVE  Loss' = Loss
  BY DEF Loss

\* whether the spec decides does not change until a rule is asked
LEMMA DecisiveStays ==
    ASSUME asked # {} => given, SpecStays \/ Look, asked' = asked
    PROVE  Decisive' = Decisive /\ (asked' # {} => given')
<1>1. CASE asked = {}
  BY <1>1, Zenon DEF Decisive
<1>2. CASE asked # {}
  <2>1. outcomes' = outcomes /\ given'
    BY <1>2 DEF SpecStays, Look
  <2> QED
    BY <1>2, <2>1, Zenon DEF Decisive
<1> QED
  BY <1>1, <1>2

LEMMA DecisiveStep ==
    ASSUME asked # {} => given, Look, NEW rule, asked' = asked \union {rule}
    PROVE  /\ given'
           /\ Decisive' => Decisive /\ rule \notin Implying \union Leveled
           /\ Decisive' => \E i \in DOMAIN outcomes' : outcomes'[i].kind # "blank" /\ outcomes'[i].when = ""
<1>1. given' /\ (asked # {} => outcomes' = outcomes)
  BY DEF Look
<1>2. asked' # {}
  OBVIOUS
<1> QED
  BY <1>1, <1>2 DEF Decisive

\* where a step leads that does not ask the spec
LEMMA AfterStep ==
    ASSUME NEW a, NEW p, NEW step, step = Program[a][p.at]
    PROVE  /\ step.kind \in {"call", "if", "ifOutcomes", "need"} =>
                Path(p.at + 1, p.results, p.loss, p.decisive) \in After(a, p)
           /\ step.kind \in {"if", "ifOutcomes", "goto"} =>
                Path(p.at + 1 + step.over, p.results, p.loss, p.decisive) \in After(a, p)
           /\ step.kind = "call" /\ step.onError # "error" =>
                Path(p.at + 1 + step.over, p.results, LossWith(a, p.loss, step.what), p.decisive)
                  \in After(a, p)
           /\ step.kind = "missing" =>
                Path(p.at + 1, p.results, LossWith(a, p.loss, step.what), p.decisive) \in After(a, p)
           /\ step.kind = "result" =>
                Path(p.at + 1, p.results \union {{step.what} \ {""}}, p.loss, p.decisive) \in After(a, p)
           /\ step.kind = "drop" =>
                Path(p.at + 1, p.results \ {{step.what}}, p.loss, p.decisive) \in After(a, p)
           /\ step.kind = "ifVerdict" =>
                Path(IF p.results # {} /\ (step.what = "any" \/ \E r \in p.results : step.what \in r)
                     THEN p.at + 1 ELSE p.at + 1 + step.over, p.results, p.loss, p.decisive)
                  \in After(a, p)
           /\ step.kind = "deref" /\ p.results # {} =>
                Path(p.at + 1, p.results, p.loss, p.decisive) \in After(a, p)
<1>1. CASE step.kind = "call"
  BY <1>1 DEF After
<1>2. CASE step.kind \in {"if", "ifOutcomes", "goto", "need"}
  BY <1>2 DEF After
<1>3. CASE step.kind = "missing"
  BY <1>3 DEF After
<1>4. CASE step.kind \in {"result", "drop"}
  BY <1>4 DEF After
<1>5. CASE step.kind = "ifVerdict"
  BY <1>5 DEF After
<1>6. CASE step.kind = "deref"
  BY <1>6 DEF After
<1> QED
  BY <1>1, <1>2, <1>3, <1>4, <1>5, <1>6

(***************************************************************************)
(* The analyzer stays on the paths of its program, as long as they are     *)
(* closed under the steps, and it crashes only where they may.             *)
(***************************************************************************)
PathInv(Paths) ==
    /\ asked # {} => given
    /\ result \in {"running", "ok"} => Here \in Paths[analyzer]
    /\ result = "ok" => at > Len(Program[analyzer])
    /\ result = "crash" => culprit \in Panicking[analyzer]

LEMMA RunningIs ==
    ASSUME TypeOK, NEW kinds, Running(kinds)
    PROVE  /\ result = "running" /\ analyzer \in Analyzer
           /\ Here.at <= Len(Program[analyzer]) /\ Program[analyzer][Here.at] = Step
           /\ Step.kind \in kinds
  BY HereIs DEF TypeOK, Running, Step

\* a step that goes on
LEMMA MoveStep ==
    ASSUME NEW Paths, PathsAreClosed(Paths), TypeOK, PathInv(Paths), NEW kinds, Running(kinds),
           UNCHANGED <<analyzer, result>>, asked' # {} => given', Here' \in After(analyzer, Here)
    PROVE  PathInv(Paths)'
<1>1. result = "running" /\ analyzer \in Analyzer /\ Here.at <= Len(Program[analyzer])
  BY RunningIs
<1>2. Here \in Paths[analyzer]
  BY <1>1 DEF PathInv
<1>3. PICK here : here = Here
  OBVIOUS
<1>4. PICK there : there = Here'
  OBVIOUS
<1>5. there \in Paths[analyzer]
  BY <1>1, <1>2, <1>3, <1>4 DEF PathsAreClosed
<1> QED
  BY <1>1, <1>4, <1>5 DEF PathInv

\* a step that ends the analysis, with an error or in a crash
LEMMA EndStep ==
    ASSUME NEW Paths, PathsAreSound(Paths), TypeOK, PathInv(Paths), NEW kinds, Running(kinds),
           analyzer' = analyzer, asked' # {} => given',
           \/ result' = "error"
           \/ result' = "crash" /\ culprit' = Step.what /\ MayCrash(analyzer, Here)
    PROVE  PathInv(Paths)'
<1>1. /\ result = "running" /\ analyzer \in Analyzer /\ Here.at <= Len(Program[analyzer])
      /\ Program[analyzer][Here.at] = Step
  BY RunningIs
<1>2. Here \in Paths[analyzer]
  BY <1>1 DEF PathInv
<1>3. PICK here : here = Here
  OBVIOUS
<1>4. MayCrash(analyzer, here) => Program[analyzer][here.at].what \in Panicking[analyzer]
  BY <1>1, <1>2, <1>3 DEF PathsAreSound
<1> QED
  BY <1>1, <1>3, <1>4 DEF PathInv

LEMMA PathDecide ==
    ASSUME ProgramsAreWellFormed, NEW Paths, PathsAreClosed(Paths), PathsAreSound(Paths),
           TypeOK, PathInv(Paths), Running({"outcomes", "rendered"}), Look,
           NEW rule, rule = Step.what, NEW f \in Facts(rule), Decide(rule, f), lost' = lost
    PROVE  PathInv(Paths)'
<1>1. PICK spec \in Specs : spec = outcomes'
  BY SpecsStay
<1>2. rule \in DOMAIN RuleOf
  BY StepIs
<1>3. PICK chosen : chosen = Chosen(rule, f, spec)
  OBVIOUS
<1>4. /\ given'
      /\ Decisive' => Decisive /\ rule \notin Implying \union Leveled
      /\ Decisive' => \E i \in DOMAIN outcomes' : outcomes'[i].kind # "blank" /\ outcomes'[i].when = ""
  BY DecisiveStep DEF PathInv, Decide
<1>5. PICK decisive \in BOOLEAN : decisive = Decisive'
  BY Zenon DEF Decisive
<1>6. \/ chosen = {"error"}
      \/ chosen = {"crash"} /\ May(rule, "crash")
      \/ chosen \subseteq Verdicts /\ chosen \in Gives(rule, decisive)
  <2>1. decisive => \E i \in DOMAIN spec : spec[i].kind # "blank" /\ spec[i].when = ""
    BY <1>1, <1>4, <1>5, Zenon
  <2> QED
    BY <1>2, <1>3, <2>1, ChosenGiven
<1>7. CASE chosen = {"error"}
  <2>1. result' = "error" /\ analyzer' = analyzer
    BY <1>1, <1>3, <1>7 DEF Decide
  <2> QED
    BY <1>4, <2>1, EndStep
<1>8. CASE chosen = {"crash"} /\ May(rule, "crash")
  <2>1. result' = "crash" /\ culprit' = Step.what /\ analyzer' = analyzer
    BY <1>1, <1>3, <1>8 DEF Decide, Crash
  <2>2. MayCrash(analyzer, Here)
    BY <1>8, RunningIs DEF MayCrash
  <2> QED
    BY <1>4, <2>1, <2>2, EndStep
<1>9. CASE chosen \subseteq Verdicts /\ chosen \in Gives(rule, decisive)
  <2>1. chosen # {"error"} /\ chosen # {"crash"}
    BY <1>9 DEF Verdicts
  <2>2. PICK here : here = Here
    OBVIOUS
  <2>3. /\ here.at = at /\ here.results = results /\ here.loss = Loss /\ Loss' = Loss
        /\ analyzer' = analyzer /\ result' = result
    BY <1>1, <1>3, <2>1, <2>2, HereIs, LossStays DEF Decide, Goto
  <2>4. Program[analyzer][here.at] = Step /\ Step.kind \in {"outcomes", "rendered"}
    BY <2>2, RunningIs
  <2>5. Here' = AfterLoop(here, Step, chosen, decisive)
    <3>1. CASE chosen = {}
      <4>1. at' = at + 1 /\ results' = results
        BY <1>1, <1>3, <2>1, <3>1 DEF Decide, Goto
      <4> QED
        BY <1>5, <2>3, <3>1, <4>1 DEF Here, AfterLoop
    <3>2. CASE chosen # {}
      <4>1. at' = at + 1 + Step.over /\ results' = results \union ResultsWith(rule, chosen)
        BY <1>1, <1>3, <2>1, <3>2 DEF Decide, Goto, ResultsWith
      <4> QED
        BY <1>5, <2>3, <3>2, <4>1 DEF Here, AfterLoop
    <3> QED
      BY <3>1, <3>2
  <2>6. decisive \in Decisions(here, rule)
    <3>1. decisive => here.decisive /\ rule \notin Implying \union Leveled
      BY <1>4, <1>5, <2>2, HereIs, Zenon
    <3> QED
      BY <3>1, Zenon DEF Decisions
  <2>7. Here' \in After(analyzer, here)
    BY <1>9, <2>4, <2>5, <2>6, AfterOutcomes
  <2> QED
    BY <1>4, <2>2, <2>3, <2>7, MoveStep
<1> QED
  BY <1>6, <1>7, <1>8, <1>9

\* a step that does not ask the spec, and goes on
LEMMA GoStep ==
    ASSUME NEW Paths, PathsAreClosed(Paths), TypeOK, PathInv(Paths), NEW kinds, Running(kinds),
           UNCHANGED <<analyzer, result, asked>>, SpecStays \/ Look,
           Path(at', results', Loss', Here.decisive) \in After(analyzer, Here)
    PROVE  PathInv(Paths)'
<1>1. Decisive' = Decisive /\ (asked' # {} => given')
  BY DecisiveStays DEF PathInv
<1>2. Here' = Path(at', results', Loss', Here.decisive)
  BY <1>1, HereIs DEF Here
<1> QED
  BY <1>1, <1>2, MoveStep

LEMMA PathStep ==
    ASSUME ProgramsAreWellFormed, NEW Paths, PathsAreClosed(Paths), PathsAreSound(Paths),
           TypeOK, PathInv(Paths), [Next]_vars
    PROVE  PathInv(Paths)'
<1>1. PICK here : here = Here
  OBVIOUS
<1>2. here.at = at /\ here.results = results /\ here.loss = Loss
  BY <1>1, HereIs
<1>3. ASSUME NEW kinds, Running(kinds)
      PROVE  Program[analyzer][here.at] = Step /\ Step.kind \in kinds
  BY <1>1, <1>3, RunningIs
<1>4. asked # {} => given
  BY DEF PathInv
<1>5. CASE TryOutcomes
  BY <1>5, PathDecide DEF TryOutcomes
<1>6. CASE FailToRender
  <2>1. /\ Running({"rendered"}) /\ Look /\ asked' = asked /\ analyzer' = analyzer
        /\ result' = "error"
    BY <1>6 DEF FailToRender
  <2> QED
    BY <1>4, <2>1, DecisiveStays, EndStep
<1>7. CASE Succeed
  <2>1. /\ Running({"call"}) /\ at' = at + 1 /\ UNCHANGED <<lost, results>>
        /\ UNCHANGED <<analyzer, result, asked>> /\ SpecStays
    BY <1>7 DEF Succeed, Goto
  <2>2. Path(at', results', Loss', here.decisive) \in After(analyzer, here)
    <3>1. Step.kind = "call" /\ Step = Program[analyzer][here.at]
      BY <1>3, <2>1
    <3>2. Loss' = here.loss
      BY <1>2, <2>1, LossStays
    <3> QED
      BY <1>2, <2>1, <3>1, <3>2, AfterStep
  <2> QED
    BY <1>1, <2>1, <2>2, GoStep
<1>8. CASE Fail
  <2>1. /\ Running({"call"}) /\ lost' = lost \union {Step.what}
        /\ UNCHANGED <<analyzer, asked>> /\ SpecStays
    BY <1>8 DEF Fail, Goto
  <2>2. Step.kind = "call" /\ Program[analyzer][here.at] = Step
    BY <1>3, <2>1
  <2>3. CASE Step.onError = "error"
    <3>1. result' = "error"
      BY <1>8, <2>3 DEF Fail
    <3> QED
      BY <1>4, <2>1, <3>1, DecisiveStays, EndStep
  <2>4. CASE Step.onError # "error"
    <3>1. at' = at + 1 + Step.over /\ UNCHANGED <<results, result>>
      BY <1>8, <2>4 DEF Fail, Goto
    <3>2. Loss' = LossWith(analyzer, Loss, Step.what)
      BY <2>1, LossStep
    <3>3. Path(at', results', Loss', here.decisive) \in After(analyzer, here)
      <4>1. Step.kind = "call" /\ Step = Program[analyzer][here.at]
        BY <1>3, <2>1
      <4> QED
        BY <1>2, <2>2, <2>4, <3>1, <3>2, <4>1, AfterStep
    <3> QED
      BY <1>1, <2>1, <3>1, <3>3, GoStep
  <2> QED
    BY <2>3, <2>4
<1>9. CASE FindNothing
  <2>1. /\ Running({"missing"}) /\ lost' = lost \union {Step.what} /\ at' = at + 1
        /\ UNCHANGED <<analyzer, result, asked, results>> /\ SpecStays
    BY <1>9 DEF FindNothing, Goto
  <2>2. Loss' = LossWith(analyzer, Loss, Step.what)
    BY <2>1, LossStep
  <2>3. Path(at', results', Loss', here.decisive) \in After(analyzer, here)
    <3>1. Step.kind = "missing" /\ Step = Program[analyzer][here.at]
      BY <1>3, <2>1
    <3> QED
      BY <1>2, <2>1, <2>2, <3>1, AfterStep
  <2> QED
    BY <1>1, <2>1, <2>3, GoStep
<1>10. CASE AppendResult
  <2>1. /\ Running({"result"}) /\ results' = results \union {{Step.what} \ {""}} /\ at' = at + 1
        /\ UNCHANGED <<analyzer, result, asked, lost>> /\ SpecStays
    BY <1>10 DEF AppendResult, Goto
  <2>2. Path(at', results', Loss', here.decisive) \in After(analyzer, here)
    <3>1. Step.kind = "result" /\ Step = Program[analyzer][here.at]
      <4>1. Running({"result"})
        BY <2>1
      <4>2. Step.kind \in {"result"} /\ Program[analyzer][here.at] = Step
        BY <1>3, <4>1, Zenon
      <4> QED
        BY <4>2, Zenon
    <3>2. Loss' = here.loss
      BY <1>2, <2>1, LossStays
    <3> QED
      BY <1>2, <2>1, <3>1, <3>2, AfterStep
  <2> QED
    BY <1>1, <2>1, <2>2, GoStep
<1>11. CASE LeaveOut
  <2>1. /\ Running({"drop"}) /\ results' = results \ {{Step.what}} /\ at' = at + 1
        /\ UNCHANGED <<analyzer, result, asked, lost>> /\ SpecStays
    BY <1>11 DEF LeaveOut, Goto
  <2>2. Path(at', results', Loss', here.decisive) \in After(analyzer, here)
    <3>1. Step.kind = "drop" /\ Step = Program[analyzer][here.at]
      BY <1>3, <2>1
    <3>2. Loss' = here.loss
      BY <1>2, <2>1, LossStays
    <3> QED
      BY <1>2, <2>1, <3>1, <3>2, AfterStep
  <2> QED
    BY <1>1, <2>1, <2>2, GoStep
<1>12. CASE Branch
  <2>1. /\ Running({"if"}) /\ at' \in {at + 1, at + 1 + Step.over}
        /\ UNCHANGED <<analyzer, result, asked, lost, results>> /\ SpecStays
    BY <1>12 DEF Branch, Goto
  <2>2. Path(at', results', Loss', here.decisive) \in After(analyzer, here)
    <3>1. Step.kind = "if" /\ Step = Program[analyzer][here.at]
      BY <1>3, <2>1
    <3>2. Loss' = here.loss
      BY <1>2, <2>1, LossStays
    <3> QED
      BY <1>2, <2>1, <3>1, <3>2, AfterStep
  <2> QED
    BY <1>1, <2>1, <2>2, GoStep
<1>13. CASE BranchOnVerdict
  <2>1. /\ Running({"ifVerdict"})
        /\ at' = IF results # {} /\ (Step.what = "any" \/ \E r \in results : Step.what \in r)
                 THEN at + 1 ELSE at + 1 + Step.over
        /\ UNCHANGED <<analyzer, result, asked, lost, results>> /\ SpecStays
    BY <1>13 DEF BranchOnVerdict, Goto
  <2>2. Path(at', results', Loss', here.decisive) \in After(analyzer, here)
    <3>1. Step.kind = "ifVerdict" /\ Step = Program[analyzer][here.at]
      BY <1>3, <2>1
    <3>2. Loss' = here.loss
      BY <1>2, <2>1, LossStays
    <3> QED
      BY <1>2, <2>1, <3>1, <3>2, AfterStep
  <2> QED
    BY <1>1, <2>1, <2>2, GoStep
<1>14. CASE BranchOnOutcomes
  <2>1. /\ Running({"ifOutcomes"}) /\ at' \in {at + 1, at + 1 + Step.over}
        /\ UNCHANGED <<analyzer, result, asked, lost, results>> /\ Look
    BY <1>14 DEF BranchOnOutcomes, Goto
  <2>2. Path(at', results', Loss', here.decisive) \in After(analyzer, here)
    <3>1. Step.kind = "ifOutcomes" /\ Step = Program[analyzer][here.at]
      BY <1>3, <2>1
    <3>2. Loss' = here.loss
      BY <1>2, <2>1, LossStays
    <3> QED
      BY <1>2, <2>1, <3>1, <3>2, AfterStep
  <2> QED
    BY <1>1, <2>1, <2>2, GoStep
<1>15. CASE Jump
  <2>1. /\ Running({"goto"}) /\ at' = at + 1 + Step.over
        /\ UNCHANGED <<analyzer, result, asked, lost, results>> /\ SpecStays
    BY <1>15 DEF Jump, Goto
  <2>2. Path(at', results', Loss', here.decisive) \in After(analyzer, here)
    <3>1. Step.kind = "goto" /\ Step = Program[analyzer][here.at]
      BY <1>3, <2>1
    <3>2. Loss' = here.loss
      BY <1>2, <2>1, LossStays
    <3> QED
      BY <1>2, <2>1, <3>1, <3>2, AfterStep
  <2> QED
    BY <1>1, <2>1, <2>2, GoStep
<1>16. CASE UseOutcome
  <2>1. /\ Running({"need"}) /\ Look /\ UNCHANGED <<analyzer, asked, lost, results>>
        /\ \/ at' = at + 1 /\ result' = result
           \/ result' = "crash" /\ culprit' = Step.what
    BY <1>16 DEF UseOutcome, Goto, Crash
  <2>2. CASE at' = at + 1 /\ result' = result
    <3>1. Path(at', results', Loss', here.decisive) \in After(analyzer, here)
      <4>1. Step.kind = "need" /\ Step = Program[analyzer][here.at]
        BY <1>3, <2>1
      <4>2. Loss' = here.loss
        BY <1>2, <2>1, LossStays
      <4> QED
        BY <1>2, <2>1, <2>2, <4>1, <4>2, AfterStep
    <3> QED
      BY <1>1, <2>1, <2>2, <3>1, GoStep
  <2>3. CASE result' = "crash" /\ culprit' = Step.what
    <3>1. MayCrash(analyzer, Here)
      BY <1>1, <1>3, <2>1 DEF MayCrash
    <3> QED
      BY <1>4, <2>1, <2>3, <3>1, DecisiveStays, EndStep
  <2> QED
    BY <2>1, <2>2, <2>3
<1>17. CASE UseResult
  <2>1. /\ Running({"deref"}) /\ SpecStays /\ UNCHANGED <<analyzer, asked, lost, results>>
        /\ \/ results # {} /\ at' = at + 1 /\ result' = result
           \/ results = {} /\ result' = "crash" /\ culprit' = Step.what
    BY <1>17 DEF UseResult, Goto, Crash
  <2>2. CASE results # {} /\ at' = at + 1 /\ result' = result
    <3>1. Path(at', results', Loss', here.decisive) \in After(analyzer, here)
      <4>1. Step.kind = "deref" /\ Step = Program[analyzer][here.at]
        BY <1>3, <2>1
      <4>2. Loss' = here.loss
        BY <1>2, <2>1, LossStays
      <4> QED
        BY <1>2, <2>1, <2>2, <4>1, <4>2, AfterStep
    <3> QED
      BY <1>1, <2>1, <2>2, <3>1, GoStep
  <2>3. CASE results = {} /\ result' = "crash" /\ culprit' = Step.what
    <3>1. MayCrash(analyzer, Here)
      BY <1>1, <1>2, <1>3, <2>1, <2>3 DEF MayCrash
    <3> QED
      BY <1>4, <2>1, <2>3, <3>1, DecisiveStays, EndStep
  <2> QED
    BY <2>1, <2>2, <2>3
<1>18. CASE RaiseError
  <2>1. /\ Running({"raise"}) /\ SpecStays /\ UNCHANGED <<analyzer, asked>>
        /\ \/ result' = "error"
           \/ Step.onError = "crash" /\ result' = "crash" /\ culprit' = Step.what
    BY <1>18 DEF RaiseError, Crash
  <2>2. Step.onError = "crash" => MayCrash(analyzer, Here)
    BY <1>1, <1>3, <2>1 DEF MayCrash
  <2> QED
    BY <1>4, <2>1, <2>2, DecisiveStays, EndStep
<1>19. CASE ReturnResults
  <2>1. /\ result = "running" /\ at > Len(Program[analyzer]) /\ result' = "ok" /\ SpecStays
        /\ UNCHANGED <<analyzer, at, lost, results, asked>>
    BY <1>19 DEF ReturnResults
  <2>2. Here' = Here
    BY <1>4, <2>1, LossStays, DecisiveStays DEF Here
  <2> QED
    BY <1>4, <2>1, <2>2, DecisiveStays DEF PathInv
<1>20. CASE UNCHANGED vars
  <2>1. Here' = Here
    BY <1>20 DEF vars, Here, Loss, Decisive
  <2> QED
    BY <1>20, <2>1 DEF vars, PathInv
<1> QED
  BY <1>5, <1>6, <1>7, <1>8, <1>9, <1>10, <1>11, <1>12, <1>13, <1>14, <1>15, <1>16, <1>17,
     <1>18, <1>19, <1>20 DEF Next, Ended

LEMMA PathsAlways ==
    ASSUME ProgramsAreWellFormed, NEW Paths, PathsAreClosed(Paths), PathsAreSound(Paths)
    PROVE  Spec => [](TypeOK /\ PathInv(Paths))
<1>1. Init => TypeOK /\ PathInv(Paths)
  <2> SUFFICES ASSUME Init PROVE PathInv(Paths)
    BY TypeInit
  <2>1. Decisive = TRUE
    BY Zenon DEF Init, Decisive
  <2>2. Here = Start
    BY <2>1 DEF Init, Here, Start, Loss
  <2>3. Start \in Paths[analyzer]
    BY DEF Init, PathsAreClosed
  <2> QED
    BY <2>2, <2>3 DEF Init, PathInv
<1>2. TypeOK /\ PathInv(Paths) /\ [Next]_vars => (TypeOK /\ PathInv(Paths))'
  BY TypeStep, PathStep
<1> QED
  BY <1>1, <1>2, PTL DEF Spec

LEMMA EndIs ==
    ASSUME NEW Paths, PathsAreSound(Paths), TypeOK, PathInv(Paths), result = "ok"
    PROVE  EndIsSound(analyzer, Here)
<1>1. analyzer \in Analyzer /\ Here \in Paths[analyzer] /\ at > Len(Program[analyzer])
  BY DEF TypeOK, PathInv
<1>2. Here.at = at
  BY HereIs
<1>3. PICK here : here = Here
  OBVIOUS
<1>4. ~ (here.at <= Len(Program[analyzer]))
  BY <1>1, <1>2, <1>3 DEF TypeOK
<1> QED
  BY <1>1, <1>3, <1>4 DEF PathsAreSound

(***************************************************************************)
(* Whatever is lost, and with a spec of any length, what could not be read *)
(* is not reported as healthy (the error paths of every Analyze), but for  *)
(* the steps of Trusting.                                                  *)
(***************************************************************************)
THEOREM WhatIsLostDoesNotPass ==
    ASSUME ProgramsAreWellFormed, NEW Paths, PathsAreClosed(Paths), PathsAreSound(Paths)
    PROVE  Spec => []LostIsNotPassed
<1>1. TypeOK /\ PathInv(Paths) => LostIsNotPassed
  <2> SUFFICES ASSUME TypeOK, PathInv(Paths), result = "ok", lost # {},
                      lost \intersect Trusting[analyzer] = {}
               PROVE  \A r \in results : "pass" \notin r
    BY DEF LostIsNotPassed
  <2>1. EndIsSound(analyzer, Here)
    BY EndIs
  <2>2. Loss = "lost"
    BY DEF Loss
  <2> QED
    BY <2>1, <2>2, HereIs DEF EndIsSound
<1> QED
  BY <1>1, PathsAlways, PTL

(***************************************************************************)
(* With a spec of any length that ends in an outcome without a condition,  *)
(* every analyzer returns a verdict, one for each result (the results that *)
(* Analyze returns), but for those of Undecided and Unclear.               *)
(***************************************************************************)
THEOREM VerdictsAreGiven ==
    ASSUME ProgramsAreWellFormed, NEW Paths, PathsAreClosed(Paths), PathsAreSound(Paths)
    PROVE  Spec => []VerdictIsGiven
<1>1. TypeOK /\ PathInv(Paths) => VerdictIsGiven
  <2> SUFFICES ASSUME TypeOK, PathInv(Paths), result = "ok", Decisive
               PROVE  /\ results # {} \/ analyzer \in Undecided
                      /\ \/ \A r \in results : Cardinality(r \ {"nil"}) = 1
                         \/ analyzer \in Unclear
    BY Zenon DEF VerdictIsGiven
  <2>1. EndIsSound(analyzer, Here)
    BY EndIs
  <2>2. PICK here : here = Here
    OBVIOUS
  <2>3. here.decisive
    BY <2>2, HereIs, Zenon
  <2> QED
    BY <2>1, <2>2, <2>3, HereIs, Zenon DEF EndIsSound
<1> QED
  BY <1>1, PathsAlways, PTL

(***************************************************************************)
(* No file and no spec of any length make an analyzer dereference nil (a   *)
(* panic in Analyze ends the analysis of the bundle), but in the steps of  *)
(* Panicking.                                                              *)
(***************************************************************************)
THEOREM NilIsNotDereferenced ==
    ASSUME ProgramsAreWellFormed, NEW Paths, PathsAreClosed(Paths), PathsAreSound(Paths)
    PROVE  Spec => []NothingPanics
<1>1. TypeOK /\ PathInv(Paths) => NothingPanics
  BY DEF PathInv, NothingPanics
<1> QED
  BY <1>1, PathsAlways, PTL
=============================================================================
