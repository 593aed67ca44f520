-------------------------- MODULE CollectorsProofs --------------------------
(***************************************************************************)
(* Theorems about Collectors, for any programs and any number of faults.   *)
(***************************************************************************)
EXTENDS CollectorPaths, TLAPS

(***************************************************************************)
(* What a step that does not fail does to each variable, and one that does.*)
(***************************************************************************)
Returned == IF result' \in {"ok", "error"} THEN deferred ELSE {}

Passes(step) ==
    /\ Move(at', result') \in Passing(step, at)
    /\ disk' = disk \union MarkIf(step.kind \in Saving, step.what)
    /\ output' = output \union MarkIf(\/ step.kind \in {"save", "report", "key"}
                                      \/ step.kind = "add" /\ step.what \in disk, step.what)
    /\ failed' = failed /\ diskOk' = diskOk
    /\ told' = told \union (IF step.kind = "report" THEN pending ELSE {})
    /\ pending' = IF step.kind = "report" THEN {} ELSE pending
    /\ step.kind = "ifErrors" /\ pending # {} => at' = at + 1
    /\ deferred' = deferred \union MarkIf(step.kind = "defer", step.what)
    /\ \E gone \in SUBSET MarkIf(step.kind \in {"free", "freeInTime"}, step.what) :
          /\ step.kind = "free" => gone = {step.what}
          /\ held' = ((held \union MarkIf(step.kind = "hold", step.what)) \ gone) \ Returned

Fails(step) ==
    /\ at <= Len(Program[collector])
    /\ Move(at', result') \in Failing(step, at)
    /\ disk' = disk /\ deferred' = deferred
    /\ output' = IF step.onError = "abort" THEN {}
                 ELSE output \union MarkIf(step.kind \in {"save", "report"}, step.what)
    /\ failed' = failed \union {<<at, step.what>>}
    /\ diskOk' = (diskOk /\ step.kind \notin Saving)
    /\ told' = told \union MarkIf(step.onError \in Returning \union {"note", "noteQuit"},
                                  <<at, step.what>>)
    /\ pending' = pending \union MarkIf(step.onError = "pend", <<at, step.what>>)
    /\ held' = held \ Returned

LEMMA PassingIs ==
    ASSUME NEW step, NEW n
    PROVE  /\ step.kind \in {"if", "ifErrors", "ifFile"} =>
                /\ Move(n + 1, "running") \in Passing(step, n)
                /\ Move(n + 1 + step.over, "running") \in Passing(step, n)
           /\ step.kind = "goto" => Move(n + 1 + step.over, "running") \in Passing(step, n)
           /\ step.kind = "return" => Move(n, "ok") \in Passing(step, n)
           /\ step.kind \notin {"if", "ifErrors", "ifFile", "goto", "return", "raise"} =>
                Move(n + 1, "running") \in Passing(step, n)
<1>1. CASE step.kind \in {"if", "ifErrors", "ifFile"}
  BY <1>1 DEF Passing
<1>2. CASE step.kind \in {"goto", "return"}
  BY <1>2 DEF Passing
<1>3. CASE step.kind \notin {"if", "ifErrors", "ifFile", "goto", "return"}
  BY <1>3 DEF Passing
<1> QED
  BY <1>1, <1>2, <1>3

LEMMA FailingIs ==
    ASSUME NEW step, NEW n, step.kind \in CanFail, step.onError # "none"
    PROVE  /\ step.onError \in Returning => Move(n, "error") \in Failing(step, n)
           /\ step.onError \in {"quit", "noteQuit"} => Move(n, "ok") \in Failing(step, n)
           /\ step.onError = "crash" => Move(n, "crash") \in Failing(step, n)
           /\ step.onError \notin Returning \union {"quit", "noteQuit", "crash"} =>
                Move(n + 1 + step.over, "running") \in Failing(step, n)
<1>1. CASE step.onError \in Returning
  BY <1>1 DEF Failing, Returning
<1>2. CASE step.onError \in {"quit", "noteQuit", "crash"}
  BY <1>2 DEF Failing, Returning
<1>3. CASE step.onError \notin Returning \union {"quit", "noteQuit", "crash"}
  BY <1>3 DEF Failing, Returning
<1> QED
  BY <1>1, <1>2, <1>3

-----------------------------------------------------------------------------
Here == StepAt(collector, at)

(***************************************************************************)
(* Every step of a collector that runs is one of the two.                  *)
(***************************************************************************)
LEMMA HereIs ==
    ASSUME ProgramsAreWellFormed, TypeOK
    PROVE  /\ at <= Length => Here = Step
           /\ at > Length => Here = LastStep
BY DEF Here, StepAt, ProgramsAreWellFormed, TypeOK, Length, Step

LEMMA PassIs ==
    ASSUME ProgramsAreWellFormed, TypeOK, result = "running",
           CallSucceeds \/ SaveSucceeds \/ ReportSucceeds \/ AddResult \/ HoldSucceeds
           \/ Release \/ DeferRelease \/ SetDeadline \/ Branch \/ BranchOnErrors
           \/ BranchOnFile \/ EnterKey \/ Jump \/ ReturnOutput
    PROVE  collector' = collector /\ Passes(Here)
<1> USE HereIs, PassingIs DEF Running, Quiet, Goto
<1>1. CASE CallSucceeds
  BY <1>1 DEF CallSucceeds, Passes, Returned, MarkIf, Saving
<1>2. CASE SaveSucceeds
  BY <1>2 DEF SaveSucceeds, Passes, Returned, MarkIf, Saving
<1>3. CASE ReportSucceeds
  BY <1>3 DEF ReportSucceeds, Passes, Returned, MarkIf, Saving
<1>4. CASE AddResult
  BY <1>4 DEF AddResult, Passes, Returned, MarkIf, Saving
<1>5. CASE HoldSucceeds
  BY <1>5 DEF HoldSucceeds, Passes, Returned, MarkIf, Saving
<1>6. CASE Release
  BY <1>6 DEF Release, Passes, Returned, MarkIf, Saving
<1>7. CASE DeferRelease
  BY <1>7 DEF DeferRelease, Passes, Returned, MarkIf, Saving
<1>8. CASE SetDeadline
  BY <1>8 DEF SetDeadline, Passes, Returned, MarkIf, Saving
<1>9. CASE Branch
  BY <1>9 DEF Branch, Passes, Returned, MarkIf, Saving
<1>10. CASE BranchOnErrors
  BY <1>10 DEF BranchOnErrors, Passes, Returned, MarkIf, Saving
<1>11. CASE BranchOnFile
  BY <1>11 DEF BranchOnFile, Passes, Returned, MarkIf, Saving
<1>12. CASE EnterKey
  BY <1>12 DEF EnterKey, Passes, Returned, MarkIf, Saving
<1>13. CASE Jump
  BY <1>13 DEF Jump, Passes, Returned, MarkIf, Saving
<1>14. CASE ReturnOutput
  <2>1. Here.kind = "return"
    <3>1. LastStep.kind = "return"
      BY DEF LastStep
    <3> QED
      BY <1>14, <3>1 DEF ReturnOutput
  <2>2. Move(at', result') \in Passing(Here, at)
    BY <1>14, <2>1 DEF ReturnOutput, Finish
  <2>3. held' = ((held \union {}) \ {}) \ Returned
    BY <1>14 DEF ReturnOutput, Finish, Returned
  <2> QED
    BY <1>14, <2>1, <2>2, <2>3 DEF ReturnOutput, Passes, MarkIf, Saving
<1> QED
  BY <1>1, <1>2, <1>3, <1>4, <1>5, <1>6, <1>7, <1>8, <1>9, <1>10, <1>11, <1>12, <1>13, <1>14

LEMMA FailIs ==
    ASSUME ProgramsAreWellFormed, TypeOK, Fail
    PROVE  collector' = collector /\ Fails(Here)
<1>1. at <= Length /\ Here = Step /\ Step.kind \in CanFail /\ Step.onError # "none"
  BY HereIs DEF Fail, Running, Fallible, CanFail
<1>2. Move(at', result') \in Failing(Here, at) /\ held' = held \ Returned
  <2>1. CASE Step.onError \in Returning
    BY <1>1, <2>1, FailingIs DEF Fail, Finish, Returning, Returned
  <2>2. CASE Step.onError \in {"quit", "noteQuit"}
    BY <1>1, <2>2, FailingIs DEF Fail, Finish, Returning, Returned
  <2>3. CASE Step.onError = "crash"
    BY <1>1, <2>3, FailingIs DEF Fail, Finish, Returning, Returned
  <2>4. CASE Step.onError \notin Returning \union {"quit", "noteQuit", "crash"}
    BY <1>1, <2>4, FailingIs DEF Fail, Goto, Running, Returned, Returning
  <2> QED
    BY <2>1, <2>2, <2>3, <2>4
<1> QED
  BY <1>1, <1>2 DEF Fail, Fails, Failure, MarkIf, Returning, Saving, Length, Running

LEMMA Effects ==
    ASSUME ProgramsAreWellFormed, TypeOK, Next, result = "running"
    PROVE  collector' = collector /\ (Passes(Here) \/ Fails(Here))
BY PassIs, FailIs DEF Next, Ended

-----------------------------------------------------------------------------
(***************************************************************************)
(* The type invariant: what is on disk, in the result, failed or held has  *)
(* its step in the program.                                                *)
(***************************************************************************)
NamesAreOfSteps ==
    /\ disk \subseteq Files(collector) /\ output \subseteq Files(collector)
    /\ failed \subseteq {FailureAt(collector, n) : n \in Failures(collector)}
    /\ held \subseteq Objects(collector)

TypeInv == TypeOK /\ NamesAreOfSteps

LEMMA MovesOfPassing ==
    ASSUME NEW step, NEW n, NEW m, NEW how, Move(m, how) \in Passing(step, n)
    PROVE  \/ step.kind = "return" /\ m = n /\ how = "ok"
           \/ step.kind # "return" /\ m \in {n + 1, n + 1 + step.over} /\ how = "running"
BY DEF Passing, Move

LEMMA MovesOfFailing ==
    ASSUME NEW step, NEW n, NEW m, NEW how, Move(m, how) \in Failing(step, n)
    PROVE  /\ step.kind \in CanFail /\ step.onError # "none"
           /\ \/ step.onError \in Returning /\ m = n /\ how = "error"
              \/ m = n /\ how \in {"ok", "crash"}
              \/ m = n + 1 + step.over /\ how = "running"
BY DEF Failing, Move, Returning

LEMMA TypeInit == ASSUME ProgramsAreWellFormed, Init PROVE TypeInv
BY DEF ProgramsAreWellFormed, Init, TypeInv, TypeOK, NamesAreOfSteps, Length

LEMMA FaultsAreBounded ==
    ASSUME ProgramsAreWellFormed, TypeOK, Next
    PROVE  faults' \in 0..MaxFaults /\ deadline' \in {"none", "running", "passed"}
<1> USE DEF TypeOK
<1>1. CASE Fail
  BY <1>1 DEF Fail, ProgramsAreWellFormed
<1>2. CASE SetDeadline
  BY <1>2 DEF SetDeadline
<1>3. CASE Ended
  BY <1>3 DEF Ended, vars
<1> QED
  BY <1>1, <1>2, <1>3 DEF Next, CallSucceeds, SaveSucceeds, ReportSucceeds, AddResult, HoldSucceeds,
     Release, DeferRelease, Branch, BranchOnErrors, BranchOnFile, EnterKey, Jump, ReturnOutput, Quiet

LEMMA PlaceStep ==
    ASSUME ProgramsAreWellFormed, TypeOK, result = "running", Passes(Here) \/ Fails(Here)
    PROVE  at' \in 1..(Length + 1) /\ result' \in {"running", "ok", "error", "crash"}
<1>1. \/ Move(at', result') \in Passing(Here, at)
      \/ at <= Length /\ Move(at', result') \in Failing(Here, at)
  BY DEF Passes, Fails, Length
<1>2. \/ Here.kind = "return" /\ at' = at /\ result' = "ok"
      \/ Here.kind # "return" /\ at' \in {at + 1, at + 1 + Here.over} /\ result' = "running"
      \/ at' = at /\ result' \in {"ok", "error", "crash"}
      \/ at <= Length /\ at' = at + 1 + Here.over /\ result' = "running"
  <2>1. CASE Move(at', result') \in Passing(Here, at)
    BY <2>1, MovesOfPassing
  <2>2. CASE at <= Length /\ Move(at', result') \in Failing(Here, at)
    BY <2>2, MovesOfFailing
  <2> QED
    BY <1>1, <2>1, <2>2
<1>3. LastStep.kind = "return"
  BY DEF LastStep
<1>4. \/ at' = at
      \/ at <= Length /\ at' \in {at + 1, at + 1 + Here.over}
  BY <1>2, <1>3, HereIs DEF Length, ProgramsAreWellFormed, TypeOK
<1> QED
  BY <1>2, <1>4, HereIs DEF TypeOK, Length, Step, ProgramsAreWellFormed

LEMMA NamesStep ==
    ASSUME ProgramsAreWellFormed, TypeInv, collector' = collector, Passes(Here) \/ Fails(Here)
    PROVE  NamesAreOfSteps'
<1> USE DEF TypeInv
<1>1. at <= Length => at \in 1..Length /\ Here = Program[collector][at]
  BY HereIs DEF TypeOK, Length, Step, ProgramsAreWellFormed
<1>2. LastStep.kind = "return"
  BY DEF LastStep
<1>3. at > Length => Here.kind = "return"
  BY <1>2, HereIs
<1>4. at <= Length \/ at > Length
  BY DEF TypeOK, Length, ProgramsAreWellFormed
<1>5. Here.kind \in Saving \union {"add", "key"} => Here.what \in Files(collector)
  <2>1. CASE at <= Length
    BY <1>1, <2>1 DEF Files, Length
  <2>2. CASE at > Length
    BY <1>3, <2>2 DEF Saving
  <2> QED
    BY <1>4, <2>1, <2>2
<1>6. Here.kind = "hold" => Here.what \in Objects(collector)
  <2>1. CASE at <= Length
    BY <1>1, <2>1 DEF Objects, Length
  <2>2. CASE at > Length
    BY <1>3, <2>2
  <2> QED
    BY <1>4, <2>1, <2>2
<1>7. CASE Passes(Here)
  BY <1>5, <1>6, <1>7 DEF NamesAreOfSteps, Passes, MarkIf, Saving
<1>8. CASE Fails(Here)
  <2>1. at \in Failures(collector) /\ <<at, Here.what>> = FailureAt(collector, at)
    BY <1>1, <1>8, MovesOfFailing DEF Fails, Failures, FailureAt, Length
  <2> QED
    BY <1>5, <1>8, <2>1 DEF NamesAreOfSteps, Fails, MarkIf, Saving
<1> QED
  BY <1>7, <1>8

LEMMA NextRuns ==
    ASSUME [Next]_vars PROVE (Next /\ result = "running") \/ UNCHANGED vars
BY DEF Next, Ended, CallSucceeds, SaveSucceeds, ReportSucceeds, AddResult, HoldSucceeds,
   Release, DeferRelease, SetDeadline, Branch, BranchOnErrors, BranchOnFile, EnterKey, Jump,
   ReturnOutput, Fail, Running

LEMMA TypeStep ==
    ASSUME ProgramsAreWellFormed, TypeInv, [Next]_vars
    PROVE  TypeInv'
<1>1. CASE Next /\ result = "running"
  <2>1. collector' = collector /\ (Passes(Here) \/ Fails(Here))
    BY <1>1, Effects DEF TypeInv
  <2>2. diskOk' \in BOOLEAN /\ pending' \subseteq failed' /\ told' \subseteq failed'
    BY <2>1 DEF Passes, Fails, TypeInv, TypeOK, MarkIf
  <2> QED
    BY <1>1, <2>1, <2>2, FaultsAreBounded, PlaceStep, NamesStep DEF TypeInv, TypeOK, Length
<1>2. CASE UNCHANGED vars
  BY <1>2 DEF vars, TypeInv, TypeOK, NamesAreOfSteps, Length, FailureAt
<1> QED
  BY <1>1, <1>2, NextRuns

-----------------------------------------------------------------------------
(***************************************************************************)
(* The marks of a file follow its path.                                    *)
(***************************************************************************)
LEMMA FileMarksAre ==
    ASSUME NEW file
    PROVE  /\ FileMarks(file) \subseteq {"onDisk", "returned", "dropped", "refused"}
           /\ "onDisk" \in FileMarks(file) <=> file \in disk
           /\ "returned" \in FileMarks(file) <=> file \in output
           /\ "dropped" \in FileMarks(file) <=> \E f \in failed : f[2] \in Dropping[collector]
           /\ "refused" \in FileMarks(file) <=> ~diskOk
BY Zenon DEF FileMarks, MarkIf

LEMMA FilePassStep ==
    ASSUME TypeOK, collector' = collector, Passes(Here), NEW file
    PROVE  FileMarks(file)' = FilePassed(Here, file, FileMarks(file))
BY DEF Passes, FileMarks, FilePassed, MarkIf, Saving

LEMMA FileFailStep ==
    ASSUME TypeOK, collector' = collector, Fails(Here), NEW file
    PROVE  FileMarks(file)' = FileFailed(collector, Here, file, FileMarks(file))
<1> DEFINE Dropped == \E f \in failed : f[2] \in Dropping[collector]
<1>1. Dropped' <=> Dropped \/ Here.what \in Dropping[collector]
  BY DEF Fails
<1>2. FileMarks(file) = MarkIf(file \in disk, "onDisk") \union MarkIf(file \in output, "returned")
                         \union MarkIf(Dropped, "dropped") \union MarkIf(~diskOk, "refused")
  BY DEF FileMarks
<1>3. FileMarks(file)' = MarkIf(file \in disk', "onDisk") \union MarkIf(file \in output', "returned")
                          \union MarkIf(Dropped', "dropped") \union MarkIf(~diskOk', "refused")
  BY DEF FileMarks
<1> HIDE DEF Dropped
<1>4. CASE Here.onError = "abort"
  BY <1>1, <1>2, <1>3, <1>4 DEF Fails, FileFailed, MarkIf, Saving
<1>5. CASE Here.onError # "abort"
  BY <1>1, <1>2, <1>3, <1>5 DEF Fails, FileFailed, MarkIf, Saving
<1> QED
  BY <1>4, <1>5

FileInv(Paths) ==
    \A file \in Files(collector) : Path(at, result, FileMarks(file)) \in Paths[collector][file]

LEMMA FileStep ==
    ASSUME NEW Paths, FilesAreKept(Paths), ProgramsAreWellFormed, TypeInv, FileInv(Paths), [Next]_vars
    PROVE  FileInv(Paths)'
<1>1. CASE Next /\ result = "running"
  <2>1. collector' = collector /\ collector \in Collector /\ (Passes(Here) \/ Fails(Here))
    BY <1>1, Effects DEF TypeInv, TypeOK
  <2> SUFFICES ASSUME NEW file \in Files(collector)
               PROVE  Path(at', result', FileMarks(file)') \in Paths[collector][file]
    BY <2>1 DEF FileInv
  <2> DEFINE p == Path(at, result, FileMarks(file))
  <2>2. p.at = at /\ p.result = "running" /\ p.marks = FileMarks(file)
    BY <1>1 DEF Path
  <2>3. FileAfter(collector, file, p) \subseteq Paths[collector][file]
    BY <2>1, <2>2 DEF FilesAreKept, FileInv
  <2>4. CASE Passes(Here)
    <3>1. Path(at', result', FilePassed(Here, file, FileMarks(file))) \in FileAfter(collector, file, p)
      <4> DEFINE m == Move(at', result')
      <4>1. m \in Passing(Here, at) /\ m.at = at' /\ m.result = result'
        BY <2>4 DEF Passes, Move
      <4> QED
        BY <2>2, <4>1 DEF FileAfter, Here
    <3> QED
      BY <2>1, <2>3, <2>4, <3>1, FilePassStep DEF TypeInv
  <2>5. CASE Fails(Here)
    <3>1. Path(at', result', FileFailed(collector, Here, file, FileMarks(file)))
            \in FileAfter(collector, file, p)
      <4> DEFINE m == Move(at', result')
      <4>1. m \in Failing(Here, at) /\ m.at = at' /\ m.result = result'
        BY <2>5 DEF Fails, Move
      <4> QED
        BY <2>2, <4>1 DEF FileAfter, Here
    <3> QED
      BY <2>1, <2>3, <2>5, <3>1, FileFailStep DEF TypeInv
  <2> QED
    BY <2>1, <2>4, <2>5
<1>2. CASE UNCHANGED vars
  BY <1>2 DEF vars, FileInv, FileMarks
<1> QED
  BY <1>1, <1>2, NextRuns

-----------------------------------------------------------------------------
(***************************************************************************)
(* The marks of a failure follow its path.                                 *)
(***************************************************************************)
LEMMA FailurePassStep ==
    ASSUME TypeOK, collector' = collector, Passes(Here), NEW n
    PROVE  /\ FailureMarks(n)' = FailurePassed(Here, FailureMarks(n))
           /\ Here.kind = "ifErrors" /\ "waiting" \in FailureMarks(n) => at' = at + 1
<1>1. "waiting" \in FailureMarks(n) <=> FailureAt(collector, n) \in pending
  BY Zenon DEF FailureMarks, MarkIf
<1>2. FailureMarks(n)' = FailurePassed(Here, FailureMarks(n))
  <2>1. CASE Here.kind = "report"
    BY <2>1 DEF Passes, FailureMarks, FailurePassed, FailureAt, MarkIf
  <2>2. CASE Here.kind # "report"
    BY <2>2 DEF Passes, FailureMarks, FailurePassed, FailureAt, MarkIf
  <2> QED
    BY <2>1, <2>2
<1> QED
  BY <1>1, <1>2 DEF Passes

LEMMA FailureFailStep ==
    ASSUME TypeOK, collector' = collector, Fails(Here), NEW n
    PROVE  FailureMarks(n)' = FailureFailed(Here, at = n, FailureMarks(n))
<1>1. Here = Program[collector][at]
  BY DEF Fails, Here, StepAt
<1>2. <<at, Here.what>> = FailureAt(collector, n) <=> at = n
  BY <1>1 DEF FailureAt
<1>3. CASE at = n
  BY <1>2, <1>3 DEF Fails, FailureMarks, FailureFailed, FailureAt, MarkIf
<1>4. CASE at # n
  BY <1>2, <1>4 DEF Fails, FailureMarks, FailureFailed, FailureAt, MarkIf
<1> QED
  BY <1>3, <1>4

FailureInv(Paths) ==
    \A n \in Failures(collector) : Path(at, result, FailureMarks(n)) \in Paths[collector][n]

LEMMA FailureStep ==
    ASSUME NEW Paths, FailuresAreTold(Paths), ProgramsAreWellFormed, TypeInv, FailureInv(Paths),
           [Next]_vars
    PROVE  FailureInv(Paths)'
<1>1. CASE Next /\ result = "running"
  <2>1. collector' = collector /\ collector \in Collector /\ (Passes(Here) \/ Fails(Here))
    BY <1>1, Effects DEF TypeInv, TypeOK
  <2> SUFFICES ASSUME NEW n \in Failures(collector)
               PROVE  Path(at', result', FailureMarks(n)') \in Paths[collector][n]
    BY <2>1 DEF FailureInv
  <2> DEFINE p == Path(at, result, FailureMarks(n))
             m == Move(at', result')
  <2>2. p.at = at /\ p.result = "running" /\ p.marks = FailureMarks(n)
    BY <1>1 DEF Path
  <2>3. FailureAfter(collector, n, p) \subseteq Paths[collector][n]
    BY <2>1, <2>2 DEF FailuresAreTold, FailureInv
  <2>4. m.at = at' /\ m.result = result'
    BY DEF Move
  <2>5. CASE Passes(Here)
    <3>1. m \in Passing(Here, at)
      BY <2>5 DEF Passes
    <3>2. Here.kind = "ifErrors" /\ "waiting" \in FailureMarks(n) => m.at = at + 1
      BY <2>1, <2>4, <2>5, FailurePassStep DEF TypeInv
    <3> HIDE DEF m
    <3>3. Path(m.at, m.result, FailurePassed(Here, FailureMarks(n))) \in FailureAfter(collector, n, p)
      BY <2>2, <3>1, <3>2 DEF FailureAfter, Here
    <3> QED
      BY <2>1, <2>3, <2>4, <2>5, <3>3, FailurePassStep DEF TypeInv
  <2>6. CASE Fails(Here)
    <3>1. m \in Failing(Here, at)
      BY <2>6 DEF Fails
    <3> HIDE DEF m
    <3>2. Path(m.at, m.result, FailureFailed(Here, at = n, FailureMarks(n)))
            \in FailureAfter(collector, n, p)
      BY <2>2, <3>1 DEF FailureAfter, Here
    <3> QED
      BY <2>1, <2>3, <2>4, <2>6, <3>2, FailureFailStep DEF TypeInv
  <2> QED
    BY <2>1, <2>5, <2>6
<1>2. CASE UNCHANGED vars
  BY <1>2 DEF vars, FailureInv, FailureMarks, FailureAt
<1> QED
  BY <1>1, <1>2, NextRuns

-----------------------------------------------------------------------------
(***************************************************************************)
(* The marks of an object follow its path.                                 *)
(***************************************************************************)
LEMMA ObjectPassStep ==
    ASSUME TypeOK, collector' = collector, Passes(Here), NEW object
    PROVE  \E marks \in ObjectPassed(Here, object, ObjectMarks(object)) :
              ObjectMarks(object)' = Freed(result', marks)
<1>1. PICK gone \in SUBSET MarkIf(Here.kind \in {"free", "freeInTime"}, Here.what) :
         /\ Here.kind = "free" => gone = {Here.what}
         /\ held' = ((held \union MarkIf(Here.kind = "hold", Here.what)) \ gone) \ Returned
  BY DEF Passes
<1>2. deferred' = deferred \union MarkIf(Here.kind = "defer", Here.what)
  BY DEF Passes
<1>3. result' \in {"ok", "error"} => deferred' = deferred
  BY <1>2, MovesOfPassing DEF Passes, MarkIf
<1> DEFINE marks == MarkIf(object \in (held \union MarkIf(Here.kind = "hold", Here.what)) \ gone, "exists")
                    \union MarkIf(object \in deferred', "freed")
<1>4. ObjectMarks(object)' = Freed(result', marks)
  BY <1>1, <1>2, <1>3 DEF ObjectMarks, Freed, Returned, MarkIf
<1>5. marks \in ObjectPassed(Here, object, ObjectMarks(object))
  <2>1. CASE Here.what # object
    BY <1>1, <1>2, <2>1 DEF ObjectMarks, ObjectPassed, MarkIf
  <2>2. CASE Here.what = object /\ Here.kind \in {"hold", "defer"}
    BY <1>1, <1>2, <2>2 DEF ObjectMarks, ObjectPassed, MarkIf
  <2>3. CASE Here.what = object /\ Here.kind \in {"free", "freeInTime"}
    BY <1>1, <1>2, <2>3 DEF ObjectMarks, ObjectPassed, MarkIf
  <2>4. CASE Here.what = object /\ Here.kind \notin {"hold", "defer", "free", "freeInTime"}
    BY <1>1, <1>2, <2>4 DEF ObjectMarks, ObjectPassed, MarkIf
  <2> QED
    BY <2>1, <2>2, <2>3, <2>4
<1> QED
  BY <1>4, <1>5

LEMMA ObjectFailStep ==
    ASSUME TypeOK, collector' = collector, Fails(Here), NEW object
    PROVE  ObjectMarks(object)' = Freed(result', ObjectMarks(object))
BY DEF Fails, ObjectMarks, Freed, Returned, MarkIf

ObjectInv(Paths) ==
    \A object \in Objects(collector) :
        Path(at, result, ObjectMarks(object)) \in Paths[collector][object]

LEMMA ObjectStep ==
    ASSUME NEW Paths, ObjectsAreFreed(Paths), ProgramsAreWellFormed, TypeInv, ObjectInv(Paths),
           [Next]_vars
    PROVE  ObjectInv(Paths)'
<1>1. CASE Next /\ result = "running"
  <2>1. collector' = collector /\ collector \in Collector /\ (Passes(Here) \/ Fails(Here))
    BY <1>1, Effects DEF TypeInv, TypeOK
  <2> SUFFICES ASSUME NEW object \in Objects(collector)
               PROVE  Path(at', result', ObjectMarks(object)') \in Paths[collector][object]
    BY <2>1 DEF ObjectInv
  <2> DEFINE p == Path(at, result, ObjectMarks(object))
             m == Move(at', result')
  <2>2. p.at = at /\ p.result = "running" /\ p.marks = ObjectMarks(object)
    BY <1>1 DEF Path
  <2>3. ObjectAfter(collector, object, p) \subseteq Paths[collector][object]
    BY <2>1, <2>2 DEF ObjectsAreFreed, ObjectInv
  <2>4. m.at = at' /\ m.result = result'
    BY DEF Move
  <2>5. CASE Passes(Here)
    <3>1. m \in Passing(Here, at)
      BY <2>5 DEF Passes
    <3>2. PICK marks \in ObjectPassed(Here, object, ObjectMarks(object)) :
             ObjectMarks(object)' = Freed(result', marks)
      BY <2>1, <2>5, ObjectPassStep DEF TypeInv
    <3> HIDE DEF m
    <3>3. Path(m.at, m.result, Freed(m.result, marks)) \in ObjectAfter(collector, object, p)
      <4>1. marks \in ObjectPassed(Here, object, p.marks) /\ m \in Passing(Here, p.at)
        BY <2>2, <3>1
      <4> HIDE DEF p
      <4> QED
        BY <2>2, <4>1 DEF ObjectAfter, Here
    <3> QED
      BY <2>1, <2>3, <2>4, <3>2, <3>3
  <2>6. CASE Fails(Here)
    <3>1. m \in Failing(Here, at)
      BY <2>6 DEF Fails
    <3> HIDE DEF m
    <3>2. Path(m.at, m.result, Freed(m.result, ObjectMarks(object)))
            \in ObjectAfter(collector, object, p)
      <4>1. ObjectMarks(object) = p.marks /\ m \in Failing(Here, p.at)
        BY <2>2, <3>1
      <4> HIDE DEF p
      <4> QED
        BY <2>2, <4>1 DEF ObjectAfter, Here
    <3> QED
      BY <2>1, <2>3, <2>4, <2>6, <3>2, ObjectFailStep DEF TypeInv
  <2> QED
    BY <2>1, <2>5, <2>6
<1>2. CASE UNCHANGED vars
  BY <1>2 DEF vars, ObjectInv, ObjectMarks
<1> QED
  BY <1>1, <1>2, NextRuns

-----------------------------------------------------------------------------
LEMMA TypeAlways == ASSUME ProgramsAreWellFormed PROVE Spec => []TypeInv
<1>1. Init => TypeInv
  BY TypeInit
<1>2. TypeInv /\ [Next]_vars => TypeInv'
  BY TypeStep
<1> QED
  BY <1>1, <1>2, PTL DEF Spec

(***************************************************************************)
(* What a collector has on disk when it returns is in its result, and what *)
(* is in its result is on disk, however many of its calls fail and however *)
(* often the disk refuses a write.                                         *)
(***************************************************************************)
THEOREM ResultsAlwaysMatchFiles ==
    ASSUME ProgramsAreWellFormed, NEW Paths, FilesAreKept(Paths)
    PROVE  Spec => []ResultsMatchFiles
<1>1. Init => FileInv(Paths)
  <2> SUFFICES ASSUME Init, NEW file \in Files(collector)
               PROVE  Path(at, result, FileMarks(file)) \in Paths[collector][file]
    BY DEF FileInv
  <2>1. FileMarks(file) = {}
    BY DEF Init, FileMarks, MarkIf
  <2> QED
    BY <2>1 DEF Init, FilesAreKept, Start
<1>2. TypeInv /\ FileInv(Paths) /\ [Next]_vars => FileInv(Paths)'
  BY FileStep
<1>3. TypeInv /\ FileInv(Paths) => ResultsMatchFiles
  <2> SUFFICES ASSUME TypeInv, FileInv(Paths), Finished
               PROVE  KeptIsReturned /\ KeysHaveFiles
    BY DEF ResultsMatchFiles, KeptIsReturned, KeysHaveFiles, TypeInv
  <2>1. ASSUME NEW file \in Files(collector)
        PROVE  /\ file \in disk =>
                    \/ file \in output \/ \E f \in failed : f[2] \in Dropping[collector]
                    \/ file \in Leftover[collector]
               /\ file \in output /\ diskOk => file \in disk \/ collector \in Keyless
    <3> DEFINE p == Path(at, result, FileMarks(file))
    <3>1. p.result # "running" /\ p.marks = FileMarks(file)
      BY DEF Path, Finished
    <3>2. FileIsSound(collector, file, p)
      BY <3>1 DEF FilesAreKept, FileInv, TypeInv, TypeOK
    <3> HIDE DEF p
    <3> QED
      BY <3>1, <3>2, FileMarksAre, Zenon DEF FileIsSound
  <2> QED
    BY <2>1 DEF TypeInv, NamesAreOfSteps, KeptIsReturned, KeysHaveFiles
<1> QED
  BY <1>1, <1>2, <1>3, TypeAlways, PTL DEF Spec

(***************************************************************************)
(* A failure of a collector that has returned is in the error it returned  *)
(* or in one of its files, or it is one of those that are only logged.     *)
(***************************************************************************)
THEOREM FailuresAreAlwaysSeen ==
    ASSUME ProgramsAreWellFormed, NEW Paths, FailuresAreTold(Paths)
    PROVE  Spec => []FailureIsSeen
<1>1. Init => FailureInv(Paths)
  <2> SUFFICES ASSUME Init, NEW n \in Failures(collector)
               PROVE  Path(at, result, FailureMarks(n)) \in Paths[collector][n]
    BY DEF FailureInv
  <2>1. FailureMarks(n) = {}
    BY DEF Init, FailureMarks, MarkIf
  <2> QED
    BY <2>1 DEF Init, FailuresAreTold, Start
<1>2. TypeInv /\ FailureInv(Paths) /\ [Next]_vars => FailureInv(Paths)'
  BY FailureStep
<1>3. TypeInv /\ FailureInv(Paths) => FailureIsSeen
  <2> SUFFICES ASSUME TypeInv, FailureInv(Paths), Finished, diskOk, result # "error",
                      NEW f \in failed \ told
               PROVE  f[2] \in Silent[collector]
    BY DEF FailureIsSeen
  <2>1. PICK n \in Failures(collector) : f = FailureAt(collector, n)
    BY DEF TypeInv, NamesAreOfSteps
  <2> DEFINE p == Path(at, result, FailureMarks(n))
  <2>2. p.result = result /\ p.marks = FailureMarks(n)
    BY DEF Path
  <2>3. FailureIsSound(collector, n, p)
    BY <2>2 DEF FailuresAreTold, FailureInv, TypeInv, TypeOK, Finished
  <2> HIDE DEF p
  <2>4. /\ "happened" \in FailureMarks(n)
        /\ "reported" \notin FailureMarks(n) /\ "refused" \notin FailureMarks(n)
    BY <2>1, Zenon DEF FailureMarks, MarkIf
  <2>5. Program[collector][n].what \in Silent[collector]
    BY <2>2, <2>3, <2>4 DEF FailureIsSound
  <2> QED
    BY <2>1, <2>5 DEF FailureAt
<1> QED
  BY <1>1, <1>2, <1>3, TypeAlways, PTL DEF Spec

(***************************************************************************)
(* An object that a collector has created or opened is gone when it has    *)
(* returned, whatever failed, but those that may be left behind.           *)
(***************************************************************************)
THEOREM NothingEverLeaks ==
    ASSUME ProgramsAreWellFormed, NEW Paths, ObjectsAreFreed(Paths)
    PROVE  Spec => []NothingLeaks
<1>1. Init => ObjectInv(Paths)
  <2> SUFFICES ASSUME Init, NEW object \in Objects(collector)
               PROVE  Path(at, result, ObjectMarks(object)) \in Paths[collector][object]
    BY DEF ObjectInv
  <2>1. ObjectMarks(object) = {}
    BY DEF Init, ObjectMarks, MarkIf
  <2> QED
    BY <2>1 DEF Init, ObjectsAreFreed, Start
<1>2. TypeInv /\ ObjectInv(Paths) /\ [Next]_vars => ObjectInv(Paths)'
  BY ObjectStep
<1>3. TypeInv /\ ObjectInv(Paths) => NothingLeaks
  <2> SUFFICES ASSUME TypeInv, ObjectInv(Paths), Finished, NEW object \in held
               PROVE  object \in Leaking[collector]
    BY DEF NothingLeaks
  <2>1. object \in Objects(collector)
    BY DEF TypeInv, NamesAreOfSteps
  <2> DEFINE p == Path(at, result, ObjectMarks(object))
  <2>2. p.result # "running" /\ p.marks = ObjectMarks(object)
    BY DEF Path, Finished
  <2>3. ObjectIsSound(collector, object, p)
    BY <2>1, <2>2 DEF ObjectsAreFreed, ObjectInv, TypeInv, TypeOK
  <2> HIDE DEF p
  <2>4. "exists" \in ObjectMarks(object)
    BY Zenon DEF ObjectMarks, MarkIf
  <2> QED
    BY <2>2, <2>3, <2>4 DEF ObjectIsSound
<1> QED
  BY <1>1, <1>2, <1>3, TypeAlways, PTL DEF Spec
=============================================================================
