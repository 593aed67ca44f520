--------------------------- MODULE CollectorPaths ---------------------------
(***************************************************************************)
(* The paths of a collector as one file, one failure or one object sees    *)
(* them: where the collector is, what it returns, and marks for that one   *)
(* thing.  They leave out how many calls have failed and what became of    *)
(* everything else, so that they are finitely many for any number of       *)
(* faults: a set of paths that is closed under the steps and ends well is  *)
(* a certificate that every run of the collector ends well.                *)
(***************************************************************************)
EXTENDS Collectors

CanFail == {"call", "wait", "raise", "save", "write", "report", "hold"}
Saving == {"save", "write", "report"}

\* behind the last step the function returns
LastStep == [kind |-> "return", what |-> "", onError |-> "none", over |-> 0]
StepAt(c, n) == IF n <= Len(Program[c]) THEN Program[c][n] ELSE LastStep

Path(n, how, marks) == [at |-> n, result |-> how, marks |-> marks]
Start == Path(1, "running", {})
Move(n, how) == [at |-> n, result |-> how]

\* where a step leads that does not fail, and one that fails
Passing(step, n) ==
    CASE step.kind \in {"if", "ifErrors", "ifFile"} ->
              {Move(n + 1, "running"), Move(n + 1 + step.over, "running")}
      [] step.kind = "goto"   -> {Move(n + 1 + step.over, "running")}
      [] step.kind = "return" -> {Move(n, "ok")}
      [] step.kind = "raise"  -> {}
      [] OTHER                -> {Move(n + 1, "running")}

Failing(step, n) ==
    IF step.kind \notin CanFail \/ step.onError = "none" THEN {}
    ELSE CASE step.onError \in Returning            -> {Move(n, "error")}
           [] step.onError \in {"quit", "noteQuit"} -> {Move(n, "ok")}
           [] step.onError = "crash"                -> {Move(n, "crash")}
           [] OTHER                                 -> {Move(n + 1 + step.over, "running")}

MarkIf(condition, mark) == IF condition THEN {mark} ELSE {}

-----------------------------------------------------------------------------
(***************************************************************************)
(* A file is on disk, it is in the result returned; files may have been    *)
(* dropped, and the disk may have refused a write.                         *)
(***************************************************************************)
Files(c) ==
    {Program[c][n].what :
        n \in {m \in 1..Len(Program[c]) : Program[c][m].kind \in Saving \union {"add", "key"}}}

FilePassed(step, file, marks) ==
    marks \union
      (IF step.what # file THEN {}
       ELSE MarkIf(step.kind \in Saving, "onDisk")
            \union MarkIf(\/ step.kind \in {"save", "report", "key"}
                          \/ step.kind = "add" /\ "onDisk" \in marks, "returned"))

FileFailed(c, step, file, marks) ==
    (IF step.onError = "abort" THEN marks \ {"returned"}
     ELSE marks \union MarkIf(step.what = file /\ step.kind \in {"save", "report"}, "returned"))
    \union MarkIf(step.what \in Dropping[c], "dropped")
    \union MarkIf(step.kind \in Saving, "refused")

FileAfter(c, file, p) ==
    LET step == StepAt(c, p.at)
    IN  {Path(m.at, m.result, FilePassed(step, file, p.marks)) : m \in Passing(step, p.at)}
        \union
        {Path(m.at, m.result, FileFailed(c, step, file, p.marks)) : m \in Failing(step, p.at)}

FileMarks(file) ==
    MarkIf(file \in disk, "onDisk") \union MarkIf(file \in output, "returned")
    \union MarkIf(\E f \in failed : f[2] \in Dropping[collector], "dropped")
    \union MarkIf(~diskOk, "refused")

FileIsSound(c, file, p) ==
    /\ "onDisk" \in p.marks =>
          "returned" \in p.marks \/ "dropped" \in p.marks \/ file \in Leftover[c]
    /\ "returned" \in p.marks /\ "refused" \notin p.marks => "onDisk" \in p.marks \/ c \in Keyless

-----------------------------------------------------------------------------
(***************************************************************************)
(* A failure has happened, it waits to be reported, it is reported.  While *)
(* it waits the errors are not empty, so that the code does not pass by.   *)
(***************************************************************************)
Failures(c) == {n \in 1..Len(Program[c]) : Program[c][n].onError # "none"}

FailurePassed(step, marks) ==
    IF step.kind = "report" /\ "waiting" \in marks THEN (marks \ {"waiting"}) \union {"reported"}
    ELSE marks

FailureFailed(step, itself, marks) ==
    marks \union MarkIf(step.kind \in Saving, "refused")
    \union (IF itself THEN {"happened"} \union MarkIf(step.onError = "pend", "waiting")
                           \union MarkIf(step.onError \in Returning \union {"note", "noteQuit"}, "reported")
            ELSE {})

FailureAfter(c, n, p) ==
    LET step == StepAt(c, p.at)
        reported == step.kind = "ifErrors" /\ "waiting" \in p.marks
    IN  {Path(m.at, m.result, FailurePassed(step, p.marks)) :
            m \in {x \in Passing(step, p.at) : reported => x.at = p.at + 1}}
        \union
        {Path(m.at, m.result, FailureFailed(step, p.at = n, p.marks)) : m \in Failing(step, p.at)}

FailureAt(c, n) == <<n, Program[c][n].what>>
FailureMarks(n) ==
    LET f == FailureAt(collector, n)
    IN  MarkIf(f \in failed, "happened") \union MarkIf(f \in pending, "waiting")
        \union MarkIf(f \in told, "reported") \union MarkIf(~diskOk, "refused")

FailureIsSound(c, n, p) ==
    "happened" \in p.marks /\ "reported" \notin p.marks /\ "refused" \notin p.marks =>
        p.result = "error" \/ Program[c][n].what \in Silent[c]

-----------------------------------------------------------------------------
(***************************************************************************)
(* An object exists, it is freed on return.  A clean-up with a context that *)
(* has expired leaves it.                                                  *)
(***************************************************************************)
Objects(c) ==
    {Program[c][n].what : n \in {m \in 1..Len(Program[c]) : Program[c][m].kind = "hold"}}

ObjectPassed(step, object, marks) ==
    IF step.what # object THEN {marks}
    ELSE CASE step.kind = "hold"       -> {marks \union {"exists"}}
           [] step.kind = "defer"      -> {marks \union {"freed"}}
           [] step.kind = "free"       -> {marks \ {"exists"}}
           [] step.kind = "freeInTime" -> {marks, marks \ {"exists"}}
           [] OTHER                    -> {marks}

Freed(how, marks) ==
    IF how \in {"ok", "error"} /\ "freed" \in marks THEN marks \ {"exists"} ELSE marks

ObjectAfter(c, object, p) ==
    LET step == StepAt(c, p.at)
    IN  (UNION {{Path(m.at, m.result, Freed(m.result, marks)) : m \in Passing(step, p.at)} :
                marks \in ObjectPassed(step, object, p.marks)})
        \union
        {Path(m.at, m.result, Freed(m.result, p.marks)) : m \in Failing(step, p.at)}

ObjectMarks(object) ==
    MarkIf(object \in held, "exists") \union MarkIf(object \in deferred, "freed")

ObjectIsSound(c, object, p) == "exists" \in p.marks => object \in Leaking[c]

-----------------------------------------------------------------------------
(***************************************************************************)
(* The hypotheses of the theorems.  Jumps lead to steps of the program or  *)
(* behind the last one; the paths are closed, and those that have ended    *)
(* have ended well.                                                        *)
(***************************************************************************)
ProgramsAreWellFormed ==
    /\ MaxFaults \in Nat
    /\ \A c \in Collector :
         /\ Len(Program[c]) \in Nat
         /\ \A n \in 1..Len(Program[c]) : n + 1 + Program[c][n].over \in 1..(Len(Program[c]) + 1)

FilesAreKept(Paths) ==
    \A c \in Collector : \A file \in Files(c) :
        /\ Start \in Paths[c][file]
        /\ \A p \in Paths[c][file] :
             IF p.result = "running" THEN FileAfter(c, file, p) \subseteq Paths[c][file]
             ELSE FileIsSound(c, file, p)

FailuresAreTold(Paths) ==
    \A c \in Collector : \A n \in Failures(c) :
        /\ Start \in Paths[c][n]
        /\ \A p \in Paths[c][n] :
             IF p.result = "running" THEN FailureAfter(c, n, p) \subseteq Paths[c][n]
             ELSE FailureIsSound(c, n, p)

ObjectsAreFreed(Paths) ==
    \A c \in Collector : \A object \in Objects(c) :
        /\ Start \in Paths[c][object]
        /\ \A p \in Paths[c][object] :
             IF p.result = "running" THEN ObjectAfter(c, object, p) \subseteq Paths[c][object]
             ELSE ObjectIsSound(c, object, p)
=============================================================================
