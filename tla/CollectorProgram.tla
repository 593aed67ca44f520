-------------------------- MODULE CollectorProgram --------------------------
(***************************************************************************)
(* A notation for what a collector's Collect method does.  A program is a  *)
(* sequence of steps: calls that may fail, results that are saved, objects *)
(* that are held and freed.  What the code does with the error of a step   *)
(* is part of the step:                                                    *)
(*                                                                         *)
(*   "abort"  return nil, err: what was collected so far is dropped        *)
(*   "stop"   return output, err                                           *)
(*   "quit"   return output, nil                                           *)
(*   "note"   put the error into a result of its own, and go on            *)
(*   "noteQuit"  put it into a result and return output, nil               *)
(*   "pend"   append the error to a list that is reported later            *)
(*   "skip"   log it at most, and go on                                    *)
(*   "fail"   the function returns the error to its caller (see Func)      *)
(*   "done"   the function returns without an error                        *)
(*   "crash"  the process ends                                             *)
(*                                                                         *)
(* Names, formats and contents of the data are left out.                   *)
(***************************************************************************)
EXTENDS Integers, Sequences, SequencesExt

Instr(kind, what, onError) ==
    <<[kind |-> kind, what |-> what, onError |-> onError, over |-> 0]>>

Call(what, onError) == Instr("call", what, onError)     \* ends, well or badly
Wait(what, onError) == Instr("wait", what, onError)     \* without a deadline
Raise(what, onError) == Instr("raise", what, onError)   \* an error of the code's own
Save(file, onError) == Instr("save", file, onError)     \* output.SaveResult
Write(file, onError) == Instr("write", file, onError)   \* into a result of the callee
Keep(file) == Instr("save", file, "none")               \* what a callee has saved or has in memory
Add(file) == Instr("add", file, "none")                 \* output.AddResult
Key(file) == Instr("key", file, "none")                 \* a save that fails before it writes
Report(file, onError) == Instr("report", file, onError) \* the errors that are pending
Hold(object, onError) == Instr("hold", object, onError) \* create or open
Free(object) == Instr("free", object, "none")           \* delete or close
FreeInTime(object) == Instr("freeInTime", object, "none") \* with the context of Deadline
Deadline == Instr("deadline", "", "none")               \* calls fail once it has passed
Defer(object) == Instr("defer", object, "none")         \* free it on return
Quit == Instr("return", "", "none")                     \* return output, nil

\* the step ends the iteration it is in, or the loop, if it fails
NextItem == -1
LeaveLoop == -2
OrNext(step) == <<[step[1] EXCEPT !.over = NextItem]>>
OrBreak(step) == <<[step[1] EXCEPT !.over = LeaveLoop]>>

Break == OrBreak(Instr("goto", "", "none"))

\* a condition of the cluster, of the spec or of the data
If(body) == <<[kind |-> "if", what |-> "", onError |-> "none", over |-> Len(body)]>> \o body

\* taken if errors are pending, and only then
IfErrors(body) == <<[If(body)[1] EXCEPT !.kind = "ifErrors"]>> \o body

\* taken if the file is on disk, and only then
IfFile(file, body) == <<[If(body)[1] EXCEPT !.kind = "ifFile", !.what = file]>> \o body

IfElse(body, other) ==
    If(body \o <<[kind |-> "goto", what |-> "", onError |-> "none", over |-> Len(other)]>>)
    \o other

\* a step that ends the iteration is sent to its end
Iteration(body) ==
    [k \in DOMAIN body |-> IF body[k].over = NextItem
                           THEN [body[k] EXCEPT !.over = Len(body) - k] ELSE body[k]]

\* a step that leaves the loop is sent to the loop's end
Loop(parts) ==
    LET all == FlattenSeq(parts)
    IN  [k \in DOMAIN all |-> IF all[k].over = LeaveLoop
                              THEN [all[k] EXCEPT !.over = Len(all) - k] ELSE all[k]]

\* a loop over the items of a fixed list
All(items, Body(_)) == Loop([n \in DOMAIN items |-> Iteration(Body(items[n]))])

\* a loop over what the cluster or the spec has; there may be fewer of them
Each(items, Body(_)) ==
    Loop([n \in DOMAIN items |-> OrBreak(If(<<>>)) \o Iteration(Body(items[n]))])

(***************************************************************************)
(* A function that is called: the steps that fail in it, and its early     *)
(* returns (Return), end it, and the caller treats the error its own way.  *)
(***************************************************************************)
Return == Instr("goto", "return", "none")

Ending(body, k, onError, over) ==
    LET step == body[k] IN
    IF step.onError = "fail" THEN [step EXCEPT !.onError = onError, !.over = over]
    ELSE IF step.onError = "done" THEN [step EXCEPT !.onError = "skip", !.over = Len(body) - k]
    ELSE IF step.what = "return" THEN [step EXCEPT !.what = "", !.over = Len(body) - k]
    ELSE step

Func(body, onError) == [k \in DOMAIN body |-> Ending(body, k, onError, Len(body) - k)]

\* the same; the caller goes on with the next item of its loop, or leaves it
FuncOrNext(body, onError) == [k \in DOMAIN body |-> Ending(body, k, onError, NextItem)]
FuncOrBreak(body, onError) == [k \in DOMAIN body |-> Ending(body, k, onError, LeaveLoop)]

(***************************************************************************)
(* A collector that is called by another one: its errors are the caller's  *)
(* to treat.  The caller may leave the result alone (Unkept: the files are *)
(* on disk, and what is noted in them is not seen), or have it made in     *)
(* memory (InMemory: with an empty path of the bundle there are no files,  *)
(* and none of the open ones).                                             *)
(***************************************************************************)
Called(body) ==
    [k \in DOMAIN body |-> IF body[k].onError \in {"abort", "stop"}
                           THEN [body[k] EXCEPT !.onError = "fail"] ELSE body[k]]

Unkept(body) ==
    [k \in DOMAIN body |->
        CASE body[k].kind \in {"save", "report"} -> [body[k] EXCEPT !.kind = "write"]
          [] body[k].onError = "note"            -> [body[k] EXCEPT !.onError = "skip"]
          [] OTHER                               -> body[k]]

InMemory(body, open) ==
    [k \in DOMAIN body |-> IF body[k].kind \in {"save", "write", "add"} \/ body[k].what \in open
                           THEN If(<<>>)[1] ELSE body[k]]

Items == <<"1", "2">>
=============================================================================
