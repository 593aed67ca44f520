----------------------------- MODULE Collectors -----------------------------
(***************************************************************************)
(* One collector at work: its program (see CollectorProgram), the files it *)
(* leaves on the disk, the results and the error it returns, and the       *)
(* objects it holds in the cluster and on the host.  Calls fail, deadlines *)
(* pass and the disk refuses a write, MaxFaults times at most.             *)
(***************************************************************************)
EXTENDS Integers, Sequences, FiniteSets

CONSTANTS
    Collector,    \* names of collectors
    Program,      \* [Collector -> sequences of steps]
    MaxFaults,    \* bound: faults of a run
    Dropping,     \* [Collector -> steps]: the failure loses files that were written
    Silent,       \* [Collector -> steps]: the failure is logged at most
    Leaking,      \* [Collector -> objects]: they may be left behind
    Keyless,      \* collectors with keys that have no file
    Leftover,     \* [Collector -> files]: they are never in its result
    Endless       \* collectors that wait without a deadline

VARIABLES
    collector,    \* the one at work
    at,           \* the step it is at
    output,       \* keys of its result
    disk,         \* files it has written
    failed,       \* steps that have failed
    pending,      \* failures that wait to be reported
    told,         \* failures that are in a file or in the error returned
    held,         \* objects that exist
    deferred,     \* objects that are freed on return
    deadline,     \* "none", "running" or "passed"
    faults,       \* faults so far
    diskOk,       \* no write has failed
    result        \* "running", "ok", "error" or "crash"

vars == <<collector, at, output, disk, failed, pending, told, held, deferred,
          deadline, faults, diskOk, result>>

Init ==
    /\ collector \in Collector
    /\ at = 1
    /\ output = {} /\ disk = {}
    /\ failed = {} /\ pending = {} /\ told = {}
    /\ held = {} /\ deferred = {}
    /\ deadline = "none"
    /\ faults = 0
    /\ diskOk = TRUE
    /\ result = "running"

-----------------------------------------------------------------------------
Length == Len(Program[collector])
Step == Program[collector][at]
Running(kinds) == result = "running" /\ at <= Length /\ Step.kind \in kinds

\* return: the deferred functions run
Finish(how) == result' = how /\ held' = held \ deferred

Goto(n) == at' = n /\ UNCHANGED <<result, held>>
Fallible == Step.onError # "none"

\* nothing but the position changes
Quiet == UNCHANGED <<collector, output, disk, failed, pending, told, deferred,
                     deadline, faults, diskOk>>

CallSucceeds ==
    /\ Running({"call", "wait"})
    /\ deadline = "passed" => ~Fallible
    /\ Goto(at + 1) /\ Quiet

SaveForgetsKey ==   \* mutant of SaveSucceeds: the key is not entered
    /\ Running({"save", "write"})
    /\ disk' = disk \union {Step.what}
    /\ Goto(at + 1)
    /\ UNCHANGED <<collector, output, failed, pending, told, deferred, deadline, faults, diskOk>>

SaveSucceeds ==
    /\ Running({"save", "write"})
    /\ disk' = disk \union {Step.what}
    /\ output' = IF Step.kind = "save" THEN output \union {Step.what} ELSE output
    /\ Goto(at + 1)
    /\ UNCHANGED <<collector, failed, pending, told, deferred, deadline, faults, diskOk>>

ReportIsEmpty ==   \* mutant of ReportSucceeds: the errors are not in the file
    /\ Running({"report"})
    /\ disk' = disk \union {Step.what}
    /\ output' = output \union {Step.what}
    /\ pending' = {}
    /\ Goto(at + 1)
    /\ UNCHANGED <<collector, failed, told, deferred, deadline, faults, diskOk>>

\* the file tells of the pending errors
ReportSucceeds ==
    /\ Running({"report"})
    /\ disk' = disk \union {Step.what}
    /\ output' = output \union {Step.what}
    /\ told' = told \union pending
    /\ pending' = {}
    /\ Goto(at + 1)
    /\ UNCHANGED <<collector, failed, deferred, deadline, faults, diskOk>>

AddResult ==
    /\ Running({"add"})
    /\ output' = output \union ({Step.what} \intersect disk)
    /\ Goto(at + 1)
    /\ UNCHANGED <<collector, disk, failed, pending, told, deferred, deadline, faults, diskOk>>

HoldSucceeds ==
    /\ Running({"hold"})
    /\ deadline = "passed" => ~Fallible
    /\ held' = held \union {Step.what}
    /\ at' = at + 1
    /\ UNCHANGED result /\ Quiet

Release ==
    /\ Running({"free", "freeInTime"})
    /\ held' = IF Step.kind = "freeInTime" /\ deadline = "passed" THEN held ELSE held \ {Step.what}
    /\ at' = at + 1
    /\ UNCHANGED result /\ Quiet

DeferNothing ==   \* mutant of DeferRelease: the clean-up is not deferred
    /\ Running({"defer"})
    /\ Goto(at + 1) /\ Quiet

DeferRelease ==
    /\ Running({"defer"})
    /\ deferred' = deferred \union {Step.what}
    /\ Goto(at + 1)
    /\ UNCHANGED <<collector, output, disk, failed, pending, told, deadline, faults, diskOk>>

SetDeadline ==
    /\ Running({"deadline"})
    /\ deadline' = "running"
    /\ Goto(at + 1)
    /\ UNCHANGED <<collector, output, disk, failed, pending, told, deferred, faults, diskOk>>

Branch ==
    /\ Running({"if"})
    /\ \E n \in {at + 1, at + 1 + Step.over} : Goto(n)
    /\ Quiet

BranchOnErrors ==
    /\ Running({"ifErrors"})
    /\ Goto(IF pending = {} THEN at + 1 + Step.over ELSE at + 1)
    /\ Quiet

BranchOnFile ==
    /\ Running({"ifFile"})
    /\ Goto(IF Step.what \in disk THEN at + 1 ELSE at + 1 + Step.over)
    /\ Quiet

\* SaveResult enters the key before it makes the directory of the file
EnterKey ==
    /\ Running({"key"})
    /\ output' = output \union {Step.what}
    /\ Goto(at + 1)
    /\ UNCHANGED <<collector, disk, failed, pending, told, deferred, deadline, faults, diskOk>>

Jump ==
    /\ Running({"goto"})
    /\ Goto(at + 1 + Step.over)
    /\ Quiet

ReturnOutput ==
    /\ \/ Running({"return"})
       \/ result = "running" /\ at > Length
    /\ Finish("ok")
    /\ UNCHANGED at /\ Quiet

-----------------------------------------------------------------------------
(***************************************************************************)
(* A step fails, and the code goes on the way the step says.  A write that *)
(* fails has entered the key of the result all the same (SaveResult).      *)
(* Deadlines pass while a call is out.                                     *)
(***************************************************************************)
Failure == <<at, Step.what>>
Returning == {"abort", "stop"}

Fail ==
    /\ Running({"call", "wait", "raise", "save", "write", "report", "hold"})
    /\ Fallible
    /\ \/ /\ deadline = "passed" /\ Step.kind \in {"call", "hold"}
          /\ UNCHANGED <<faults, deadline>>
       \/ /\ Step.kind = "raise"
          /\ UNCHANGED <<faults, deadline>>
       \/ /\ faults < MaxFaults
          /\ deadline = "passed" => Step.kind \notin {"call", "hold"}
          /\ Step.kind # "raise"
          /\ faults' = faults + 1
          /\ \/ UNCHANGED deadline
             \/ deadline = "running" /\ Step.kind \in {"call", "hold"} /\ deadline' = "passed"
    /\ failed' = failed \union {Failure}
    /\ diskOk' = (diskOk /\ Step.kind \notin {"save", "write", "report"})
    /\ output' = IF Step.onError = "abort" THEN {}
                 ELSE IF Step.kind \in {"save", "report"} THEN output \union {Step.what}
                 ELSE output
    /\ told' = CASE Step.onError \in Returning \union {"note", "noteQuit"} -> told \union {Failure}
                 [] OTHER -> told
    /\ pending' = IF Step.onError = "pend" THEN pending \union {Failure} ELSE pending
    /\ CASE Step.onError \in Returning           -> Finish("error") /\ UNCHANGED at
         [] Step.onError \in {"quit", "noteQuit"} -> Finish("ok") /\ UNCHANGED at
         [] Step.onError = "crash"               -> result' = "crash" /\ UNCHANGED <<at, held>>
         [] OTHER                                -> Goto(at + 1 + Step.over)
    /\ UNCHANGED <<collector, disk, deferred>>

Ended == result # "running" /\ UNCHANGED vars

Next ==
    \/ CallSucceeds \/ SaveSucceeds \/ ReportSucceeds \/ AddResult
    \/ HoldSucceeds \/ Release \/ DeferRelease \/ SetDeadline
    \/ Branch \/ BranchOnErrors \/ BranchOnFile \/ EnterKey
    \/ Jump \/ ReturnOutput
    \/ Fail \/ Ended

(***************************************************************************)
(* Every step is taken in the end but one that waits without a deadline:   *)
(* for a stream of a container, for the phase of a pod.                    *)
(***************************************************************************)
Bounded == result = "running" /\ (at <= Length => Step.kind # "wait")

Spec == Init /\ [][Next]_vars /\ WF_vars(Next /\ Bounded)

-----------------------------------------------------------------------------
TypeOK ==
    /\ collector \in Collector
    /\ at \in 1..(Length + 1)
    /\ result \in {"running", "ok", "error", "crash"}
    /\ deadline \in {"none", "running", "passed"}
    /\ faults \in 0..MaxFaults
    /\ diskOk \in BOOLEAN
    /\ pending \subseteq failed /\ told \subseteq failed

Finished == result # "running"

(***************************************************************************)
(* What a collector has written is part of what it returns, also when it   *)
(* returns an error: files that are not in the result are neither redacted *)
(* nor archived.  The failures of Dropping make the code return nil, or    *)
(* lose what a function has saved before it failed; the files of Leftover  *)
(* are those of a callee that are copied and stay behind.                  *)
(***************************************************************************)
KeptIsReturned ==
    Finished => \/ disk \ Leftover[collector] \subseteq output
                \/ \E f \in failed : f[2] \in Dropping[collector]

(***************************************************************************)
(* While the disk takes every write, every key of a result has its file: a *)
(* key without a file fails the redaction and the archive of the whole     *)
(* bundle.                                                                 *)
(***************************************************************************)
KeysHaveFiles == Finished /\ diskOk => output \subseteq disk \/ collector \in Keyless

(***************************************************************************)
(* The results of a collector and its files on disk are the same when it   *)
(* returns (CollectorResult, which the redaction and the archive go by).   *)
(***************************************************************************)
ResultsMatchFiles == TypeOK /\ KeptIsReturned /\ KeysHaveFiles

(***************************************************************************)
(* An error that a collector meets is returned or is in one of its files:  *)
(* a bundle does not pass a part that could not be read for one that was   *)
(* empty.  The failures of Silent are the ones that are only logged.       *)
(***************************************************************************)
FailureIsSeen ==
    Finished /\ diskOk =>
        result = "error" \/ \A f \in failed \ told : f[2] \in Silent[collector]

(***************************************************************************)
(* Whatever fails, the objects that a collector has created are deleted    *)
(* and what it has opened is closed when it returns.                       *)
(***************************************************************************)
NothingLeaks == Finished => held \subseteq Leaking[collector]

(***************************************************************************)
(* A collector returns, unless it waits for a pod or for the end of a      *)
(* stream without a deadline.                                              *)
(***************************************************************************)
Returns == <>(Finished \/ collector \in Endless)
=============================================================================
