---------------------------- MODULE CollectorRun ----------------------------
(***************************************************************************)
(* What follows the collectors of the cluster.  A support bundle redacts   *)
(* their results (Bundle has the details); a preflight runs the collectors *)
(* of the host and those on remote nodes and analyzes what is on disk.     *)
(* Both then archive every result that has a name.                         *)
(***************************************************************************)
EXTENDS CollectorLoop

VARIABLES
    redact,       \* --redact, of a bundle; known when it is first looked at
    others,       \* specs of a preflight that have not been looked at: "host", "remote"
    remote,       \* it has remote collectors
    verdicts,     \* of the results of the analyzers, a set for each
    exit          \* "" until the end; then the exit code, or "bundle"

vars == <<caller, force, request, todo, byType, list, forbidden, told, ran, keys, memory, disk,
          pc, redact, others, remote, verdicts, exit>>

\* Each of the verdicts is a flag of its own: a result may have several, or none if no
\* outcome of its analyzer has matched.  Bound: two results are enough for the order
\* they come in to matter.
Verdict == SUBSET {"pass", "warn", "fail"}

RunInit ==
    /\ Init
    /\ redact = FALSE
    /\ others = {"host", "remote"} /\ remote = FALSE
    /\ verdicts = {}
    /\ exit = ""

Loop == LoopNext /\ UNCHANGED <<redact, others, remote, verdicts, exit>>

\* a preflight ends with the error; a bundle goes on to what else it has, here nothing
LoopFailed ==
    /\ pc \in {"error", "denied"}
    /\ pc' = "ended"
    /\ exit' = "catchAll"
    /\ UNCHANGED <<caller, force, request, todo, byType, list, forbidden, told, ran, keys, memory,
                   disk, redact, others, remote, verdicts>>

-----------------------------------------------------------------------------
\* The support bundle.

\* mutant: what is in memory stays there
RedactedInMemory == disk

\* what is in memory is redacted and written, and its directory made
Redacted == disk \union memory

RedactResult ==
    /\ pc = "ok" /\ caller = "bundle"
    /\ pc' = "archive"
    /\ redact' \in BOOLEAN
    /\ disk' = IF redact' THEN Redacted ELSE disk
    /\ UNCHANGED <<caller, force, request, todo, byType, list, forbidden, told, ran, keys, memory,
                   others, remote, verdicts, exit>>

-----------------------------------------------------------------------------
\* The preflight.

\* there are no such collectors in the specs
NoOthers ==
    /\ pc = "ok" /\ caller = "preflight"
    /\ \E o \in others : others' = others \ {o}
    /\ UNCHANGED <<caller, force, request, todo, byType, list, forbidden, told, ran, keys, memory,
                   disk, pc, redact, remote, verdicts, exit>>

\* results are kept, also those of a collector that fails
CollectHost ==
    /\ pc = "ok" /\ caller = "preflight" /\ "host" \in others
    /\ others' = others \ {"host"}
    /\ keys' = keys \union {<<"host">>} /\ disk' = disk \union {<<"host">>}
    /\ told' \in {told, told \union {<<"failed", <<"host", FALSE>>>>}}
    /\ UNCHANGED <<caller, force, request, todo, byType, list, forbidden, ran, memory,
                   pc, redact, remote, verdicts, exit>>

\* results of remote collectors, and their errors, are never written: they are not
\* told where the bundle is
CollectRemote ==
    /\ pc = "ok" /\ caller = "preflight" /\ others = {"remote"}
    /\ others' = {} /\ remote' = TRUE
    /\ \E fails \in BOOLEAN :
          /\ keys' = keys \union {<<IF fails THEN "remote error" ELSE "node">>}
          /\ memory' = memory \union {<<IF fails THEN "remote error" ELSE "node">>}
          /\ told' = IF fails THEN told \union {<<"failed", <<"remote", FALSE>>>>} ELSE told
    /\ UNCHANGED <<caller, force, request, todo, byType, list, forbidden, ran, disk,
                   pc, redact, verdicts, exit>>

\* AnalyzeLocal, and the version and the analysis are saved
AnalyzeLocal ==
    /\ pc = "ok" /\ caller = "preflight" /\ others = {}
    /\ verdicts' \in {vs \in SUBSET Verdict : Cardinality(vs) <= 2}
    /\ keys' = keys \union {<<"version">>, <<"analysis">>}
    /\ disk' = disk \union {<<"version">>, <<"analysis">>}
    /\ pc' = "archive"
    /\ UNCHANGED <<caller, force, request, todo, byType, list, forbidden, told, ran, memory,
                   redact, others, remote, exit>>

AnalyzeLocalFails ==
    /\ pc = "ok" /\ caller = "preflight" /\ others = {}
    /\ pc' = "ended" /\ exit' = "catchAll"
    /\ UNCHANGED <<caller, force, request, todo, byType, list, forbidden, told, ran, keys, memory,
                   disk, redact, others, remote, verdicts>>

-----------------------------------------------------------------------------
\* ArchiveBundle: a name without a file ends it with an error

\* a warning is looked at first, and a result without a verdict not at all
Fails(v) == "fail" \in v /\ "warn" \notin v

\* mutant: the warnings come last
ExitCodeWarnLast(vs) ==
    IF vs = {} THEN "catchAll"
    ELSE IF \E v \in vs : "warn" \in v THEN "warn"
    ELSE IF \E v \in vs : Fails(v) THEN "fail"
    ELSE "pass"

\* the first result that has failed and not warned ends the loop
checkOutcomesToExitCode(vs) ==
    IF vs = {} THEN "catchAll"
    ELSE IF \E v \in vs : Fails(v) THEN "fail"
    ELSE IF \E v \in vs : "warn" \in v THEN "warn"
    ELSE "pass"

ArchiveBundle ==
    /\ pc = "archive"
    /\ pc' = "ended"
    /\ exit' = IF ~(keys \subseteq disk) THEN "catchAll"
               ELSE IF caller = "bundle" THEN "bundle"
               ELSE checkOutcomesToExitCode(verdicts)
    /\ UNCHANGED <<caller, force, request, todo, byType, list, forbidden, told, ran, keys, memory,
                   disk, redact, others, remote, verdicts>>

Ended == pc = "ended" /\ UNCHANGED vars

Next ==
    \/ Loop \/ LoopFailed \/ RedactResult \/ NoOthers \/ CollectHost \/ CollectRemote
    \/ AnalyzeLocal \/ AnalyzeLocalFails \/ ArchiveBundle \/ Ended

Spec == RunInit /\ [][Next]_vars

-----------------------------------------------------------------------------
TypeOK ==
    /\ caller \in {"bundle", "preflight"} /\ request \in Requests
    /\ \A t \in Type : \A k \in DOMAIN byType[t] : byType[t][k].type = t
    /\ memory \subseteq keys
    /\ exit \in {"", "bundle", "pass", "warn", "fail", "catchAll"}
    /\ pc \in {"check", "collect", "ok", "denied", "error", "archive", "ended"}

(***************************************************************************)
(* EnsureCopyLast: a copy collector, which copies what others have left,   *)
(* never runs before one of another type.                                  *)
(***************************************************************************)
CopiesRunLast ==
    \A j, k \in DOMAIN ran : j < k /\ ran[j].type = "copy" => ran[k].type = "copy"

(***************************************************************************)
(* Nothing that was asked for is left out without a word: when the loop    *)
(* ends, a collector that is not excluded has run, with its namespaces, or *)
(* an event tells that it may not.  Two kinds of specs are not answered:   *)
(* one that GetCollector does not know is passed over without an event,    *)
(* and cluster resources are merged into the first one of them, whose      *)
(* exclude is that of all.                                                 *)
(***************************************************************************)
Covers(c, d) == c.type = d.type /\ (c.namespaces \subseteq d.namespaces \/ "*" \in d.namespaces)

LedByExcluded(c) ==
    /\ c.type = "clusterResources"
    /\ \E k \in DOMAIN request : request[k].type = "clusterResources" /\ Excluded(request[k])

RequestsAreAnswered ==
    pc \in {"ok", "archive"} =>
        \A k \in DOMAIN request :
            \/ Excluded(request[k])
            \/ \E j \in DOMAIN ran : Covers(request[k], ran[j])
            \/ <<"denied", Title(request[k])>> \in told
            \/ LedByExcluded(request[k])
            \/ ~HasCollector(request[k])

(***************************************************************************)
(* Without --collect-without-permissions a preflight does not collect      *)
(* anything when a permission is missing.  A support bundle does, unless   *)
(* the type visited last misses it (collect.go:136).                       *)
(***************************************************************************)
MissingPermissionsStop ==
    caller = "preflight" /\ ~force /\ (\E e \in told : e[1] = "denied") => ran = <<>>

(***************************************************************************)
(* A collector of a support bundle that fails leaves its error in the      *)
(* bundle, whatever runs after it.                                         *)
(***************************************************************************)
ErrorsAreKept ==
    caller = "bundle" =>
        \A e \in told : e[1] = "failed" => <<"error", e[2]>> \in keys

(***************************************************************************)
(* Every collector that was asked for, of a type the program has, has its  *)
(* result, its error or its refusal on record (runCollectors,              *)
(* CollectWithContext).                                                    *)
(***************************************************************************)
NothingIsUnanswered == TypeOK /\ RequestsAreAnswered /\ ErrorsAreKept

(***************************************************************************)
(* Every name that is archived has a file, without which there is no       *)
(* archive at all.  It has none if a bundle is not redacted and a          *)
(* collector with a name has failed, or a preflight has remote collectors. *)
(***************************************************************************)
NamesHaveFiles ==
    pc = "archive" =>
        \/ keys \subseteq disk
        \/ caller = "bundle" /\ ~redact /\ \E e \in told : e[1] = "failed" /\ e[2][2]
        \/ remote

(***************************************************************************)
(* What a preflight's exit code rules out (checkOutcomesToExitCode): with  *)
(* 0 no result has failed or warned, with the code of a warning no result  *)
(* has failed without a warning of its own, whichever comes first.  It is  *)
(* no more than that: a result that has failed and warned counts as a      *)
(* warning, one without a verdict counts as passed, and an analyzer that   *)
(* ended with an error has no result.                                      *)
(***************************************************************************)
ExitCodeTells ==
    /\ exit = "pass" => \A v \in verdicts : v \subseteq {"pass"}
    /\ exit = "warn" => \A v \in verdicts : "fail" \in v => "warn" \in v

(***************************************************************************)
(* A preflight stops when it may not collect, and its exit code does not   *)
(* hide a result that has failed or warned.                                *)
(***************************************************************************)
PreflightIsStrict == MissingPermissionsStop /\ ExitCodeTells

-----------------------------------------------------------------------------
(***************************************************************************)
(* run.go:267, "If all checks passed: 0".  A check without a verdict, when *)
(* no outcome of its analyzer has matched, has not passed, and the code is *)
(* 0 all the same.                                                         *)
(***************************************************************************)
ZeroMeansAllPassed ==
    exit = "pass" => \A v \in verdicts : "pass" \in v

(***************************************************************************)
(* collector.go:253, "collect ClusterResources earliest in the list so the *)
(* pod list does not include pods started by collectors".  The list is in  *)
(* that order until it becomes a map of types.                             *)
(***************************************************************************)
ClusterResourcesFirst ==
    \A j, k \in DOMAIN ran :
        j < k /\ ran[k].type = "clusterResources" => ran[j].type = "clusterResources"

(***************************************************************************)
(* result.go:85, "AddResult combines another results object into this      *)
(* collector result. This ensures when archiving a bundle from the result, *)
(* all files are included."  The results of remote collectors have no      *)
(* files, and the archive is not made.                                     *)
(***************************************************************************)
AddedResultsAreArchived ==
    caller = "preflight" /\ pc = "archive" => keys \subseteq disk
=============================================================================
