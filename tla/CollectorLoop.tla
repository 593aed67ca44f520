--------------------------- MODULE CollectorLoop ---------------------------
(***************************************************************************)
(* How the collectors of a spec become a list and are run: runCollectors   *)
(* of a support bundle and CollectWithContext of a preflight, which differ *)
(* in what they do with missing permissions and with failures.             *)
(*                                                                         *)
(* A collector spec is abstracted to its type, its exclude (a boolean or a *)
(* string that is none), whether its title has a name ("run-pod/name"),    *)
(* and, for cluster resources, the namespaces ("*" for all of them).  The  *)
(* type is "unknown" if GetCollector has no collector for the spec, as for *)
(* one that sets no field, or one that only another version knows.         *)
(***************************************************************************)
EXTENDS Integers, Sequences, FiniteSets

CONSTANTS
    Namespaces,   \* those that a spec may name
    Requests      \* lists of collectors that a spec may ask for

VARIABLES
    caller,       \* "bundle" or "preflight"
    force,        \* --collect-without-permissions
    request,      \* the collectors asked for
    todo,         \* those without a permission check so far
    byType,       \* allCollectorsMap
    list,         \* allCollectors
    forbidden,    \* foundForbidden
    told,         \* events on the progress channel
    ran,          \* collectors that have run, in order
    keys,         \* names of results: allCollectedData
    memory,       \* those with their content in memory
    disk,         \* files of the bundle's directory
    pc            \* where the loop is; "ok", "denied" or "error" at its end

loopVars == <<caller, force, request, todo, byType, list, forbidden, told, ran, keys, memory, disk, pc>>

Type == {"clusterInfo", "clusterResources", "runPod", "copy", "unknown"}
Default(type) ==
    [type |-> type, exclude |-> "no", named |-> FALSE, namespaces |-> {"*"}, denied |-> FALSE]

Title(c) == <<c.type, c.named>>

\* what a spec may ask for; nothing is denied before it is checked
Collector ==
    [type : Type, exclude : {"no", "yes", "bad"}, named : BOOLEAN,
     namespaces : SUBSET Namespaces, denied : BOOLEAN]

ASSUME NamespacesAssumption == "*" \in Namespaces

ASSUME RequestsAssumption ==
    \A asked \in Requests :
        /\ asked \in Seq(Collector)
        /\ \A k \in DOMAIN asked : ~asked[k].denied

-----------------------------------------------------------------------------
\* the list of specs

EnsureCollectorInList(l, type) ==
    IF \E k \in DOMAIN l : l[k].type = type THEN l ELSE Append(l, Default(type))

\* the elements of l at some of its places, in the order they have in l
ElementsAt(l, places) ==
    LET Rank(k) == Cardinality({j \in places : j <= k})
    IN  [n \in 1..Cardinality(places) |-> l[CHOOSE k \in places : Rank(k) = n]]

\* the first of those that are the same
DedupCollectors(l) ==
    ElementsAt(l, {k \in DOMAIN l : \A j \in 1..(k - 1) : l[j] # l[k]})

PlacesOf(type, l) == {k \in DOMAIN l : l[k].type = type}

EnsureClusterResourcesFirst(l) ==
    LET first == PlacesOf("clusterResources", l)
    IN  ElementsAt(l, first) \o ElementsAt(l, DOMAIN l \ first)

\* mutant: copies stay where the specs have them
EnsureCopyAnywhere(l) == l

EnsureCopyLast(l) ==
    LET last == PlacesOf("copy", l)
    IN  ElementsAt(l, DOMAIN l \ last) \o ElementsAt(l, last)

collectSpecs(l) ==
    EnsureClusterResourcesFirst(DedupCollectors(
        EnsureCollectorInList(EnsureCollectorInList(l, "clusterInfo"), "clusterResources")))

Init ==
    /\ caller \in {"bundle", "preflight"}
    /\ force \in BOOLEAN
    /\ request \in Requests
    /\ todo = collectSpecs(request)
    /\ byType = [t \in Type |-> <<>>]
    /\ list = <<>> /\ forbidden = FALSE /\ told = {} /\ ran = <<>>
    /\ keys = {} /\ memory = {} /\ disk = {}
    /\ pc = "check"

-----------------------------------------------------------------------------
\* The permissions of the next collector are checked.  One that is excluded, or
\* whose exclude cannot be read, needs none.

Excluded(c) == c.exclude = "yes"

HasCollector(c) == c.type # "unknown"

GroupWith(c) ==
    /\ todo' = Tail(todo)
    /\ byType' = [byType EXCEPT ![c.type] = Append(@, c)]
    /\ UNCHANGED <<caller, force, request, list, forbidden, told, ran, keys, memory, disk, pc>>

\* what a collector has to be allowed: the others need nothing
AccessReviewSpecs(type) ==
    CASE type = "clusterResources" ->
            {<<"list", r>> : r \in {"namespaces", "nodes", "customresourcedefinitions",
                                    "storageclasses"}}
      [] type \in {"run", "runPod", "runDaemonSet"} -> {<<"create", "pods">>}
      [] type \in {"exec", "copy"} -> {<<"list", "pods">>, <<"get", "pods/exec">>}
      [] type = "logs" -> {<<"list", "pods">>, <<"get", "pods/log">>}
      [] type \in {"secret", "registryImages"} -> {<<"get", "secrets">>}
      [] type = "configMap" -> {<<"get", "configmaps">>}
      [] OTHER -> {}

\* a spec without a collector is passed over, and nobody is told
DropUnknown ==
    /\ pc = "check" /\ todo # <<>> /\ ~HasCollector(Head(todo))
    /\ todo' = Tail(todo)
    /\ UNCHANGED <<caller, force, request, byType, list, forbidden, told, ran, keys, memory,
                   disk, pc>>

\* GetRBACErrors has one for every review that is not allowed
CheckRBAC ==
    /\ pc = "check" /\ todo # <<>> /\ HasCollector(Head(todo))
    /\ LET c == Head(todo)
           reviews == IF c.exclude = "no" THEN AccessReviewSpecs(c.type) ELSE {}
       IN  \E denied \in {FALSE} \union {TRUE : r \in reviews} :
              GroupWith([c EXCEPT !.denied = denied])

\* a review fails, or its client cannot be made: return nil, err.  So does the
\* client that is made before the first one.
CheckFails ==
    /\ pc = "check" /\ todo # <<>>
    /\ \/ HasCollector(Head(todo)) /\ Head(todo).exclude = "no"
       \/ todo = collectSpecs(request)
    /\ pc' = "error"
    /\ UNCHANGED <<caller, force, request, todo, byType, list, forbidden, told, ran,
                   keys, memory, disk>>

-----------------------------------------------------------------------------
\* The types are visited in the order of a Go map.

\* mutant: the namespaces of the first one
MergeFirst(cs) == cs[1]

\* the first one gets the namespaces of all, and all namespaces if one has them
Merge(cs) ==
    LET namespaces == UNION {cs[k].namespaces : k \in DOMAIN cs}
    IN  [cs[1] EXCEPT !.namespaces = IF "*" \in namespaces THEN {"*"} ELSE namespaces]

Found(cs) == \E k \in DOMAIN cs : cs[k].denied

\* mutant: as in a support bundle
ForbiddenOfLast(cs) == Found(cs)

\* a support bundle forgets what it has found when it visits the next type
ForbiddenAfter(cs) == Found(cs) \/ (caller = "preflight" /\ forbidden)

VisitType ==
    /\ pc = "check" /\ todo = <<>>
    /\ \E t \in Type :
          LET cs == byType[t] IN
          /\ cs # <<>>
          /\ list' = list \o (IF t = "clusterResources" THEN <<Merge(cs)>> ELSE cs)
          /\ forbidden' = ForbiddenAfter(cs)
          /\ told' = told \union {<<"denied", Title(cs[k])>> : k \in {i \in DOMAIN cs : cs[i].denied}}
          /\ byType' = [byType EXCEPT ![t] = <<>>]
    /\ UNCHANGED <<caller, force, request, todo, ran, keys, memory, disk, pc>>

\* ErrInsufficientPermissionsToRun, or the copies are moved to the end
EndOfTypes ==
    /\ pc = "check" /\ todo = <<>> /\ \A t \in Type : byType[t] = <<>>
    /\ pc' = IF forbidden /\ ~force THEN "denied" ELSE "collect"
    /\ list' = EnsureCopyLast(list)
    /\ UNCHANGED <<caller, force, request, todo, byType, forbidden, told, ran, keys, memory, disk>>

-----------------------------------------------------------------------------
Skipped(c) == Excluded(c) \/ (c.denied /\ c.type # "clusterResources")

Skip ==
    /\ pc = "collect" /\ list # <<>> /\ Skipped(Head(list))
    /\ list' = Tail(list)
    /\ told' = IF Excluded(Head(list)) /\ caller = "preflight" THEN told
               ELSE told \union {<<"skipped", Title(Head(list))>>}
    /\ UNCHANGED <<caller, force, request, todo, byType, forbidden, ran, keys, memory, disk, pc>>

\* what a collector saves; one that asks for other namespaces saves other files
ResultOf(c) == <<"result", Title(c), c.namespaces>>
ErrorOf(c) == <<"error", Title(c)>>

CollectSucceeds ==
    /\ pc = "collect" /\ list # <<>> /\ ~Skipped(Head(list))
    /\ LET c == Head(list) IN
       /\ ran' = Append(ran, c)
       /\ keys' = keys \union {ResultOf(c)}
       /\ disk' = disk \union {ResultOf(c)}
    /\ list' = Tail(list)
    /\ UNCHANGED <<caller, force, request, todo, byType, forbidden, told, memory, pc>>

\* mutant: the error is told and not kept
SaveNoError(c) ==
    /\ keys' = keys \union {ResultOf(c)}
    /\ disk' = disk \union {ResultOf(c)}
    /\ UNCHANGED memory

\* A support bundle keeps what the collector had, and the error in a file of its
\* own.  The file is in the directory "collector-errors" unless the title has a
\* slash: then it has a directory that nobody makes, and stays in memory.
SaveError(c) ==
    /\ keys' = keys \union {ResultOf(c), ErrorOf(c)}
    /\ memory' = memory \union {ErrorOf(c)}
    /\ disk' = disk \union {ResultOf(c)} \union (IF c.named THEN {} ELSE {ErrorOf(c)})

\* a preflight forgets both; the files stay where they are
DropResult(c) == disk' = disk \union {ResultOf(c)} /\ UNCHANGED <<keys, memory>>

CollectFails ==
    /\ pc = "collect" /\ list # <<>> /\ ~Skipped(Head(list))
    /\ LET c == Head(list) IN
       /\ ran' = Append(ran, c)
       /\ told' = told \union {<<"failed", Title(c)>>}
       /\ IF caller = "bundle" THEN SaveError(c) ELSE DropResult(c)
    /\ list' = Tail(list)
    /\ UNCHANGED <<caller, force, request, todo, byType, forbidden, pc>>

LoopEnds ==
    /\ pc = "collect" /\ list = <<>>
    /\ pc' = "ok"
    /\ UNCHANGED <<caller, force, request, todo, byType, list, forbidden, told, ran,
                   keys, memory, disk>>

LoopNext ==
    \/ DropUnknown \/ CheckRBAC \/ CheckFails \/ VisitType \/ EndOfTypes
    \/ Skip \/ CollectSucceeds \/ CollectFails \/ LoopEnds
=============================================================================
