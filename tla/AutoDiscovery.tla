--------------------------- MODULE AutoDiscovery ---------------------------
(***************************************************************************)
(* support-bundle --auto: the collectors that are added to a bundle.       *)
(* Namespaces are resolved from the flags, collectors are generated for    *)
(* them and for KOTS applications, those the user may not run are filtered *)
(* out, and the rest is merged with the collectors of the spec             *)
(* (cmd/troubleshoot/cli/auto_discovery.go, pkg/collect/autodiscovery).    *)
(*                                                                         *)
(* A pattern of the flags is the set of namespaces that match it.  Every   *)
(* collector is checked by a goroutine of its own; a semaphore bounds how  *)
(* many ask the API at a time, and they share a cache of the answers.  It  *)
(* outlives a discovery, and permissions do not change during one.         *)
(***************************************************************************)
EXTENDS Integers, FiniteSets

CONSTANTS
    Namespace,      \* namespaces of the cluster
    System,         \* those isSystemNamespace knows
    NamespacedType, \* types generated for every namespace
    KotsNamespace,  \* bound: those that may have a KOTS application
    KotsPart,       \* parts of a KOTS application that may be found
    Standard,       \* bound: those of the collectors every cluster gets for KOTS
    YamlType,       \* types of the spec's collectors
    MaxChecks,      \* slots of the semaphore
    MaxFaults       \* bound: requests that fail, deadlines that pass

CollectorSpec(type, ns, source, name) ==
    [type |-> type, ns |-> ns, source |-> source, name |-> name]

generateKurlConfigMapCollectors ==
    {CollectorSpec("configmaps", "kurl", "kots", name) :
        name \in {"kurl-current-config", "kurl-last-config"}}
generateStandardReplicatedSecretCollector ==
    CollectorSpec("secrets", "", "kots", "replicated-registry")
generateKotsHostPreflightCollector == CollectorSpec("data", "", "kots", "host-preflights")

GenerateStandardKotsCollectors ==
    generateKurlConfigMapCollectors
    \union {generateStandardReplicatedSecretCollector, generateKotsHostPreflightCollector}

ASSUME ConstantsAssumption ==
    /\ Standard \subseteq GenerateStandardKotsCollectors
    /\ System \subseteq Namespace /\ KotsNamespace \subseteq Namespace
    /\ NamespacedType \subseteq {"logs", "configmaps", "secrets"}
    /\ KotsPart \subseteq {"deployment", "service", "secrets", "configmaps"}
    /\ MaxChecks \in Nat \ {0} /\ MaxFaults \in Nat

ASSUME NamesAssumption == "" \notin Namespace /\ NamespacedType # {}

VARIABLES
    phase,      \* what ApplyAutoDiscovery is at
    flags,      \* what the user asks for
    asked,      \* the namespaces that selects
    blind,      \* namespaces could not be listed
    requested,  \* DiscoveryOptions.Namespaces
    namespaces, \* the target namespaces
    generated,  \* foundationalCollectors
    waiting,    \* collectors whose check waits for the semaphore
    checking,   \* those whose review is under way
    cache,      \* resources whose review was answered: [granted, refused]
    allowed,    \* allowedResources
    late,       \* the deadline of the discovery has passed
    kept,       \* collectors that are left
    reported,   \* the ones RBACReporter knows as filtered
    yaml,       \* collectors of the spec
    result,     \* Spec.Collectors of the bundle in the end
    faults

vars == <<phase, flags, asked, blind, requested, namespaces, generated, waiting, checking, cache,
          allowed, late, kept, reported, yaml, result, faults>>

scanVars == <<flags, asked, requested>>
checkVars == <<waiting, checking, cache, allowed>>
endVars == <<kept, reported, yaml, result>>

-----------------------------------------------------------------------------
\* the flags

\* -n may come with patterns, which are then not looked at
Patterns == [given : BOOLEAN, matches : SUBSET Namespace]
Flags ==
    {f \in [namespace : Namespace \union {""}, include : Patterns, exclude : Patterns,
            system : BOOLEAN] :
        \A p \in {f.include, f.exclude} : p.given \/ p.matches = {}}

Forgotten == CHOOSE f \in Flags : ~f.include.given /\ ~f.exclude.given /\ f.namespace = "" /\ ~f.system

HasPatterns(f) == f.include.given \/ f.exclude.given

\* The flags as their help has them: -n is the scope; what is excluded is not discovered,
\* and only what is included, if there are such patterns.  System namespaces need a flag
\* of their own, which the code looks at only together with patterns.
Selected(f) ==
    {n \in Namespace :
        IF f.namespace # "" THEN n = f.namespace
        ELSE /\ n \notin f.exclude.matches
             /\ f.include.given => n \in f.include.matches
             /\ n \in System /\ HasPatterns(f) => f.system}

Init ==
    /\ phase = "scan"
    /\ flags \in Flags /\ asked = Selected(flags)
    /\ blind = FALSE /\ late = FALSE /\ faults = 0
    /\ requested = {} /\ namespaces = {} /\ generated = {}
    /\ waiting = {} /\ checking = {} /\ allowed = {}
    /\ cache = [granted |-> {}, refused |-> {}]
    /\ kept = {} /\ reported = {} /\ yaml = {} /\ result = {}

-----------------------------------------------------------------------------
\* namespaces

\* mutant: the flag for the namespaces of the system is not looked at
includesSystem(n) ==
    /\ n \notin flags.exclude.matches
    /\ flags.include.given => n \in flags.include.matches

shouldIncludeNamespace(n) ==
    /\ flags.system \/ n \notin System
    /\ n \notin flags.exclude.matches
    /\ flags.include.given => n \in flags.include.matches

Filtered == flags.namespace = "" /\ HasPatterns(flags)

\* a namespace of the command line is taken as it is
ScanNamespaces ==
    /\ phase = "scan"
    /\ requested' = CASE flags.namespace # "" -> {flags.namespace}
                      [] Filtered -> {n \in Namespace : shouldIncludeNamespace(n)}
                      [] OTHER -> {}
    /\ flags' = Forgotten /\ phase' = "targets"
    /\ UNCHANGED <<asked, blind, namespaces, generated, late, faults, checkVars, endVars>>

\* they cannot be listed: "using all accessible namespaces"
ScanFails ==
    /\ phase = "scan" /\ Filtered /\ faults < MaxFaults
    /\ faults' = faults + 1 /\ blind' = TRUE
    /\ flags' = Forgotten /\ requested' = {} /\ phase' = "targets"
    /\ UNCHANGED <<asked, namespaces, generated, late, checkVars, endVars>>

\* an empty list of namespaces means all of them
getTargetNamespaces ==
    /\ phase = "targets"
    /\ \/ /\ requested # {} \/ ~late
          /\ namespaces' = IF requested # {} THEN requested ELSE Namespace
          /\ UNCHANGED <<blind, faults>>
       \/ /\ requested = {} /\ (late \/ faults < MaxFaults)
          /\ namespaces' = {"default"}
          /\ blind' = TRUE /\ faults' = IF late THEN faults ELSE faults + 1
    /\ phase' = "generate"
    /\ UNCHANGED <<scanVars, generated, late, checkVars, endVars>>

-----------------------------------------------------------------------------
\* collectors

generateClusterInfoCollectors ==
    {CollectorSpec(t, "", "foundational", t) : t \in {"clusterInfo", "clusterResources"}}

generateNamespacedCollectors(n, types) ==
    {CollectorSpec(t, n, "foundational", t) : t \in types}

generateKotsadmDeploymentCollector(n) == CollectorSpec("clusterResources", n, "kots", "deployment")
generateKotsadmLogsCollector(n) == CollectorSpec("logs", n, "kots", "logs")
generateReplicatedSecretCollector(n) == CollectorSpec("secrets", n, "kots", "secrets")
generateKotsConfigMapCollector(n) == CollectorSpec("configmaps", n, "kots", "configmaps")
generateKotsDirectoryCollector(n) == CollectorSpec("data", n, "kots", "directory")

\* an application was found: there are logs and a description of it in any case
GenerateKotsCollectors(n, parts) ==
    {generateKotsadmLogsCollector(n), generateKotsDirectoryCollector(n)}
    \union {generateKotsadmDeploymentCollector(n) : p \in parts \cap {"deployment"}}
    \union {generateReplicatedSecretCollector(n) : p \in parts \cap {"secrets"}}
    \union {generateKotsConfigMapCollector(n) : p \in parts \cap {"configmaps"}}

\* all namespaces are searched, not only the target namespaces
\* (default, kots and kotsadm if they cannot be listed)
DetectKotsApplications == [KotsNamespace -> SUBSET KotsPart]

generateFoundationalCollectors ==
    /\ phase = "generate"
    /\ \E found \in DetectKotsApplications, images \in SUBSET {"imageFacts"} :
          generated' =
            generateClusterInfoCollectors
            \union (UNION {GenerateKotsCollectors(n, found[n]) :
                             n \in {m \in KotsNamespace : found[m] # {}}})
            \union Standard
            \union (UNION {generateNamespacedCollectors(n, NamespacedType \union images) :
                             n \in namespaces})
    /\ phase' \in {"check", "unchecked"}
    /\ UNCHANGED <<scanVars, blind, namespaces, late, faults, checkVars, endVars>>

-----------------------------------------------------------------------------
\* permissions

Checked == {"logs", "configmaps", "secrets", "clusterInfo", "clusterResources"}

collectorToResource(c) ==
    CASE c.type = "logs"       -> <<"Pod", c.ns>>
      [] c.type = "configmaps" -> <<"ConfigMap", c.ns>>
      [] c.type = "secrets"    -> <<"Secret", c.ns>>
      [] OTHER                 -> <<"Node", "">>

ToCheck == {c \in generated : c.type \in Checked}

FilterByPermissions ==
    /\ phase = "check"
    /\ waiting' = ToCheck /\ phase' = "checking"
    /\ UNCHANGED <<scanVars, blind, namespaces, generated, checking, cache, allowed, late, faults,
                   endVars>>

\* the two results of the cache are mixed up: it was found, so it is allowed
CheckPermissionFound(c) ==
    /\ phase = "checking" /\ c \in waiting /\ Cardinality(checking) < MaxChecks
    /\ waiting' = waiting \ {c}
    /\ IF collectorToResource(c) \in cache.granted \union cache.refused
       THEN allowed' = allowed \union {collectorToResource(c)} /\ UNCHANGED checking
       ELSE checking' = checking \union {c} /\ UNCHANGED allowed
    /\ UNCHANGED <<phase, scanVars, blind, namespaces, generated, cache, late, faults, endVars>>

\* the semaphore is taken; an answer of the cache ends the check at once
CheckPermission(c) ==
    /\ phase = "checking" /\ c \in waiting /\ Cardinality(checking) < MaxChecks
    /\ waiting' = waiting \ {c}
    /\ LET r == collectorToResource(c) IN
       CASE r \in cache.granted -> allowed' = allowed \union {r} /\ UNCHANGED checking
         [] r \in cache.refused -> UNCHANGED <<allowed, checking>>
         [] OTHER               -> checking' = checking \union {c} /\ UNCHANGED allowed
    /\ UNCHANGED <<phase, scanVars, blind, namespaces, generated, cache, late, faults, endVars>>

\* SelfSubjectAccessReview; a review that fails allows the resource
ReviewAnswers(c) ==
    /\ phase = "checking" /\ c \in checking /\ ~late
    /\ checking' = checking \ {c}
    /\ LET r == collectorToResource(c) IN
       \/ /\ r \notin cache.refused
          /\ cache' = [cache EXCEPT !.granted = @ \union {r}]
          /\ allowed' = allowed \union {r}
       \/ /\ r \notin cache.granted
          /\ cache' = [cache EXCEPT !.refused = @ \union {r}]
          /\ UNCHANGED allowed
    /\ UNCHANGED <<phase, scanVars, blind, namespaces, generated, waiting, late, faults, endVars>>

\* an error is taken for a refusal
ReviewFailsClosed(c) ==
    /\ phase = "checking" /\ c \in checking /\ (late \/ faults < MaxFaults)
    /\ checking' = checking \ {c}
    /\ faults' = IF late THEN faults ELSE faults + 1
    /\ UNCHANGED <<phase, scanVars, blind, namespaces, generated, waiting, cache, allowed, late, endVars>>

\* the slot of the semaphore is not given back
ReviewFailsHeld(c) ==
    /\ phase = "checking" /\ c \in checking /\ (late \/ faults < MaxFaults)
    /\ allowed' = allowed \union {collectorToResource(c)}
    /\ faults' = IF late THEN faults ELSE faults + 1
    /\ UNCHANGED <<phase, scanVars, blind, namespaces, generated, waiting, checking, cache, late, endVars>>

ReviewFails(c) ==
    /\ phase = "checking" /\ c \in checking /\ (late \/ faults < MaxFaults)
    /\ checking' = checking \ {c}
    /\ allowed' = allowed \union {collectorToResource(c)}
    /\ faults' = IF late THEN faults ELSE faults + 1
    /\ UNCHANGED <<phase, scanVars, blind, namespaces, generated, waiting, cache, late, endVars>>

DeadlinePasses ==
    /\ phase \in {"targets", "generate", "check", "checking"} /\ ~late /\ faults < MaxFaults
    /\ late' = TRUE /\ faults' = faults + 1
    /\ UNCHANGED <<phase, scanVars, blind, namespaces, generated, checkVars, endVars>>

\* wg.Wait; what is not allowed is reported and left out
applyRBACFiltering ==
    /\ phase = "checking" /\ waiting = {} /\ checking = {}
    /\ reported' = {c \in ToCheck : collectorToResource(c) \notin allowed}
    /\ kept' = generated \ reported'
    /\ phase' = "merge"
    /\ UNCHANGED <<scanVars, blind, namespaces, generated, checkVars, late, faults, yaml, result>>

SkipFiltering ==
    /\ phase = "unchecked"
    /\ kept' = generated /\ phase' = "merge"
    /\ UNCHANGED <<scanVars, blind, namespaces, generated, checkVars, late, faults, reported, yaml,
                   result>>

-----------------------------------------------------------------------------
\* the collectors of the spec

convertToCollectorSpecs(types) == {CollectorSpec(t, "", "yaml", t) : t \in types}

\* the case of the logs is missing
ToTroubleshootCollectLess(specs) == {c \in specs : c.type \notin {"other", "logs"}}

\* a collector of another type comes back as an empty one, which is no collector
ToTroubleshootCollect(specs) == {c \in specs : c.type # "other"}

\* the names of the two kinds of collectors are never the same
mergeAndDeduplicateCollectors ==
    /\ phase = "merge"
    /\ \E types \in SUBSET YamlType : yaml' = convertToCollectorSpecs(types)
    /\ result' = ToTroubleshootCollect(kept \union yaml')
    /\ phase' = "done"
    /\ UNCHANGED <<scanVars, blind, namespaces, generated, checkVars, late, faults, kept, reported>>

Done == phase = "done" /\ UNCHANGED vars

Check(c) == CheckPermission(c) \/ ReviewAnswers(c) \/ ReviewFails(c)

Next ==
    \/ ScanNamespaces \/ ScanFails \/ getTargetNamespaces \/ generateFoundationalCollectors
    \/ FilterByPermissions \/ DeadlinePasses
    \/ \E c \in waiting \union checking : Check(c)
    \/ applyRBACFiltering \/ SkipFiltering \/ mergeAndDeduplicateCollectors
    \/ Done

\* requests end, if only because the deadline has passed
Progress ==
    \/ ScanNamespaces \/ getTargetNamespaces \/ generateFoundationalCollectors
    \/ FilterByPermissions \/ (\E c \in waiting \union checking : Check(c))
    \/ applyRBACFiltering \/ SkipFiltering \/ mergeAndDeduplicateCollectors

Spec == Init /\ [][Next]_vars /\ WF_vars(Progress)

-----------------------------------------------------------------------------
Resource == {"Pod", "ConfigMap", "Secret", "Node"} \X (Namespace \union {"", "kurl", "default"})

TypeOK ==
    /\ phase \in {"scan", "targets", "generate", "check", "unchecked", "checking", "merge", "done"}
    /\ flags \in Flags
    /\ asked \subseteq Namespace /\ requested \subseteq Namespace
    /\ namespaces \subseteq Namespace \union {"default"}
    /\ allowed \subseteq Resource /\ (cache.granted \union cache.refused) \subseteq Resource
    /\ waiting \subseteq ToCheck /\ checking \subseteq ToCheck \ waiting
    /\ Cardinality(checking) <= MaxChecks

(***************************************************************************)
(* A collector is left out only if a review has refused its resource, and  *)
(* then the user is told: a check that fails, or the order in which the    *)
(* goroutines meet the cache, does not cost a collector.                   *)
(***************************************************************************)
OnlyRefusedAreLeftOut ==
    phase = "done" =>
        /\ generated \ kept = reported
        /\ \A c \in reported : collectorToResource(c) \in cache.refused

(***************************************************************************)
(* A collector whose resource was refused, by a review that was answered,  *)
(* is only run because another review of it has failed.                    *)
(***************************************************************************)
RefusedAreNotRun ==
    phase = "done" /\ faults = 0 =>
        \A c \in kept : c.type \in Checked => collectorToResource(c) \notin cache.refused

(***************************************************************************)
(* The answers of the permission reviews, and nothing else, decide which   *)
(* collectors are left out (FilterByPermissions, applyRBACFiltering).      *)
(***************************************************************************)
PermissionsDecide == TypeOK /\ OnlyRefusedAreLeftOut /\ RefusedAreNotRun

(***************************************************************************)
(* The namespaces that are discovered are the ones the flags select,       *)
(* neither more nor fewer, after ApplyAutoDiscovery has resolved the       *)
(* patterns and getTargetNamespaces has seen the list.  Two cases are      *)
(* different: flags that leave no namespace select all of them, and        *)
(* namespaces that cannot be listed are not filtered.                      *)
(***************************************************************************)
Discovered == {c.ns : c \in {d \in generated : d.source = "foundational" /\ d.ns # ""}}

FlagsDecideNamespaces ==
    ~blind /\ generated # {} => Discovered = IF asked = {} THEN Namespace ELSE asked

(***************************************************************************)
(* The collectors of the spec whose type discovery knows are collected,    *)
(* together with everything that was discovered and is permitted.          *)
(***************************************************************************)
KnownCollectorsAreMerged ==
    phase = "done" => {c \in yaml : c.type \in Checked} \union kept \subseteq result

(***************************************************************************)
(* Discovery ends.                                                         *)
(***************************************************************************)
DiscoveryEnds == <>(phase = "done")

(***************************************************************************)
(* What the code says of itself: "augments existing YAML collectors with   *)
(* foundational collectors".  No collector of the spec is lost.            *)
(***************************************************************************)
YamlCollectorsAreKept == phase = "done" => yaml \subseteq result

(***************************************************************************)
(* root.go:152, the help of --include-namespaces: "If specified, only      *)
(* these namespaces will be included".  Patterns that match nothing leave  *)
(* an empty list, which means all namespaces.                              *)
(***************************************************************************)
OnlyIncludedNamespaces ==
    flags.include.given /\ flags.namespace = "" => [](blind \/ namespaces \subseteq asked)

(***************************************************************************)
(* auto_discovery.go:291, the warning when both are given: "Include        *)
(* patterns take precedence".  The scanner looks at the exclude patterns   *)
(* first.                                                                  *)
(***************************************************************************)
IncludeTakesPrecedence ==
    [][phase = "scan" /\ flags.namespace = "" /\ ~blind' =>
          flags.include.matches \ (IF flags.system THEN {} ELSE System) \subseteq requested']_vars

(***************************************************************************)
(* root.go:153, --include-system-namespaces, false unless it is given:     *)
(* "include system namespaces (kube-system, etc.) in auto-discovery".      *)
(* Without patterns they are always in.                                    *)
(***************************************************************************)
SystemNeedsItsFlag ==
    ~flags.system /\ flags.namespace = "" => [](blind \/ namespaces \cap System = {})
=============================================================================
