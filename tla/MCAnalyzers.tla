---------------------------- MODULE MCAnalyzers ----------------------------
(* All analyzers, each with every spec of at most MaxOutcomes outcomes.    *)
EXTENDS HostAnalyzers, AnalyzerPaths

Agent == INSTANCE Agents

Programs == ClusterAnalyzerPrograms @@ HostAnalyzerPrograms @@ Agent!AgentPrograms
Rules == ClusterRules @@ HostRules

Table(r) == [a \in DOMAIN Programs |-> IF a \in DOMAIN r THEN r[a] ELSE {}]

\* rules that do not take the first match
KnownIgnoring ==
    {"containerStatus", "defaultFail", "defaultPass", "expiredCertificate", "firstFail",
     "firstPass", "gone", "kernelModules", "kernelModulesStatus", "missingCRD", "text",
     "unread", "validCertificate"}

\* rules that take a condition they cannot read for one that does not hold, or
\* for another one
KnownForgiving ==
    {"cephLevel", "cephWord", "database", "defaultFail", "defaultPass", "distribution",
     "expiredCertificate", "firstFail", "firstPass", "gone", "hostCpuFeatures",
     "hostOs", "hostServicesState", "hostStatus", "httpNoResponse",
     "kernelModulesStatus", "missingCRD", "mssql", "mysql", "nodeResourcesTerm",
     "podStatus", "regex", "runtime", "sysctlEqual", "unread", "validCertificate"}

\* analyzers of hosts that do not parse the content for an outcome without a condition
Unparsed ==
    {"hostCpu", "hostMemory", "hostOs", "hostDiskUsage", "hostBlockDevices", "hostServices",
     "hostSysctl", "hostTime", "hostIpv4Interfaces", "hostTcpLoadBalancer",
     "hostHttpLoadBalancer", "hostTcpPortStatus", "hostUdpPortStatus", "hostTcpConnect",
     "hostSubnetAvailable", "hostCertificate", "hostHttp"}

\* what the local agent reports as healthy and does not read
KnownUnchecked ==
    [localWorkload |-> {"pod status", "deployment", "statefulsets", "jobs", "replicasets",
                        "pod statuses", "container statuses"},
     localCluster |-> {"events", "node metrics"}, localNodes |-> {"node"},
     localStorage |-> {"ceph status", "longhorn", "velero"}, localData |-> {"json", "yaml"},
     localConfiguration |-> {"data", "item", "image pull secrets", "crds", "cluster resource"},
     localDatabase |-> {"connections", "mysql", "mssql"},
     localInfrastructure |-> {"certificate", "events", "goldpinger", "registry images", "sysctl",
                              "weave report"}]

\* what the agents report on although something is missing: the model is shown
\* another file, or a part of it; an agent that fails is listed beside the results
KnownUnseen ==
    [a \in DOMAIN Agent!Place |->
        {Agent!Place[a][n] : n \in DOMAIN Agent!Place[a]} \union {"rest of the data"}] @@
    [ollamaAggregated |-> {"pods", "phase", "deployments", "events", "events beyond the limit",
                           "rest of the data"},
     engine |-> {"agent", "analyzer"}]

\* what may be lost although an analyzer passes
KnownTrusting ==
    [a \in Unparsed |-> {"content"}] @@
    [clusterContainerStatuses |-> {"pods", "second container"},
     clusterPodStatuses |-> {"pods", "pod events"}, distribution |-> {"resources.json"},
     event |-> {"regex"}, goldpinger |-> {"responses"},
     hostFilesystemPerformance |-> {"contents"}, imagePullSecret |-> {"image-pull-secrets"},
     longhorn |-> {"objects"}, nodeMetrics |-> {"node metrics"},
     replicasetStatus |-> {"replicasets"}, velero |-> {"objects", "velero logs"}] @@ KnownUnchecked @@ KnownUnseen

\* analyzers that may return no result: nothing was collected, or there is nothing
KnownUndecided ==
    Unparsed \union
    {"certificates", "clusterPodStatuses", "deploymentStatus", "goldpinger",
     "hostFilesystemPerformance", "hostKernelConfigs", "hostNetworkNamespaceConnectivity",
     "hostSystemPackages", "hostTextAnalyze", "jobStatus", "longhorn", "replicasetStatus",
     "localPlugin", "statefulsetStatus", "sysctl", "textAnalyze", "weaveReport", "hosted",
     "engine"}

\* analyzers that may mark no verdict, or two
KnownUnclear ==
    {"cephStatus", "crd", "localCluster", "localNetwork", "localPlugin", "hosted", "engine"}

\* steps that may dereference nil
KnownPanicking ==
    [clusterResource |-> {"index beyond the list", "items is no list", "whenField", "whenFieldOfQuantity"},
     yamlCompare |-> {"index beyond the list"}, jsonCompare |-> {"index beyond the list"},
     hostJsonCompare |-> {"index beyond the list"},
     configMap |-> {"fail"}, secret |-> {"fail"},
     hostSystemPackages |-> {"no first character"}, mysql |-> {"mysql"},
     statefulsetStatus |-> {"no stateful set"}, sysctl |-> {"sysctl", "sysctlEqual"},
     velero |-> {"image without a tag"}, hosted |-> {"null result"},
     engine |-> {"null result"}]

KnownAnalyzers == DOMAIN Programs
TrustingTable == Table(KnownTrusting)
PanickingTable == Table(KnownPanicking)

\* the constants of Analyzers; TLC has evaluated what they are names of
MCAnalyzer == KnownAnalyzers
MCProgram == Programs
MCRuleOf == Rules
MCSpecOutcome == Outcome
MCIgnoring == KnownIgnoring
MCForgiving == KnownForgiving
MCTrusting == TrustingTable
MCUndecided == KnownUndecided
MCUnclear == KnownUnclear
MCPanicking == PanickingTable

\* every jump of a program leads to a step, every rule it names is there, and
\* rules return verdicts
ASSUME ProgramsAssumption == ProgramsAreWellFormed

\* what each rule does with a single outcome, but for the tables above; that the
\* order of a spec of any length is kept follows (AnalyzersProofs)
ASSUME RulesAssumption == RulesAreInOrder

\* all paths of each program, from its beginning
RECURSIVE Reach(_, _, _)
Reach(a, seen, fresh) ==
    IF fresh = {} THEN seen
    ELSE LET found == UNION {After(a, p) : p \in {q \in fresh : q.at <= Len(Programs[a])}} \ seen
         IN  Reach(a, seen \union found, found)

KnownPaths == [a \in KnownAnalyzers |-> Reach(a, {Start}, {Start})]

\* the paths are all paths, and each of them ends, or may crash, where the tables
\* above say; that this is so with a spec of any length follows (AnalyzersProofs)
ASSUME PathsAssumption == PathsAreClosed(KnownPaths) /\ PathsAreSound(KnownPaths)
=============================================================================
