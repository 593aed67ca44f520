-------------------------- MODULE ClusterAnalyzers --------------------------
(***************************************************************************)
(* The analyzers of pkg/analyze for what was collected in a cluster, in    *)
(* the notation of AnalyzerProgram: one definition for every analyzer, and *)
(* one for every function that decides something.  Titles, messages, icons *)
(* and URIs are left out.                                                  *)
(***************************************************************************)
EXTENDS AnalyzerProgram

\* result.Strict = ...: of one result, which must be there, and of a list
OneResult(body) == Func(body, "error") \o Deref
ListOfResults(body) == Func(body, "error")

\* one verdict for what was found, another for what was not
PassOrFail == IfElse(Result("pass"), Result("fail"))

-----------------------------------------------------------------------------
\* versions, runtimes, distributions

\* an outcome without pass, warn and fail is an error
VersionRule(o, holds) == IF o.kind = "blank" THEN "error" ELSE Standard(o, holds)

parseK8sVersionString == Call("version", "error")

analyzeClusterVersionResult == Outcomes("version") \o Result("")

AnalyzeClusterVersion ==
    OneResult(Read("cluster_version.json") \o parseK8sVersionString \o analyzeClusterVersionResult)

\* the conditions are compared with the runtime of every node, if there is a node
compareRuntimeConditionalToActual(o, holds) == Lenient(o, holds)

AnalyzeContainerRuntime ==
    OneResult(Read("nodes.json") \o IfElse(Outcomes("runtime"), Outcomes("unread")) \o Result(""))

ParseNodesForProviders == <<>>            \* booleans; conditions ask for them
CheckApiResourcesForProviders == <<>>

\* a distribution nobody knows does not match; neither does tanzu, which has a
\* name (mustNormalizeDistributionName) and no case
compareDistributionConditionalToActual(o, holds) == Lenient(o, holds)

AnalyzeDistribution ==
    OneResult(Read("nodes.json") \o ParseNodesForProviders
              \o Func(Call("resources.json", "done") \o Call("api resource list", "error")
                      \o CheckApiResourcesForProviders, "error")
              \o Outcomes("distribution") \o Result("warn"))

-----------------------------------------------------------------------------
\* what there is in the cluster

AnalyzeIngress == OneResult(Read("ingress.json") \o PassOrFail)

AnalyzeStorageClass == OneResult(Read("storage-classes.json") \o PassOrFail)

\* without a pass outcome the verdict is that of all fail and warn outcomes
MissingCRD(o, holds) == IF o.kind \in {"fail", "warn"} THEN "mark" ELSE "miss"

AnalyzeCustomResourceDefinition ==
    OneResult(Read("custom-resource-definitions.json")
              \o IfElse(Result("pass"), Outcomes("missingCRD") \o Result("")))

AnalyzeImagePullSecret ==
    OneResult(FindFiles("image-pull-secrets", LAMBDA f : Call("registry secret", "error"))
              \o PassOrFail)

\* the fail outcome is dereferenced when the object or its key is not there
FoundOrNot == IfElse(NeedOutcome("fail") \o Result("fail"), Result("pass"))

AnalyzeConfigMap == OneResult(Read("configmap.json") \o FoundOrNot)
AnalyzeSecret == OneResult(Read("secret.json") \o FoundOrNot)

-----------------------------------------------------------------------------
\* the status of deployments, stateful sets, replica sets and jobs

compareActualToWhen(o, holds) == Standard(o, holds)

\* what does not exist fails, unless the outcome asks for "absent" (a holds)
Gone(o, holds) ==
    IF o.kind = "blank" THEN "miss"
    ELSE IF o.when \in {"a", "b"} /\ holds THEN "hit"
    ELSE "fail"

\* exists, and does not
commonStatus == Func(Outcomes("status") \o Result(""), "error")
commonStatusAbsent == Func(Outcomes("gone") \o Result(""), "error")

\* namespaces of the spec, or all
OfNamespaces(what, body) ==
    Each(Items, LAMBDA ns :
        FindFiles(what, LAMBDA f : Call(what, "error") \o Each(Items, LAMBDA object : body)))

analyzeOneDeploymentStatus ==
    FindFiles("deployments", LAMBDA f :
        Call("deployments", "error") \o IfElse(commonStatus, commonStatusAbsent) \o Break)

analyzeAllDeploymentStatuses == OfNamespaces("deployments", If(Result("fail")))

AnalyzeDeploymentStatus ==
    ListOfResults(IfElse(analyzeAllDeploymentStatuses, analyzeOneDeploymentStatus))

getDefaultStatefulSetResult == If(Result("fail"))

\* without outcomes, the stateful set that was not found is dereferenced
analyzeOneStatefulsetStatus ==
    FindFiles("statefulsets", LAMBDA f :
        Call("statefulsets", "error")
        \o IfElse(IfOutcomes(commonStatus \o Break) \o getDefaultStatefulSetResult,
                  IfOutcomes(commonStatusAbsent \o Break) \o Panic("no stateful set"))
        \o Break)

analyzeAllStatefulsetStatuses ==
    OfNamespaces("statefulsets", getDefaultStatefulSetResult)

AnalyzeStatefulsetStatus ==
    ListOfResults(IfElse(analyzeAllStatefulsetStatuses, analyzeOneStatefulsetStatus))

compareReplicaSetStatusToWhen(o, holds) == Standard(o, holds)

replicasetStatus == Func(Outcomes("replicaset") \o Result(""), "error")

getDefaultReplicaSetResult == If(Result("fail"))

analyzeOneReplicaSetStatus ==
    FindFiles("replicasets", LAMBDA f :
        Call("replicasets", "error")
        \o IfElse(Result("fail"),
                  IfOutcomes(replicasetStatus \o Break) \o getDefaultReplicaSetResult)
        \o Break)

analyzeAllReplicaSetStatuses ==
    Call("selector", "error")
    \o OfNamespaces("replicasets",
           OrNext(If(<<>>))
           \o IfOutcomes(replicasetStatus \o Continue)
           \o getDefaultReplicaSetResult)

AnalyzeReplicaSetStatus ==
    ListOfResults(IfElse(analyzeAllReplicaSetStatuses, analyzeOneReplicaSetStatus))

compareJobStatusToWhen(o, holds) == Standard(o, holds)

jobStatus == Func(Outcomes("job") \o Result(""), "error")

getDefaultJobResult == If(Result("fail"))

analyzeOneJobStatus ==
    FindFiles("jobs", LAMBDA f :
        Call("jobs", "error")
        \o IfElse(Result("fail"), IfOutcomes(jobStatus \o Break) \o getDefaultJobResult)
        \o Break)

analyzeAllJobStatuses == OfNamespaces("jobs", getDefaultJobResult)

AnalyzeJobStatus == ListOfResults(IfElse(analyzeAllJobStatuses, analyzeOneJobStatus))

-----------------------------------------------------------------------------
\* values in files: regular expressions, YAML, JSON, HTTP answers

\* a list has no item at the index
GetAtPath == If(Panic("index beyond the list"))

\* true or false, or what the verdict stands for
compareBool(o, holds) == Implied(o, holds)

\* the message of every outcome that is looked at is a template, not only of the
\* one that matches
boolOutcomes == IfOutcomes(If(Raise("message", "error"))) \o Outcomes("bool")

\* no outcome returns: the verdicts of all that match are set, and a fail takes
\* back a warn that came before it
regexPatternRule(o, holds) ==
    IF Implied(o, holds) # "hit" THEN Implied(o, holds)
    ELSE IF o.kind = "fail" THEN "dropWarn" ELSE "mark"

\* an operator nobody knows does not match a number
compareRegex(o, holds) == Lenient(o, holds)
compareRegexText(o, holds) == Standard(o, holds)

analyzeRegexPattern == Func(Call("regex", "error") \o Outcomes("text") \o Result(""), "error")

analyzeRegexGroups ==
    Func(Call("regex", "error") \o IfElse(Rendered("regex"), Rendered("regexText"))
         \o Result(""), "error")

analyzeTextAnalyze ==
    ListOfResults(Call("files", "error")
                  \o If(Missing("files") \o If(Result("warn")) \o Return)
                  \o If(Some(LAMBDA f : analyzeRegexPattern))
                  \o If(Some(LAMBDA f : analyzeRegexGroups))
                  \o IfVerdict("any", Return)
                  \o Result("fail"))

analyzeYamlCompare ==
    OneResult(Read("file") \o If(GetAtPath \o Call("path", "error"))
              \o Call("expected value", "error") \o boolOutcomes \o Result("fail"))

\* slices are equal if they are when sorted
deepEqualWithSlicesSorted == If(<<>>)

analyzeJsonCompare ==
    OneResult(Read("file")
              \o IfElse(If(GetAtPath \o Call("path", "error")),
                        Call("parse jsonpath", "error") \o Call("execute jsonpath", "error")
                        \o Call("decode jsonpath", "error"))
              \o Call("expected value", "error")
              \o deepEqualWithSlicesSorted
              \o boolOutcomes \o Result("fail"))

\* whatever keeps the resource from being found (an unknown kind, a file that
\* cannot be read, an object without a name) makes it one that does not exist
FindResource ==
    If(Panic("items is no list")) \o If(Missing("resource") \o Result("fail") \o Return)

analyzeValue == Func(Outcomes("bool") \o Result("fail"), "error")

\* the conditions of a warn are read from the fail of the same outcome, which is nil
WhenField(o, holds) ==
    IF o.kind = "warn" /\ o.when # "" THEN "crash" ELSE Standard(o, holds)

\* a quantity is compared with what follows a blank, if there is one
WhenFieldOfQuantity(o, holds) ==
    IF o.kind \in {"pass", "fail"} /\ o.when = "bad" THEN "crash" ELSE WhenField(o, holds)

compareWhentoResource == IfElse(Outcomes("whenField"), Outcomes("whenFieldOfQuantity"))

analyzeWhenField == Func(compareWhentoResource \o Result("fail"), "error")

analyzeResource ==
    Func(FindResource \o GetAtPath
         \o If(Missing("path") \o Result("fail") \o Return)
         \o Call("expected value", "error") \o Call("marshal", "error")
         \o IfElse(IfElse(analyzeValue, analyzeRegexPattern),
                   IfElse(analyzeRegexGroups, analyzeWhenField)), "error")

-----------------------------------------------------------------------------
\* nodes

nodeMatchesFilters == Call("filter", "error")

\* what panics in it is recovered and becomes an error: an operator or a function
\* nobody knows; but a word that is no function is the number of nodes, and a sum
\* of what nodes do not have is zero
compareNodeResourceConditionalToActual(o, holds) == Standard(o, holds)
compareNodeResourceTermToActual(o, holds) == Guessed(o, holds)

analyzeNodeResources ==
    OneResult(Read("nodes.json") \o Each(Items, LAMBDA n : nodeMatchesFilters)
              \o IfElse(Rendered("nodeResources"), Rendered("nodeResourcesTerm")) \o Result(""))

compareNodeMetricConditionalsToStats(o, holds) == Standard(o, holds)

\* also when there is no file: the conditions are compared with no node at all
AnalyzeNodeMetrics ==
    ListOfResults(FindFiles("node metrics", LAMBDA f : Call("node metrics", "error"))
                  \o Outcomes("nodeMetrics"))

\* a parameter that a node does not have is no number, and not equal to anything
evalSysctlOutcome(o, holds) == IF o.kind = "blank" THEN "crash" ELSE Standard(o, holds)
evalSysctlEqual(o, holds) == IF o.kind = "blank" THEN "crash" ELSE Lenient(o, holds)

\* without a file the error that is returned wraps nil: no error, no result
analyzeSysctl ==
    ListOfResults(Call("sysctl", "error") \o If(Missing("sysctl") \o Return)
                  \o IfElse(Outcomes("sysctl"), Outcomes("sysctlEqual")))

-----------------------------------------------------------------------------
\* databases and registries

\* a term nobody knows does not match
compareDatabaseConditionalToActual(o, holds) == Lenient(o, holds)

\* a warn looks at the condition of the pass in the same outcome, which is nil
mysqlRule(o, holds) ==
    IF o.kind = "warn" THEN "crash" ELSE compareDatabaseConditionalToActual(o, holds)

Database(rule) == OneResult(Read("connection.json") \o Outcomes(rule) \o Result(""))

analyzeMysql == Database("mysql")
analyzePostgres == Database("database")
analyzeRedis == Database("database")

compareMssqlConditionalToActual(o, holds) == Lenient(o, holds)

analyzeMssql == Database("mssql")

compareRegistryConditionalToActual(o, holds) == Standard(o, holds)

analyzeRegistry == OneResult(Read("registry.json") \o Outcomes("registry") \o Result(""))

-----------------------------------------------------------------------------
\* events, pods and containers

\* an empty condition is no truth value
analyzeEventResult(o, holds) ==
    IF o.kind # "blank" /\ o.when = "" THEN "error" ELSE Standard(o, holds)

\* an expression that does not compile finds no event; one result in any case
getEvent == Func(Call("regex", "done"), "error")

AnalyzeEvent ==
    ListOfResults(If(Raise("reason", "error")) \o Read("events") \o getEvent
                  \o Outcomes("event") \o Result(""))

\* a condition of one word is logged and left out, an operator nobody knows
\* does not match
podStatusRule(o, holds) == IF o.when \in {"odd", "bad"} THEN "miss" ELSE Standard(o, holds)

\* the events of a pod are read for the message only; the first match ends the
\* outcomes of this pod
clusterPodStatuses ==
    ListOfResults(FindFiles("pods", LAMBDA f : Call("pods", "error"))
                  \o Each(Items, LAMBDA pod :
                         If(Call("pod events", "skip"))
                         \o Func(Rendered("podStatus"), "error")))

\* all outcomes that match are listed; one without a condition ends the list,
\* and is on it if no other is
containerStatusRule(o, holds) ==
    IF Standard(o, holds) # "hit" THEN Standard(o, holds)
    ELSE IF o.when = "" THEN "last"
    ELSE "mark"

\* the status of a second container is appended to a copy that nobody keeps
getPodsMatchingFilters ==
    FindFiles("pods", LAMBDA f : Call("pods", "error"))
    \o Each(Items, LAMBDA pod : If(Missing("second container")))

AnalyzeClusterContainerStatuses ==
    ListOfResults(getPodsMatchingFilters \o Outcomes("containerStatus"))

-----------------------------------------------------------------------------
\* storage, networks, backups

\* one word is compared as it is, two are an operator and a level: of an operator
\* nobody knows there is an error, and a level nobody knows is compared
compareCephStatus(o, holds) == IF o.when = "" THEN Implied(o, holds) ELSE Standard(o, holds)
compareCephStatusWord(o, holds) ==
    IF o.when = "odd" THEN "miss" ELSE compareCephStatus(o, holds)

CephHealthCompare(o, holds) ==
    IF o.when = "odd" THEN Guessed(o, holds) ELSE compareCephStatus(o, holds)

\* without a file there is a list with nil in it; without outcomes there is one
\* for every level
cephStatus ==
    Func(Call("status.json", "error")
         \o If(Missing("status.json") \o Result("nil") \o Return)
         \o IfOutcomes(IfElse(Outcomes("ceph"), IfElse(Outcomes("cephWord"), Outcomes("cephLevel")))
                       \o Result("") \o Return)
         \o IfElse(IfElse(Result("pass"), Result("warn")), IfElse(Result("fail"), Result(""))),
         "error")

analyzeWeaveIPAMPools == If(Result("warn"))
analyzeWeavePendingAllocation == If(Result("warn"))

analyzeWeaveConnections == If(Result("warn"))

analyzeWeaveReport ==
    ListOfResults(Call("weave reports", "error") \o If(Missing("weave reports") \o Return)
                  \o Some(LAMBDA f : Call("unmarshal", "error"))
                  \o analyzeWeaveIPAMPools \o analyzeWeavePendingAllocation
                  \o analyzeWeaveConnections
                  \o IfVerdict("any", Return) \o Result("pass"))

\* a host that every pod has answered passes, also if there is no answer at all
podPingsAnalysis ==
    Each(Items, LAMBDA host :
        IfElse(If(Missing("responses")) \o Result("pass"), IfElse(Result("warn"), Result("fail"))))

AnalyzeGoldpinger == ListOfResults(Read("check-all.json") \o podPingsAnalysis)

\* every outcome may add a result; one that warns takes back what has passed
validCertificate(o, holds) ==
    CASE o.kind = "blank"                      -> "error"
      [] o.kind = "pass"                       -> "mark"
      [] o.kind = "warn" /\ o.when # "" /\ holds -> "dropPass"
      [] OTHER                                 -> "miss"

expiredCertificate(o, holds) ==
    CASE o.kind = "blank" -> "error"
      [] o.kind = "fail"  -> "mark"
      [] OTHER            -> "miss"

analyzeAnalyzeCertificatesResult ==
    Each(Items, LAMBDA chain :
        Func(IfElse(Outcomes("validCertificate"), Outcomes("expiredCertificate")), "error"))

AnalyzeCertificates ==
    ListOfResults(Read("certificates.json") \o analyzeAnalyzeCertificatesResult)

\* without an answer only "error" can hold
compareHostHTTPConditionalToActual(o, holds) == Standard(o, holds)
compareWithoutResponse(o, holds) == Lenient(o, holds)

analyzeHTTPResult ==
    Func(Read("result.json") \o IfElse(Outcomes("http"), Outcomes("httpNoResponse"))
         \o Result(""), "error")

-----------------------------------------------------------------------------
(***************************************************************************)
(* Velero and Longhorn: many directories are read first and judged then;   *)
(* here each is judged when it has been read, which makes no difference to *)
(* results that an error drops altogether.                                 *)
(***************************************************************************)
Directory(dir, none, some) ==
    Call(dir, "error")
    \o IfElse(Missing("objects") \o none, Some(LAMBDA f : Call("unmarshal", "error")) \o some)

WarnOrPass == IfElse(Result("warn"), Result("pass"))

\* one of them is ready, or none is
readyOrNot == IfElse(Result("fail"), If(Result("warn")) \o WarnOrPass)

analyzeBackupRepositories == readyOrNot
analyzeBackupStorageLocations == readyOrNot

\* also those that failed are followed by a pass
analyzeBackups == If(If(Result("fail")) \o Result("pass"))

analyzeDeleteBackupRequests == If(Result("warn"))

failedOrNot == If(PassOrFail)
analyzePodVolumeBackups == failedOrNot
analyzePodVolumeRestores == failedOrNot
analyzeRestores == failedOrNot
analyzeSchedules == failedOrNot
analyzeVolumeSnapshotLocations == failedOrNot

\* also logs with errors are followed by a pass
analyzeLogs == If(Result("warn")) \o Result("pass")

\* a fail is followed by a warning, anything else by a pass
aggregateResults == IfVerdict("fail", Result("warn") \o Return) \o IfVerdict("any", Result("pass"))

getVeleroVersion ==
    Call("velero deployment", "error") \o Call("unmarshal", "error")
    \o If(Raise("no velero container", "error")) \o If(Panic("image without a tag"))

\* the version is never below "1.10.0", which is no version to x/mod/semver: the
\* restic repositories are never read.  Requests for the server's status are
\* read and not judged, and the error of finding velero's logs is dropped.
veleroStatus ==
    ListOfResults(getVeleroVersion \o Call("semver", "error")
        \o Directory("backuprepositories", Result("fail"), analyzeBackupRepositories)
        \o Directory("backups", <<>>, analyzeBackups)
        \o Directory("backupstoragelocations", Result("fail"), analyzeBackupStorageLocations)
        \o Directory("deletebackuprequests", <<>>, analyzeDeleteBackupRequests)
        \o Directory("podvolumebackups", <<>>, analyzePodVolumeBackups)
        \o Directory("podvolumerestores", <<>>, analyzePodVolumeRestores)
        \o Directory("restores", <<>>, analyzeRestores)
        \o Directory("schedules", <<>>, analyzeSchedules)
        \o Directory("serverstatusrequests", <<>>, <<>>)
        \o Directory("volumesnapshotlocations", <<>>, analyzeVolumeSnapshotLocations)
        \o Call("node-agent logs", "error") \o If(analyzeLogs)
        \o Call("velero logs", "skip") \o If(analyzeLogs)
        \o aggregateResults)

analyzeLonghornNodeSchedulable == WarnOrPass
analyzeLonghornReplica == WarnOrPass
analyzeLonghornEngine == WarnOrPass
analyzeLonghornReplicaChecksums == WarnOrPass

\* passes are left out if there is anything else, and are one otherwise
simplifyLonghornResults == IfVerdict("warn", Drop("pass"))

longhorn ==
    ListOfResults(Directory("nodes", <<>>, analyzeLonghornNodeSchedulable)
        \o Directory("replicas", <<>>, analyzeLonghornReplica)
        \o Directory("engines", <<>>, analyzeLonghornEngine)
        \o Directory("volumes", <<>>,
               Each(Items, LAMBDA v : Call("checksums", "error")
                                     \o If(Call("checksum", "error"))
                                     \o If(analyzeLonghornReplicaChecksums)
                                     \o If(Result("warn"))))
        \o simplifyLonghornResults)

-----------------------------------------------------------------------------
ClusterAnalyzerPrograms ==
    [clusterVersion |-> AnalyzeClusterVersion, containerRuntime |-> AnalyzeContainerRuntime,
     distribution |-> AnalyzeDistribution, ingress |-> AnalyzeIngress,
     storageClass |-> AnalyzeStorageClass, crd |-> AnalyzeCustomResourceDefinition,
     imagePullSecret |-> AnalyzeImagePullSecret, configMap |-> AnalyzeConfigMap,
     secret |-> AnalyzeSecret, deploymentStatus |-> AnalyzeDeploymentStatus,
     statefulsetStatus |-> AnalyzeStatefulsetStatus,
     replicasetStatus |-> AnalyzeReplicaSetStatus, jobStatus |-> AnalyzeJobStatus,
     textAnalyze |-> analyzeTextAnalyze, yamlCompare |-> analyzeYamlCompare,
     jsonCompare |-> analyzeJsonCompare, clusterResource |-> analyzeResource,
     nodeResources |-> analyzeNodeResources, nodeMetrics |-> AnalyzeNodeMetrics,
     sysctl |-> analyzeSysctl, mysql |-> analyzeMysql, postgres |-> analyzePostgres,
     redis |-> analyzeRedis, mssql |-> analyzeMssql, registryImages |-> analyzeRegistry,
     event |-> AnalyzeEvent, clusterPodStatuses |-> clusterPodStatuses,
     clusterContainerStatuses |-> AnalyzeClusterContainerStatuses, cephStatus |-> cephStatus,
     weaveReport |-> analyzeWeaveReport, goldpinger |-> AnalyzeGoldpinger,
     certificates |-> AnalyzeCertificates, http |-> analyzeHTTPResult,
     velero |-> veleroStatus, longhorn |-> longhorn]

ClusterRules ==
    [version |-> Rule(VersionRule), runtime |-> Rule(compareRuntimeConditionalToActual),
     unread |-> Rule(Unread), distribution |-> Rule(compareDistributionConditionalToActual),
     missingCRD |-> Rule(MissingCRD), status |-> Rule(compareActualToWhen), gone |-> Rule(Gone),
     replicaset |-> Rule(compareReplicaSetStatusToWhen), job |-> Rule(compareJobStatusToWhen),
     bool |-> Rule(compareBool), text |-> Rule(regexPatternRule), regex |-> Rule(compareRegex),
     regexText |-> Rule(compareRegexText), whenField |-> Rule(WhenField),
     whenFieldOfQuantity |-> Rule(WhenFieldOfQuantity),
     nodeResources |-> Rule(compareNodeResourceConditionalToActual),
     nodeResourcesTerm |-> Rule(compareNodeResourceTermToActual),
     nodeMetrics |-> Rule(compareNodeMetricConditionalsToStats),
     sysctl |-> Rule(evalSysctlOutcome), sysctlEqual |-> Rule(evalSysctlEqual),
     database |-> Rule(compareDatabaseConditionalToActual), mysql |-> Rule(mysqlRule),
     mssql |-> Rule(compareMssqlConditionalToActual),
     registry |-> Rule(compareRegistryConditionalToActual),
     event |-> Rule(analyzeEventResult), podStatus |-> Rule(podStatusRule),
     containerStatus |-> Rule(containerStatusRule), ceph |-> Rule(compareCephStatus),
     cephWord |-> Rule(compareCephStatusWord), cephLevel |-> Rule(CephHealthCompare),
     validCertificate |-> Rule(validCertificate),
     expiredCertificate |-> Rule(expiredCertificate),
     http |-> Rule(compareHostHTTPConditionalToActual),
     httpNoResponse |-> Rule(compareWithoutResponse)]
=============================================================================
