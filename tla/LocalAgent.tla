---------------------------- MODULE LocalAgent ----------------------------
(***************************************************************************)
(* The analyzers of pkg/analyze/agents/local, in the notation of           *)
(* AnalyzerProgram.  There is one program for every type of an analyzer:   *)
(* runAnalyzer looks the type up, and the name of the analyzer chooses one *)
(* of the functions of the type.  They decide themselves: only those that  *)
(* delegate ask the outcomes of a spec, in the analyzer they delegate to.  *)
(***************************************************************************)
EXTENDS AnalyzerProgram

Switch(cases, default) == FoldRight(IfElse, cases, default)

\* no function has the name of the analyzer
NotImplemented == Missing("analyzer") \o Result("warn")

\* a check that was announced: it passes, and reads nothing
Unchecked(what) == Missing(what) \o Result("pass")

\* the file is looked up, parsed and its items are taken
Parsed(file, body) ==
    Switch(<<Missing(file) \o Result("warn"), Missing(file) \o Result("fail"),
             Missing(file) \o Result("warn")>>, body)

\* the configuration of the analyzer: there is none, or it is of another type
Configured == Call("configuration", "error")

Verdict == Switch(<<Result("pass"), Result("warn"), Result("fail")>>, Result(""))

-----------------------------------------------------------------------------
\* Delegation to the analyzers of pkg/analyze: one that does not suit the name
\* is not passed on (configureTraditionalAnalyzer, mapAnalyzerToField), and
\* gives no results.

configureTraditionalAnalyzer(analyze) ==
    IfElse(analyze, Missing("configuration") \o Result("warn"))

mapAnalyzerToField(analyze) == configureTraditionalAnalyzer(analyze)

\* an error is a result that fails, no result one that warns; only the first
\* of several results is passed on
DelegatedResult ==
    Switch(<<Missing("files") \o Result("fail"), Missing("results") \o Result("warn")>>, Verdict)

delegateToTraditionalAnalyzer(configured) == Call("configuration", "error") \o configured

ByType == delegateToTraditionalAnalyzer(configureTraditionalAnalyzer(DelegatedResult))
ByField == delegateToTraditionalAnalyzer(mapAnalyzerToField(DelegatedResult))

\* what is shown of the cluster has no influence on the verdict
analyzeClusterVersionContextual == ByType
analyzeDistributionContextual == ByField
analyzeNodeResourcesContextual == ByType

-----------------------------------------------------------------------------
\* workloads

\* pods without a status are counted, and are neither failed nor pending
analyzePodStatus ==
    Func(Configured
         \o Parsed("pods",
                Some(LAMBDA pod : IfElse(Missing("pod status"), If(Result("fail"))))
                \o IfVerdict("fail", Return)
                \o IfElse(Result("warn"), Result("pass"))), "error")

\* without a configuration of its own there is nothing to delegate
analyzeDeploymentStatus ==
    Func(IfElse(Configured \o Missing("configuration") \o Result("warn"),
                Parsed("deployments",
                    Some(LAMBDA d : IfElse(Missing("deployment"), If(Result("fail"))))
                    \o IfVerdict("fail", Return) \o Result("pass"))), "error")

analyzeStatefulsetStatus == Unchecked("statefulsets")
analyzeJobStatus == Unchecked("jobs")
analyzeReplicasetStatus == Unchecked("replicasets")
analyzeClusterPodStatuses == Unchecked("pod statuses")
analyzeClusterContainerStatuses == Unchecked("container statuses")

analyzeWorkload ==
    Switch(<<analyzePodStatus, analyzeDeploymentStatus, analyzeStatefulsetStatus,
             analyzeJobStatus, analyzeReplicasetStatus, analyzeClusterPodStatuses,
             analyzeClusterContainerStatuses>>, NotImplemented)

-----------------------------------------------------------------------------
\* the cluster, its network and its storage

analyzeNodeMetricsEnhanced == Unchecked("node metrics")
analyzeEventsEnhanced == Unchecked("events")

analyzeCluster ==
    Switch(<<analyzeClusterVersionContextual, ByField, analyzeDistributionContextual,
             analyzeNodeResourcesContextual, analyzeNodeMetricsEnhanced, analyzeEventsEnhanced>>,
           NotImplemented)

\* not among the functions a name chooses
analyzeNodeResources ==
    Func(Configured
         \o Parsed("nodes",
                Some(LAMBDA node : IfElse(Missing("node"), If(Result("fail"))))
                \o IfVerdict("fail", Return) \o Result("pass")), "error")

analyzeNetwork == Switch(<<ByField, ByField>>, NotImplemented)

analyzeCephStatusEnhanced == Unchecked("ceph status")
analyzeLonghornEnhanced == Unchecked("longhorn")
analyzeVeleroEnhanced == Unchecked("velero")

analyzeStorage ==
    Switch(<<analyzeCephStatusEnhanced, analyzeLonghornEnhanced, analyzeVeleroEnhanced>>,
           NotImplemented)

analyzeResources == NotImplemented
analyzeCustom == NotImplemented

-----------------------------------------------------------------------------
\* logs and data

\* more than ten lines with errors fail, more than twenty with warnings warn
analyzeLogs ==
    Configured
    \o Switch(<<Missing("log") \o Result("warn"), Result("fail"), Result("warn")>>, Result("pass"))

\* a fatal line fails as well, and any error warns
analyzeLogsEnhanced == Configured \o Switch(
    <<Missing("log") \o Result("warn"), Result("fail"), Result("warn")>>, Result("pass"))

analyzeYamlCompare == Unchecked("yaml")
analyzeJsonCompare == Unchecked("json")

analyzeData ==
    Switch(<<analyzeLogsEnhanced, analyzeYamlCompare, analyzeJsonCompare>>, NotImplemented)

-----------------------------------------------------------------------------
\* configuration

\* the object is searched for by name; its key is not missed if it has no data
Searched(file) ==
    Configured
    \o Parsed(file,
           Each(Items, LAMBDA item : If(Missing("item")))
           \o IfElse(Result("fail"),
                     Switch(<<Missing("data") \o Result("pass"), Result("warn")>>, Result("pass"))))

analyzeSecretEnhanced == Searched("secrets")
analyzeConfigMapEnhanced == Searched("configmaps")
analyzeImagePullSecretEnhanced == Unchecked("image pull secrets")
analyzeStorageClassEnhanced == Parsed("storage classes", IfElse(Result("pass"), Result("warn")))
analyzeCRDEnhanced == Unchecked("crds")
analyzeClusterResourceEnhanced == Unchecked("cluster resource")

analyzeConfiguration ==
    Switch(<<analyzeSecretEnhanced, analyzeConfigMapEnhanced, analyzeImagePullSecretEnhanced,
             analyzeStorageClassEnhanced, analyzeCRDEnhanced, analyzeClusterResourceEnhanced>>,
           NotImplemented)

-----------------------------------------------------------------------------
\* databases

\* without its numbers a pool is not full: 0/0 is not more than 0.9
analyzePostgresEnhanced ==
    Configured
    \o Switch(<<Missing("connection") \o Result("warn"), Missing("connection") \o Result("fail"),
                Result("fail"), Result("warn"), Missing("connections") \o Result("pass")>>,
              Result("pass"))

\* without requests the ratio is 0, which is low
analyzeRedisEnhanced ==
    Configured
    \o Switch(<<Missing("connection") \o Result("warn"), Missing("connection") \o Result("fail"),
                Result("fail"), Missing("requests") \o Result("warn"), Result("warn")>>,
              Result("pass"))

analyzeMySQLEnhanced == Unchecked("mysql")
analyzeMSSQLEnhanced == Unchecked("mssql")

analyzeDatabase ==
    Switch(<<analyzePostgresEnhanced, analyzeMySQLEnhanced, analyzeMSSQLEnhanced,
             analyzeRedisEnhanced>>, NotImplemented)

-----------------------------------------------------------------------------
\* infrastructure

analyzeRegistryImagesEnhanced == Unchecked("registry images")
analyzeWeaveReportEnhanced == Unchecked("weave report")
analyzeGoldpingerEnhanced == Unchecked("goldpinger")
analyzeSysctlEnhanced == Unchecked("sysctl")

analyzeCertificatesEnhanced ==
    Func(Parsed("certificates",
             Each(Items, LAMBDA cert : IfElse(Missing("certificate"), If(Result("fail"))))
             \o IfVerdict("fail", Return)
             \o IfElse(Result("warn"), Result("pass"))), "error")

analyzeInfrastructure ==
    Switch(<<analyzeRegistryImagesEnhanced, analyzeWeaveReportEnhanced, analyzeGoldpingerEnhanced,
             analyzeSysctlEnhanced, analyzeCertificatesEnhanced, analyzeEventsEnhanced>>,
           NotImplemented)

-----------------------------------------------------------------------------
\* a plugin that supports the type is asked instead; it may return nothing
Plugin == Call("plugin", "error") \o If(Verdict)

runAnalyzer ==
    [localPlugin |-> Plugin,
     localWorkload |-> analyzeWorkload, localCluster |-> analyzeCluster,
     localNetwork |-> analyzeNetwork, localStorage |-> analyzeStorage,
     localResources |-> analyzeResources, localCustom |-> analyzeCustom,
     localLogs |-> analyzeLogs, localData |-> analyzeData,
     localConfiguration |-> analyzeConfiguration, localDatabase |-> analyzeDatabase,
     localInfrastructure |-> analyzeInfrastructure,
     localUnknown |-> Raise("unsupported analyzer type", "error")]

LocalAgentPrograms == [localNodes |-> analyzeNodeResources] @@ runAnalyzer
=============================================================================
