------------------------- MODULE ClusterCollectors -------------------------
(***************************************************************************)
(* The collectors of pkg/collect that talk to the API server, to pods and  *)
(* to services of the cluster, as programs (see CollectorProgram): one     *)
(* definition for every function of the code, with its name.               *)
(***************************************************************************)
EXTENDS CollectorProgram

-----------------------------------------------------------------------------
\* pods and logs

listPodsInSelectors(onError) == Call("list pods", onError)

\* only the first of several pods is used
getExecOutputs(stream) == Call("scheme", "pend") \o Call("executor", "pend") \o stream

execWithoutTimeout(stream) ==
    Call("client", "fail") \o listPodsInSelectors("note")
    \o If(getExecOutputs(stream) \o If(Save("stdout", "skip")) \o If(Save("stderr", "skip"))
          \o IfErrors(Report("errors.json", "skip")))

(***************************************************************************)
(* Without a timeout the stream ends when the command does.  With one, the *)
(* answer may be late: what it has saved is not in the results then.       *)
(***************************************************************************)
execWithTimeout ==
    Call("parse timeout", "fail") \o execWithoutTimeout(Call("stream", "pend"))
    \o Call("answer in time", "fail")

CollectExec == Func(IfElse(execWithoutTimeout(Wait("stream", "pend")), execWithTimeout), "abort")

(***************************************************************************)
(* The log is on disk when copying it, or the previous log, fails, and is  *)
(* not in what the function returns then.  That there is no previous log   *)
(* is not an error.  The file of the log is closed twice, the file of the  *)
(* previous log never.                                                     *)
(***************************************************************************)
savePodLogs(log) ==
    Call("stream", "fail") \o Write(log, "fail") \o Call("copy", "fail")
    \o If(Return) \o Write(log \o "-previous", "fail") \o Hold("previous log", "none")
    \o Call("copy previous", "fail") \o Add(log \o "-previous")

\* the same for all containers of a pod and for the ones the spec names
LogsOfContainer(log) == FuncOrNext(savePodLogs(log), "note") \o Add(log)

CollectLogs ==
    Call("client", "abort") \o listPodsInSelectors("note")
    \o Each(Items, LAMBDA pod : Each(Items, LAMBDA c : LogsOfContainer(pod \o "/" \o c)))

\* tar in the container, unpacked by a goroutine at the other end of a pipe
copyFilesFromPod(pod) ==
    Call("scheme", "fail") \o Call("executor", "fail")
    \o Each(Items, LAMBDA f : Call("tar header", "fail") \o Write(pod \o "/" \o f, "fail"))
    \o Wait("stream", "fail")

CollectCopy ==
    Call("client", "abort") \o listPodsInSelectors("note")
    \o Each(Items, LAMBDA pod : FuncOrNext(copyFilesFromPod(pod), "note")
                                \o All(Items, LAMBDA f : Add(pod \o "/" \o f)))

-----------------------------------------------------------------------------
\* ceph: two of the sixteen commands

\* a client cannot be made: an error; no pod is found: none
findRookCephToolsPod ==
    Call("client", "fail") \o listPodsInSelectors("skip") \o If(listPodsInSelectors("skip"))

copyResult(save) == Call("read", "fail") \o save

(***************************************************************************)
(* The exec collector, always with a timeout; its files are copied and     *)
(* stay behind.  Without a name its errors of the list of pods are in a    *)
(* file errors.json, which is none of the files that are copied.           *)
(***************************************************************************)
cephCommandExec(id) ==
    Unkept(execWithTimeout)
    \o If(copyResult(Save(id, "fail"))) \o If(copyResult(Save(id \o "-stderr", "fail")))
    \o IfErrors(copyResult(Report(id \o "-errors.json", "fail")))

CollectCeph ==
    Func(findRookCephToolsPod, "abort")
    \o If(All(Items, LAMBDA id : Func(cephCommandExec(id), "note")))

-----------------------------------------------------------------------------
\* certificates, config maps, secrets

\* a certificate that does not parse ends the parsing of its chain
CertParser(cert) == Func(Call("decode", "fail") \o Call("parse", "fail"), "pend")

secretCertCollector(s) ==
    Func(Call("get secret", "fail") \o Each(Items, CertParser), "pend")
configMapCertCollector(s) ==
    Func(Call("get config map", "fail") \o Each(Items, CertParser), "pend")

CollectCertificates ==
    Each(Items, secretCertCollector) \o Each(Items, configMapCertCollector)
    \o Call("marshal", "abort") \o Report("certificates.json", "abort")

configMapToOutput(onError) == Call("marshal", onError)
secretToOutput(onError) == Call("marshal", onError)

(***************************************************************************)
(* One object by name, or all of a selector.  That an object is not found  *)
(* is an error, and a file that says so.                                   *)
(***************************************************************************)
CollectConfigMap ==
    IfElse(If(Call("namespace of the kubeconfig", "abort"))
           \o If(configMapToOutput("stop") \o Save("missing", "skip") \o Raise("not found", "noteQuit"))
           \o Call("get", "noteQuit"),
           IfElse(Call("list", "noteQuit"), Raise("name or selector", "abort")))
    \o Each(Items, LAMBDA o : configMapToOutput("stop") \o Save(o, "skip"))

CollectSecret ==
    IfElse(If(secretToOutput("stop") \o Save("missing", "skip") \o Raise("not found", "noteQuit"))
           \o Call("get", "noteQuit"),
           IfElse(Call("list", "noteQuit"), Raise("name or selector", "abort")))
    \o Each(Items, LAMBDA o : secretToOutput("stop") \o Save(o, "skip"))

-----------------------------------------------------------------------------
\* versions

\* the version file is written, empty, when the server does not answer
clusterVersion == Func(Call("server version", "fail") \o Call("marshal", "fail"), "pend")

CollectClusterInfo ==
    Call("client", "abort") \o clusterVersion \o Save("cluster_version.json", "skip")
    \o IfErrors(Report("errors.json", "skip"))

-----------------------------------------------------------------------------
\* databases: what fails is the content of the file

SaveConnection == Call("marshal", "abort") \o Report("connection.json", "skip")

\* every variable is read, until one cannot be scanned
CollectMysql ==
    Func(Hold("db", "fail") \o Defer("db") \o Call("version", "pend")
         \o If(Func(Hold("rows", "fail") \o Defer("rows")
                    \o Each(Items, LAMBDA r : OrBreak(Call("scan", "pend"))), "pend")),
         "pend")
    \o SaveConnection

parseMsSqlVersion == Call("compile", "fail") \o Call("match version", "fail")

CollectMssql ==
    Func(Hold("db", "fail") \o Defer("db") \o Call("version", "fail")
         \o parseMsSqlVersion, "pend")
    \o SaveConnection

\* the certificates are files and environment variables until the URI is parsed
createConnectConfig ==
    If(Raise("no uri", "fail"))
    \o If(Call("tls parameters", "fail") \o Hold("tmpdir", "fail") \o Defer("tmpdir")
          \o Each(<<"PGSSLROOTCERT", "PGSSLCERT", "PGSSLKEY">>,
                  LAMBDA v : Call("write file", "fail") \o Hold(v, "fail") \o Defer(v)))
    \o Call("parse uri", "fail")

CollectPostgres ==
    Func(createConnectConfig \o Hold("connection", "fail") \o Defer("connection")
         \o Call("version", "fail") \o Call("parse version", "fail"), "pend")
    \o SaveConnection

createClient == Call("parse uri", "fail") \o If(Call("tls config", "fail"))

CollectRedis ==
    Func(createClient \o Hold("client", "fail") \o Defer("client") \o Call("info", "fail"), "pend")
    \o SaveConnection

-----------------------------------------------------------------------------
\* http: without a timeout in the spec the client has none; the body of the
\* response is not closed

parseTimeout == If(Call("parse timeout", "fail") \o If(Raise("negative timeout", "fail")))

handleFileOrDir == Call("stat", "fail")

doRequest ==
    parseTimeout \o If(IfElse(Call("append certificate", "fail"), handleFileOrDir))
    \o Call("new request", "fail")
    \o IfElse(Wait("request", "fail"), Call("request", "fail")) \o Hold("body", "none")

\* an error of the request is the content of the result
responseToOutput == Call("read body", "abort")

CollectHTTP ==
    If(Raise("no supported http request type", "abort"))
    \o Func(doRequest \o responseToOutput, "pend") \o Call("marshal", "abort")
    \o Report("result.json", "skip")

-----------------------------------------------------------------------------
\* helm: one failing release hides the others

getHelmValues == Call("init", "fail") \o Call("get values", "fail")

getVersionInfo(r) ==
    Call("history", "fail") \o Each(Items, LAMBDA h : If(Func(getHelmValues, "pend")))

helmReleaseHistoryCollector ==
    Call("init", "fail")
    \o IfElse(Call("get release", "fail") \o Func(getVersionInfo("r"), "pend"),
              Call("list releases", "fail") \o Each(Items, LAMBDA r : Func(getVersionInfo(r), "pend")))

CollectHelm ==
    Func(helmReleaseHistoryCollector, "pend") \o IfErrors(Report("errors.json", "skip") \o Quit)
    \o Each(Items, LAMBDA ns : Call("marshal", "abort") \o Save(ns, "skip"))

-----------------------------------------------------------------------------
\* metrics

constructEndpoint == If(Raise("wrong metric name", "fail")) \o Call("join path", "fail")

CollectMetrics ==
    Each(Items, LAMBDA r : FuncOrNext(constructEndpoint, "pend")
                           \o OrNext(Call("query", "pend")) \o Call("unmarshal", "skip"))
    \o Each(Items, LAMBDA path : Call("marshal", "pend") \o Save(path, "skip"))
    \o IfErrors(Report("errors.json", "skip"))

\* the nodes of a list that fails are left out
constructNodesMap == If(Call("list nodes", "skip"))

CollectNodeMetrics ==
    constructNodesMap
    \o Each(Items, LAMBDA node : Call("query", "stop") \o Save(node, "skip"))

-----------------------------------------------------------------------------
\* images of a registry: the error of an image is part of the result

getImageAuthConfigFromData ==
    If(Raise("secret type", "fail")) \o Call("decode", "fail") \o Call("unmarshal", "fail")
    \o If(Raise("auth string", "fail"))

getImageAuthConfigFromSecret ==
    Call("client", "fail") \o Call("get secret", "fail") \o getImageAuthConfigFromData

getImageAuthConfig ==
    If(Return) \o IfElse(getImageAuthConfigFromData,
                         IfElse(getImageAuthConfigFromSecret, Raise("pull secret spec", "fail")))

(***************************************************************************)
(* That the manifest is unknown, or has no such architecture, is an answer *)
(* (the function returns).  EOF is tried again, three times at most.       *)
(***************************************************************************)
imageExists(image) ==
    Call("parse image", "fail") \o Func(getImageAuthConfig, "fail")
    \o If(Return) \o If(If(Return) \o If(Return)) \o Call("manifest", "fail")

CollectRegistry ==
    Each(Items, LAMBDA image : Func(imageExists(image), "pend"))
    \o Call("marshal", "abort") \o Report("images.json", "skip")

-----------------------------------------------------------------------------
\* results of a sonobuoy run: a tar archive, streamed from its pod

CollectSonobuoyResults ==
    Call("get pod", "abort") \o Call("retrieve", "abort") \o Call("gunzip", "abort")
    \o Each(Items, LAMBDA f : Call("tar header", "abort") \o Save(f, "abort"))
    \o Wait("stream", "abort")

-----------------------------------------------------------------------------
\* dns: everything within sixty seconds, the deletion of the pod too

getKubernetesClusterIP == Call("get service kubernetes", "pend")

troubleshootDNSFromPod ==
    Hold("pod", "fail") \o Call("watch", "fail") \o If(Raise("pod failed", "fail"))
    \o Call("stream logs", "fail") \o Call("read logs", "fail")

\* an error of the scanner is not looked at
extractDNSQueriesFromPodLog == Call("scan log", "skip")

getRunningKubeDNSPodNames == Call("list kube-dns pods", "skip")
getKubeDNSServiceClusterIP == Call("get kube-dns service", "skip")
getKubeDNSEndpoints == Call("get kube-dns endpoints", "skip")
getCoreDNSConfig == Call("get coredns config", "skip")
getKubeDNSConfig == Call("get kube-dns config", "done") \o Call("marshal", "skip")

CollectDNS ==
    Deadline \o getKubernetesClusterIP
    \o Func(troubleshootDNSFromPod, "pend") \o FreeInTime("pod") \o extractDNSQueriesFromPodLog
    \o getRunningKubeDNSPodNames \o getKubeDNSServiceClusterIP \o getKubeDNSEndpoints
    \o getCoreDNSConfig \o Func(getKubeDNSConfig, "skip")
    \o Report("debug.txt", "skip") \o Call("marshal", "stop") \o Save("debug.json", "skip")

-----------------------------------------------------------------------------
\* etcd: in its static pod, or in a pod of our own

getSupportedDistro == Call("list nodes", "fail") \o If(Raise("distribution", "fail"))
getEtcdArgsByDistribution == If(Raise("distribution", "fail"))

createEtcdPod == Hold("pod", "fail")
cleanup == Defer("pod")

getOrCreateEtcdPod ==
    IfElse(createEtcdPod, Call("list etcd pods", "fail") \o If(Raise("no static etcd pod", "fail")))

waitForPodReady == Call("get etcd pod", "fail") \o If(Raise("not running in time", "fail"))

\* the context has no deadline
executeCommand(c) == Call("executor", "fail") \o Wait("stream", "fail")

CollectEtcd ==
    Func(getSupportedDistro, "abort") \o cleanup \o Func(getEtcdArgsByDistribution, "abort")
    \o Func(getOrCreateEtcdPod, "abort") \o Func(waitForPodReady, "abort")
    \o All(Items, LAMBDA c : FuncOrNext(executeCommand(c), "skip")
                             \o If(Save(c, "skip")) \o If(Save(c \o "-stderr", "skip")))

-----------------------------------------------------------------------------
\* pods of our own

createSecret ==
    If(Raise("secret type", "fail")) \o If(Raise("secret data", "fail"))
    \o Call("decode", "fail") \o Call("indent", "fail") \o Hold("secret", "fail")

deletePod == Defer("pod")
deleteImagePullSecret == Defer("secret")

\* the secret is deleted by the caller once there is a pod
runPodWithSpec == If(createSecret) \o Hold("pod", "fail")

\* the pod has started when it runs or has ended; poll is how it is waited for
runWithoutTimeout(poll) ==
    Call("client", "fail") \o poll \o If(Raise("ImagePullBackOff", "fail"))
    \o If(Call("list events", "fail") \o If(Raise("FailedCreatePodSandBox", "fail")))
    \o Func(savePodLogs("log"), "fail")

\* what fails here takes the place of what was collected
savePodDetails ==
    Call("get pod", "abort") \o Call("list pod events", "abort") \o Call("marshal pod", "abort")
    \o Call("marshal events", "abort") \o Save("pod.json", "skip") \o Save("events.json", "skip")

(***************************************************************************)
(* With a timeout the pod is watched by a goroutine, and what it answers   *)
(* may be lost to a timer that goes off at the same time.  The details of  *)
(* the pod are saved only after a success.                                 *)
(***************************************************************************)
startPod ==
    Call("client", "abort") \o Func(runPodWithSpec, "abort")
    \o deletePod \o deleteImagePullSecret

runWithTimeout ==
    Func(runWithoutTimeout(Call("poll pod", "fail")), "stop") \o Call("answer in time", "stop")

CollectRunPod ==
    startPod
    \o IfElse(Func(runWithoutTimeout(Wait("poll pod", "fail")), "abort"),
              Call("parse timeout", "abort") \o runWithTimeout)
    \o Add("log") \o savePodDetails

checkForExistingServiceAccount == Call("get service account", "abort")

CollectRun == If(checkForExistingServiceAccount) \o CollectRunPod

\* the pod is asked for its phase without a pause, and without a deadline of its own
RunPodLogsWithOptions(poll) ==
    Hold("pod", "fail") \o deletePod \o poll \o If(Raise("ImagePullBackOff", "fail"))
    \o Call("log stream", "fail") \o Call("read log", "fail")

\* one pod for every node; a node whose pod fails is missing from the result
RunPodsReadyNodes(poll) ==
    Call("list nodes", "fail")
    \o Each(Items, LAMBDA node : Func(RunPodLogsWithOptions(poll), "skip"))

(***************************************************************************)
(* The pull secret that is created may have a generated name, and the one  *)
(* that is deleted has the name in the spec.                               *)
(***************************************************************************)
CollectSysctl ==
    IfElse(If(Func(createSecret, "abort") \o If(Defer("secret")))
           \o Func(RunPodsReadyNodes(Wait("poll pod", "fail")), "abort"),
           Call("parse timeout", "abort")
           \o If(Func(createSecret, "abort") \o If(Defer("secret")))
           \o Func(RunPodsReadyNodes(Call("poll pod", "fail")), "abort"))
    \o Each(Items, LAMBDA node : Save(node, "skip"))

-----------------------------------------------------------------------------
\* daemon sets of our own

waitForDaemonSetPods == Call("get daemon set", "fail") \o If(Raise("not scheduled in time", "fail"))

getPodNodeAtCompletion ==
    Call("get pod", "fail") \o If(Raise("not completed in time", "fail"))
    \o If(Raise("ImagePullBackOff", "fail"))

getPodLog == Call("log stream", "fail") \o Call("read log", "fail")

(***************************************************************************)
(* A pod that is not looked at before the deadline is left out.  The error *)
(* of a pod is saved in place of its log.                                  *)
(***************************************************************************)
CollectRunDaemonSet ==
    Call("client", "abort") \o If(Func(createSecret, "abort"))
    \o Hold("daemon set", "abort") \o Defer("daemon set") \o Defer("secret")
    \o If(Call("parse timeout", "abort")) \o Func(waitForDaemonSetPods, "abort")
    \o Call("list pods", "abort")
    \o Each(Items, LAMBDA pod :
                OrNext(Call("look in time", "skip"))
                \o Func(getPodNodeAtCompletion \o getPodLog, "pend") \o Report(pod, "abort"))

deleteDaemonSet == Defer("daemon set")

checkDaemonPodStatus ==
    Call("list pods", "fail") \o Call("list events", "skip") \o If(Raise("FailedMount", "fail"))

(***************************************************************************)
(* What is created is cleaned up, with or without an error; a pull secret  *)
(* only if its name is the one in the spec.  Daemon set pods that are not  *)
(* available after thirty seconds are no error: the error that is wrapped  *)
(* is the one of the outer context, which has none.                        *)
(***************************************************************************)
copyFromHostCreateDaemonSet ==
    If(createSecret \o If(Defer("secret"))) \o Hold("daemon set", "fail") \o deleteDaemonSet
    \o checkDaemonPodStatus \o Call("get daemon set", "fail") \o Call("available in time", "skip")

\* the deadline of the spec does not reach the stream; one file, or an archive
copyFilesFromHost(pod) ==
    Call("scheme", "fail") \o Call("executor", "fail")
    \o Write(pod \o "/file", "fail") \o Wait("stream", "fail")

copyFromHostGetFilesFromPods ==
    Call("list pods", "fail")
    \o Each(Items, LAMBDA pod : Func(copyFilesFromHost(pod), "note") \o Add(pod \o "/file"))

CollectCopyFromHost ==
    Func(copyFromHostCreateDaemonSet, "abort") \o If(Call("parse timeout", "abort"))
    \o Func(copyFromHostGetFilesFromPods, "abort")

\* a copy of the directory of collectd
CollectCollectd == CollectCopyFromHost

-----------------------------------------------------------------------------
\* goldpinger: what was created is deleted once the service is there

getGoldpingerService == Call("list services", "fail")
createGoldpingerServiceAccount == Hold("service account", "fail")
createGoldpingerRole == Hold("role", "fail")
createGoldpingerRoleBinding == Hold("role binding", "fail")
createGoldpingerDaemonSet == Hold("daemon set", "fail")
createGoldpingerService == Hold("service", "fail")

DiscoverOrCreateGoldpinger ==
    getGoldpingerService \o If(Call("parse delay", "fail") \o Return) \o Call("parse delay", "fail")
    \o IfElse(createGoldpingerServiceAccount \o createGoldpingerRole \o createGoldpingerRoleBinding,
              Call("get service account", "fail"))
    \o createGoldpingerDaemonSet \o waitForDaemonSetPods \o createGoldpingerService

cleanupResources ==
    All(<<"service", "daemon set", "service account", "role binding", "role">>, Defer)

fetchCheckAllOutput ==
    Call("new request", "fail") \o Call("request", "fail") \o Call("read body", "fail")
    \o If(Raise("status code", "fail"))

\* the run pod collector with a timeout of a minute; the previous log is a buffer here
runPodAndCollectGPResults ==
    If(Call("get service account", "fail"))
    \o Called(InMemory(startPod \o runWithTimeout \o savePodDetails, {"previous log"}))
    \o Call("unmarshal pod", "fail") \o If(Call("marshal", "fail") \o Raise("exit code", "fail"))

CollectGoldpinger ==
    Func(DiscoverOrCreateGoldpinger, "abort") \o cleanupResources
    \o Func(IfElse(fetchCheckAllOutput, runPodAndCollectGPResults), "pend")
    \o IfErrors(Report("error.txt", "stop") \o Quit) \o Save("check-all.json", "stop")

-----------------------------------------------------------------------------
\* longhorn: an error of one resource drops what the others have saved

\* that the cluster has no such resource is no error
LonghornNodes ==
    If(Quit) \o Call("list nodes", "abort")
    \o Each(Items, LAMBDA n : Call("marshal", "abort") \o Save(n, "skip"))

\* volumes stand for eight kinds of resources, and the settings for themselves
LonghornResources ==
    Call("list volumes", "abort") \o Each(Items, LAMBDA v : Call("marshal", "abort") \o Save(v, "skip"))
    \o Call("list settings", "abort") \o Call("marshal", "abort") \o Save("settings.yaml", "skip")

\* the logs collector on all pods of the namespace; its results are added
collectLonghornLogs == Called(CollectLogs)

ListInstanceManagerReplicaPods == Call("client", "fail") \o Call("list pods", "fail")

GetLonghornReplicaChecksum ==
    Call("client", "fail") \o Call("executor", "fail") \o Wait("stream", "fail")

CollectLonghorn ==
    Call("client", "abort") \o LonghornNodes \o LonghornResources
    \o Func(collectLonghornLogs, "abort")
    \o If(Func(ListInstanceManagerReplicaPods, "abort")
          \o Each(Items, LAMBDA r : FuncOrNext(GetLonghornReplicaChecksum, "skip")
                                    \o Save(r \o ".txt", "skip")))

-----------------------------------------------------------------------------
\* a host collector that runs in a pod on every node

\* a config map that is there already is no error, and nil is what is returned
createCollectorConfigMap ==
    Call("get config map", "fail") \o If(Raise("nil config map", "crash"))
    \o Call("marshal", "fail") \o Hold("config map", "fail")

createCollectorPod ==
    Call("get pod", "fail") \o If(Raise("pod exists", "fail"))
    \o Call("get service account", "fail") \o Hold("pod", "fail")

CreateCollector == createCollectorConfigMap \o createCollectorPod

WaitForPodCondition == Call("get pod until it is done", "fail")

\* tried again unless the pod is gone
getContainerLogsInternal == Call("get log", "fail") \o If(Raise("Internal Error in log", "fail"))

GetContainerLogs == WaitForPodCondition \o getContainerLogsInternal

podRunner == CreateCollector \o Defer("pod") \o Defer("config map") \o GetContainerLogs

\* the first error cancels the others, and no result is returned
RunRemote == Each(Items, LAMBDA node : podRunner)

\* the subnet collector reads a field of another collector, which is nil
toHostCollector == If(Raise("nil collector", "quit")) \o If(Raise("no spec", "fail"))

(***************************************************************************)
(* A panic is recovered into a variable that is not the result: nil and no *)
(* error are what is returned.                                             *)
(***************************************************************************)
RunCollectorSync ==
    Func(If(Quit) \o toHostCollector \o Call("client", "fail") \o Call("scheme", "fail")
         \o Call("list nodes", "fail") \o RunRemote, "abort")
    \o All(Items, Keep) \o If(Call("redact", "stop"))

runRemote == Each(Items, LAMBDA node : podRunner)

\* nodes have different names: nothing is ever combined
mapCollectorResultToOutput == <<>>

\* a node whose log is no JSON drops the files of the others
RemoteHostCollect ==
    Call("scheme", "abort") \o Call("client", "abort") \o Call("list nodes", "abort")
    \o Func(runRemote, "abort") \o mapCollectorResultToOutput
    \o Each(Items, LAMBDA node : Call("unmarshal", "abort") \o Save(node, "skip"))
    \o If(Call("marshal", "abort") \o Save("node_list.json", "skip"))

-----------------------------------------------------------------------------
(***************************************************************************)
(* The host collectors of a support bundle on the nodes: a daemon set, and *)
(* one exec per collector and pod.  The deletion of the daemon set is      *)
(* deferred only when the last pod has answered.                           *)
(***************************************************************************)
createHostCollectorDS == Hold("daemon set", "abort")

waitForDS == Call("daemon set in time", "abort")

saveNodeList ==
    Call("node client", "abort") \o Call("list nodes", "abort") \o Call("marshal nodes", "abort")
    \o Save("node_list.json", "abort")

waitForPodRunning == Call("pod in time", "fail")

execCollect == Call("executor", "fail") \o Wait("stream", "fail")

runRemoteHostCollectors ==
    Call("client", "abort") \o createHostCollectorDS \o waitForDS \o Call("list pods", "abort")
    \o saveNodeList
    \o Each(Items, LAMBDA c :
           OrNext(If(<<>>)) \o Call("marshal spec", "abort")
           \o Each(Items, LAMBDA pod :
                  Func(waitForPodRunning \o execCollect \o Call("unmarshal", "fail"), "abort")))
    \o Defer("daemon set")
    \o Each(Items, LAMBDA node : Save(node, "abort"))
=============================================================================
