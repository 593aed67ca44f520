---------------------------- MODULE MCCollectors ----------------------------
(* All collectors of the cluster and of the host, each from its beginning,  *)
(* and their paths, which the theorems about Collectors ask for.            *)
EXTENDS ClusterResources, HostCollectors, ImageCollectors, Commands, CollectorPaths

ClusterAndHost ==
    [exec |-> CollectExec, logs |-> CollectLogs, copy |-> CollectCopy, ceph |-> CollectCeph,
     certificates |-> CollectCertificates, configMap |-> CollectConfigMap,
     secret |-> CollectSecret, clusterInfo |-> CollectClusterInfo,
     imageFacts |-> CollectImageFacts, data |-> CollectData, mysql |-> CollectMysql,
     mssql |-> CollectMssql, postgres |-> CollectPostgres, redis |-> CollectRedis,
     http |-> CollectHTTP, helm |-> CollectHelm, metrics |-> CollectMetrics,
     nodeMetrics |-> CollectNodeMetrics, registry |-> CollectRegistry,
     sonobuoy |-> CollectSonobuoyResults, dns |-> CollectDNS, etcd |-> CollectEtcd,
     runPod |-> CollectRunPod, run |-> CollectRun, sysctl |-> CollectSysctl,
     runDaemonSet |-> CollectRunDaemonSet, copyFromHost |-> CollectCopyFromHost,
     collectd |-> CollectCollectd, goldpinger |-> CollectGoldpinger,
     longhorn |-> CollectLonghorn, remote |-> RunCollectorSync, remoteHost |-> RemoteHostCollect,
     remoteHostCollectors |-> runRemoteHostCollectors,
     hostCpu |-> CollectHostCPU,
     hostMemory |-> CollectHostMemory, hostDiskUsage |-> CollectHostDiskUsage,
     hostBlockDevices |-> CollectHostBlockDevices, hostTime |-> CollectHostTime,
     hostOs |-> CollectHostOS, hostServices |-> CollectHostServices,
     hostIpv4Interfaces |-> CollectHostIPV4Interfaces, hostSysctl |-> CollectHostSysctl,
     hostKernelConfigs |-> CollectHostKernelConfigs,
     hostKernelModules |-> CollectHostKernelModules, hostRun |-> CollectHostRun,
     hostCopy |-> CollectHostCopy, hostJournald |-> CollectHostJournald,
     hostSystemPackages |-> CollectHostSystemPackages, hostDns |-> CollectHostDNS,
     hostTcpPortStatus |-> CollectHostTCPPortStatus,
     hostUdpPortStatus |-> CollectHostUDPPortStatus,
     hostTcpLoadBalancer |-> CollectHostTCPLoadBalancer,
     hostTcpConnect |-> CollectHostTCPConnect, hostHttp |-> CollectHostHTTP,
     hostHttpLoadBalancer |-> CollectHostHTTPLoadBalancer,
     hostCertificate |-> CollectHostCertificate,
     hostCertificatesCollection |-> CollectHostCertificatesCollection,
     hostSubnetAvailable |-> CollectHostSubnetAvailable,
     hostNetworkNamespaceConnectivity |-> CollectHostNetworkNamespaceConnectivity,
     hostCgroups |-> CollectHostCGroups,
     hostFilesystemPerformance |-> CollectHostFilesystemPerformance]

Programs == ClusterAndHost @@ CollectClusterResources @@ CommandPrograms

Table(r) == [c \in DOMAIN Programs |-> IF c \in DOMAIN r THEN r[c] ELSE {}]

\* failures that lose files which were written
KnownDropping ==
    [copy |-> {"1/2", "2/2", "stream", "tar header"},
     exec |-> {"answer in time"},
     helm |-> {"marshal"},
     hostCopy |-> {"errors.json", "returned with errors.json"},
     logs |-> {"1/1-previous", "1/2-previous", "2/1-previous", "2/2-previous", "copy",
                "copy previous"},
     longhorn |-> {"1/1-previous", "1/2-previous", "2/1-previous", "2/2-previous", "client",
                    "copy", "copy previous", "list pods", "list settings", "list volumes",
                    "marshal"},
     namespaces |-> {"container-previous", "copy", "copy previous"},
     remoteHost |-> {"marshal", "unmarshal"},
     remoteHostCollectors |-> {"1", "2", "executor", "marshal spec", "pod in time",
                                "stream", "unmarshal"},
     run |-> {"answer in time", "copy", "copy previous", "get pod", "list pod events",
               "log-previous", "marshal events", "marshal pod"},
     runDaemonSet |-> {"2"},
     runPod |-> {"answer in time", "copy", "copy previous", "get pod", "list pod events",
                  "log-previous", "marshal events", "marshal pod"},
     sonobuoy |-> {"2", "stream", "tar header"}]

\* failures that are logged at most
KnownSilent ==
    [accounts |-> {"license", "replicated secret"},
     analyze |-> {"analyzer"},
     bundlesFromURIs |-> {"auth client", "client required", "convert document",
                           "decode document", "decode secret or config map",
                           "decode v1beta3", "descriptors", "get secret",
                           "image reference", "make request", "no descriptor",
                           "no spec there", "no support bundle there", "not a url",
                           "not oci", "parse uri", "parse url", "parse yaml", "read file",
                           "read spec", "resolve references", "resolver", "secret path",
                           "spec body", "support bundle", "unknown kind", "v1beta3 kind"},
     ceph |-> {"executor", "list pods", "scheme", "stream"},
     checkAndUpdate |-> {"move away", "move into place", "package manager",
                          "parse versions", "read release", "release", "tag name"},
     collectd |-> {"available in time", "list events"},
     copyFromHost |-> {"available in time", "list events"},
     data |-> {"blob body", "digest", "list images", "manifest of a tag", "no blob",
                "parse config", "ping body", "ping status", "read config", "token",
                "token body"},
     diff |-> {"entry of a file", "gzip of a file", "new file", "not text", "old file",
                "read lines", "second pass", "truncated", "unified diff"},
     dns |-> {"get coredns config", "get kube-dns config", "get kube-dns endpoints",
               "get kube-dns service", "list kube-dns pods", "marshal", "scan log"},
     etcd |-> {"executor", "stream"},
     fromArguments |-> {"access review", "answer", "auth client", "client required",
                         "convert document", "decode document",
                         "decode secret or config map", "decode v1beta3", "descriptors",
                         "image reference", "list namespaces", "make request",
                         "namespace of kubeconfig", "no descriptor", "not oci",
                         "parse selector", "parse uri", "parse yaml", "read answer",
                         "resolve references", "resolver", "search config maps",
                         "search secrets", "split selector", "support bundle",
                         "unknown kind", "v1beta3 kind"},
     fromURI |-> {"auth client", "convert", "decode", "descriptors", "get secret",
                   "image reference", "make request", "no descriptor", "no spec there",
                   "not a bundle", "not a url", "not oci", "parse uri", "parse url",
                   "read file", "read spec", "resolver", "secret path", "spec body",
                   "support bundle"},
     hostCgroups |-> {"attach", "attach again", "device filter", "devices cgroup",
                       "directory", "freezer cgroup", "own cgroup", "remove memlock",
                       "scan", "stat"},
     hostDns |-> {"query", "read resolv.conf"},
     hostFilesystemPerformance |-> {"background-read", "background-write",
                                     "fileSize out of range"},
     hostHttpLoadBalancer |-> {"http listener", "new request", "post", "read body"},
     hostIpv4Interfaces |-> {"addresses"},
     hostKernelConfigs |-> {"scan"},
     hostKernelModules |-> {"scan"},
     hostServices |-> {"scan"},
     hostSubnetAvailable |-> {"invalid CIDR"},
     hostSysctl |-> {"scan"},
     imageFacts |-> {"blob body", "digest", "list images", "manifest of a tag", "no blob",
                      "parse config", "ping body", "ping status", "read config", "token",
                      "token body"},
     longhorn |-> {"client", "executor", "stream"},
     metrics |-> {"unmarshal"},
     nodeMetrics |-> {"list nodes"},
     remote |-> {"nil collector", "nil config map"},
     remoteHost |-> {"nil config map"},
     runDaemonSet |-> {"look in time"},
     runTroubleshoot |-> {"app answer", "archive", "gzip reader", "no app slug",
                           "no license", "read entry", "show results", "stat archive",
                           "status of upload", "tar entry", "upload request"},
     specsFromURIs |-> {"answer", "client required", "convert document",
                         "decode document", "decode secret or config map",
                         "decode v1beta3", "make request", "no spec of that type",
                         "parse yaml", "read answer", "resolve references",
                         "unknown kind", "v1beta3 kind"},
     sysctl |-> {"ImagePullBackOff", "log stream", "pod", "poll pod", "read log"},
     upload |-> {"read entry"},
     workloads |-> {"not a directory"}]

\* files of the exec collector, which ceph copies
KnownLeftover == [ceph |-> {"stdout", "stderr", "errors.json"}]

\* objects that may be left behind
KnownLeaking ==
    [afterCollection |-> {"answer"},
     bundlesFromURIs |-> {"spec body"},
     checkAndUpdate |-> {"backup", "extracted"},
     collectd |-> {"secret"},
     copyFromHost |-> {"secret"},
     dns |-> {"pod"},
     fromURI |-> {"spec body"},
     goldpinger |-> {"daemon set", "role", "role binding", "secret", "service account"},
     hostFilesystemPerformance |-> {"background-read", "background-write"},
     hostHttp |-> {"body"},
     hostHttpLoadBalancer |-> {"body", "http listener"},
     hostTcpLoadBalancer |-> {"accepting goroutine"},
     hostTcpPortStatus |-> {"accepting goroutine"},
     http |-> {"body"},
     logs |-> {"previous log"},
     longhorn |-> {"previous log"},
     namespaces |-> {"previous log"},
     remote |-> {"config map", "pod"},
     remoteHost |-> {"config map", "pod"},
     remoteHostCollectors |-> {"daemon set"},
     run |-> {"previous log", "secret"},
     runDaemonSet |-> {"secret"},
     runPod |-> {"previous log", "secret"},
     sysctl |-> {"secret"}]

\* the constants of Collectors; a name for what has been evaluated, and a LET around
\* all programs, keep TLC from going through them again in every action
KnownCollectors == LET programs == Programs IN DOMAIN programs
DroppingTable == Table(KnownDropping)
SilentTable == Table(KnownSilent)
LeakingTable == Table(KnownLeaking)
LeftoverTable == Table(KnownLeftover)
KnownEndless ==
    {"collectd", "copy", "copyFromHost", "etcd", "exec", "http", "longhorn", "run", "runPod",
     "sonobuoy", "sysctl", "hostRun", "hostHttp", "remoteHostCollectors", "analyzeAdvanced",
     "ollamaPull", "ollamaSetup"}

MCCollector == KnownCollectors
MCProgram == LET programs == Programs IN programs
MCDropping == DroppingTable
MCSilent == SilentTable
MCLeaking == LeakingTable
MCEndless == KnownEndless
MCLeftover == LeftoverTable

-----------------------------------------------------------------------------
RECURSIVE Reach(_, _, _)
Reach(After(_), seen, fresh) ==
    IF fresh = {} THEN seen
    ELSE LET found == UNION {After(p) : p \in {q \in fresh : q.result = "running"}} \ seen
         IN  Reach(After, seen \union found, found)

PathsOfFiles ==
    [c \in KnownCollectors |-> [file \in Files(c) |->
        LET After(p) == FileAfter(c, file, p) IN Reach(After, {Start}, {Start})]]

PathsOfFailures ==
    [c \in KnownCollectors |-> [n \in Failures(c) |->
        LET After(p) == FailureAfter(c, n, p) IN Reach(After, {Start}, {Start})]]

PathsOfObjects ==
    [c \in KnownCollectors |-> [object \in Objects(c) |->
        LET After(p) == ObjectAfter(c, object, p) IN Reach(After, {Start}, {Start})]]

ASSUME ProgramsAssumption == ProgramsAreWellFormed
ASSUME FilesAssumption == FilesAreKept(PathsOfFiles)
ASSUME FailuresAssumption == FailuresAreTold(PathsOfFailures)
ASSUME ObjectsAssumption == ObjectsAreFreed(PathsOfObjects)
=============================================================================
