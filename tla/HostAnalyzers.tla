--------------------------- MODULE HostAnalyzers ---------------------------
(***************************************************************************)
(* The analyzers of pkg/analyze for what was collected on hosts, in the    *)
(* notation of AnalyzerProgram.                                            *)
(***************************************************************************)
EXTENDS ClusterAnalyzers

\* the file of this host; or, without one, those of the nodes on the list; or
\* nothing, which is no error
retrieveCollectedContents(body) ==
    IfElse(body,
           Call("node list", "error")
           \o IfElse(Missing("node list"),
                     Each(Items, LAMBDA node : Call("node file", "error") \o body)))

\* the content is parsed when the first condition is compared with it, and not
\* at all by an outcome that has none
Garbled(o, holds) ==
    IF o.kind = "blank" THEN "miss"
    ELSE IF o.when = "" THEN "hit"
    ELSE "error"

evaluateOutcomes(rule) ==
    Func(IfElse(Outcomes(rule), Missing("content") \o Outcomes("garbled")), "error")

analyzeHostCollectorResults(rule) ==
    ListOfResults(retrieveCollectedContents(evaluateOutcomes(rule)))

-----------------------------------------------------------------------------
\* the conditions

compareHostCPUConditionalToActual(o, holds) == Standard(o, holds)

\* "supports" and "hasFlags" are answered before the term in front of them is
\* looked at
compareHostCPUFeatures(o, holds) == Guessed(o, holds)

CheckMemory(o, holds) == Standard(o, holds)
compareHostDiskUsageConditionalToActual(o, holds) == Standard(o, holds)
compareHostBlockDevicesConditionalToActual(o, holds) == Standard(o, holds)
CheckSysctl(o, holds) == Standard(o, holds)
compareHostTimeStatusToActual(o, holds) == Standard(o, holds)
compareHostIPV4InterfacesConditionalToActual(o, holds) == Standard(o, holds)
CheckContainsIP(o, holds) == Standard(o, holds)

\* an operator nobody knows is an error, and a state nobody knows is one that no
\* service has
compareHostServicesConditionalToActual(o, holds) == Standard(o, holds)
compareHostServicesState(o, holds) == Guessed(o, holds)

\* a platform nobody knows does not match
CheckHostOS(o, holds) == Lenient(o, holds)

\* the condition is the status itself: any other text does not match
CheckStatus(o, holds) ==
    IF o.when \in {"odd", "bad"} THEN "miss" ELSE Standard(o, holds)

AnalyzeHostCPU ==
    IfElse(analyzeHostCollectorResults("hostCpu"), analyzeHostCollectorResults("hostCpuFeatures"))
AnalyzeHostMemory == analyzeHostCollectorResults("hostMemory")
AnalyzeHostOS == analyzeHostCollectorResults("hostOs")
AnalyzeHostDiskUsage == analyzeHostCollectorResults("hostDiskUsage")
AnalyzeHostBlockDevices == analyzeHostCollectorResults("hostBlockDevices")
AnalyzeHostServices ==
    IfElse(analyzeHostCollectorResults("hostServices"),
           analyzeHostCollectorResults("hostServicesState"))
AnalyzeHostSysctl == analyzeHostCollectorResults("hostSysctl")
AnalyzeHostTime == analyzeHostCollectorResults("hostTime")
AnalyzeHostIPV4Interfaces == analyzeHostCollectorResults("hostInterfaces")
AnalyzeHostTCPLoadBalancer == analyzeHostCollectorResults("hostStatus")
AnalyzeHostHTTPLoadBalancer == analyzeHostCollectorResults("hostStatus")
AnalyzeHostTCPPortStatus == analyzeHostCollectorResults("hostStatus")
AnalyzeHostUDPPortStatus == analyzeHostCollectorResults("hostStatus")
AnalyzeHostTCPConnect == analyzeHostCollectorResults("hostStatus")
AnalyzeHostSubnetAvailable == analyzeHostCollectorResults("hostStatus")
AnalyzeHostCertificate == analyzeHostCollectorResults("hostStatus")
AnalyzeHostHTTP ==
    IfElse(analyzeHostCollectorResults("http"), analyzeHostCollectorResults("httpNoResponse"))

\* nothing is read: the addresses are in the spec
AnalyzeHostSubnetContainsIP ==
    ListOfResults(Call("CIDR", "error") \o Call("IP", "error") \o Outcomes("hostContainsIP"))

-----------------------------------------------------------------------------
\* kernels

\* the modules of conditions, then the outcomes without one: a fail unless
\* something has passed, a pass unless something has failed, a warn if neither
compareKernelModuleConditionalToActual(o, holds) ==
    IF o.kind = "blank" \/ o.when = "" THEN "miss"
    ELSE IF Standard(o, holds) = "hit" THEN "mark"
    ELSE Standard(o, holds)

\* a status nobody knows is one that no module has
compareKernelModuleStatus(o, holds) ==
    IF o.when = "odd" THEN (IF holds THEN "mark" ELSE "miss")
    ELSE compareKernelModuleConditionalToActual(o, holds)

DefaultPass(o, holds) == IF o.kind = "pass" /\ o.when = "" THEN "hit" ELSE "miss"
DefaultFail(o, holds) == IF o.kind = "fail" /\ o.when = "" THEN "hit" ELSE "miss"

AnalyzeHostKernelModules ==
    ListOfResults(Read("kernel_modules.json")
        \o Func(IfElse(Outcomes("kernelModules"), Outcomes("kernelModulesStatus")), "error")
        \o IfVerdict("pass", IfVerdict("fail", Return)
                             \o Func(Outcomes("defaultPass"), "error") \o Return)
        \o IfVerdict("fail", Func(Outcomes("defaultFail"), "error") \o Return)
        \o Func(Outcomes("unread"), "error")
        \o IfVerdict("any", Return) \o Result("warn"))

\* conditions are not read: the first pass if all was found, else the first fail
FirstPass(o, holds) == IF o.kind = "pass" THEN "hit" ELSE "miss"
FirstFail(o, holds) == IF o.kind = "fail" THEN "hit" ELSE "miss"

analyzeKernelConfigsOfNode ==
    Func(Call("content", "error") \o Each(Items, LAMBDA c : Call("selected config", "error"))
         \o IfElse(Outcomes("firstPass"), Outcomes("firstFail")), "error")

AnalyzeHostKernelConfigs ==
    ListOfResults(retrieveCollectedContents(analyzeKernelConfigsOfNode))

AnalyzeHostNetworkNamespaceConnectivity ==
    ListOfResults(retrieveCollectedContents(
        Func(Call("content", "error")
             \o IfElse(Rendered("firstPass"), Rendered("firstFail")), "error")))

-----------------------------------------------------------------------------
\* file systems, packages, certificates

\* "fileNotCollected" is asked for when there is no file, and never holds if
\* there is one
compareHostFilesystemPerformanceConditionalToActual(o, holds) == VersionRule(o, holds)

analyzeFilesystemPerformanceOfNode ==
    Func(Call("content", "error") \o If(Raise("no fsperf job", "error"))
         \o Outcomes("filesystemPerformance") \o Result(""), "error")

\* a first outcome that asks for it decides what a missing file is; without
\* outcomes the error is dropped
fileNotCollected ==
    IfOutcomes(IfElse(IfElse(Result("fail"), IfElse(Result("warn"), Result("pass"))),
                      Raise("not collected", "error")))

AnalyzeHostFilesystemPerformance ==
    ListOfResults(If(Missing("contents") \o fileNotCollected \o Return)
                  \o retrieveCollectedContents(analyzeFilesystemPerformanceOfNode))

compareSystemPackagesConditionalToActual(o, holds) == VersionRule(o, holds)

\* a line of details that begins with a colon has no first character
getSystemPackageDetailsMap == If(Panic("no first character"))

analyzeSystemPackagesOfNode ==
    Call("content", "error")
    \o Each(Items, LAMBDA pkg :
           getSystemPackageDetailsMap \o Func(Rendered("systemPackages"), "error"))

AnalyzeHostSystemPackages ==
    ListOfResults(retrieveCollectedContents(analyzeSystemPackagesOfNode))

analyzeHostAnalyzeCertificatesResult == analyzeAnalyzeCertificatesResult

AnalyzeHostCertificatesCollection ==
    ListOfResults(Read("certificatesCollection.json")
        \o Each(Items, LAMBDA c : IfElse(Result("fail"), analyzeHostAnalyzeCertificatesResult))
        \o IfVerdict("any", Return) \o Result("warn"))

AnalyzeHostTextAnalyze == analyzeTextAnalyze
AnalyzeHostJsonCompare == analyzeJsonCompare

-----------------------------------------------------------------------------
HostAnalyzerPrograms ==
    [hostCpu |-> AnalyzeHostCPU, hostMemory |-> AnalyzeHostMemory, hostOs |-> AnalyzeHostOS,
     hostDiskUsage |-> AnalyzeHostDiskUsage, hostBlockDevices |-> AnalyzeHostBlockDevices,
     hostServices |-> AnalyzeHostServices, hostSysctl |-> AnalyzeHostSysctl,
     hostTime |-> AnalyzeHostTime, hostIpv4Interfaces |-> AnalyzeHostIPV4Interfaces,
     hostTcpLoadBalancer |-> AnalyzeHostTCPLoadBalancer,
     hostHttpLoadBalancer |-> AnalyzeHostHTTPLoadBalancer,
     hostTcpPortStatus |-> AnalyzeHostTCPPortStatus,
     hostUdpPortStatus |-> AnalyzeHostUDPPortStatus, hostTcpConnect |-> AnalyzeHostTCPConnect,
     hostSubnetAvailable |-> AnalyzeHostSubnetAvailable,
     hostCertificate |-> AnalyzeHostCertificate, hostHttp |-> AnalyzeHostHTTP,
     hostSubnetContainsIp |-> AnalyzeHostSubnetContainsIP,
     hostKernelModules |-> AnalyzeHostKernelModules,
     hostKernelConfigs |-> AnalyzeHostKernelConfigs,
     hostNetworkNamespaceConnectivity |-> AnalyzeHostNetworkNamespaceConnectivity,
     hostFilesystemPerformance |-> AnalyzeHostFilesystemPerformance,
     hostSystemPackages |-> AnalyzeHostSystemPackages,
     hostCertificatesCollection |-> AnalyzeHostCertificatesCollection,
     hostTextAnalyze |-> AnalyzeHostTextAnalyze, hostJsonCompare |-> AnalyzeHostJsonCompare]

HostRules ==
    [hostCpu |-> Rule(compareHostCPUConditionalToActual),
     hostCpuFeatures |-> Rule(compareHostCPUFeatures), hostMemory |-> Rule(CheckMemory),
     hostOs |-> Rule(CheckHostOS), hostDiskUsage |-> Rule(compareHostDiskUsageConditionalToActual),
     hostBlockDevices |-> Rule(compareHostBlockDevicesConditionalToActual),
     hostServices |-> Rule(compareHostServicesConditionalToActual),
     hostServicesState |-> Rule(compareHostServicesState),
     hostSysctl |-> Rule(CheckSysctl), hostTime |-> Rule(compareHostTimeStatusToActual),
     hostInterfaces |-> Rule(compareHostIPV4InterfacesConditionalToActual),
     hostStatus |-> Rule(CheckStatus), hostContainsIP |-> Rule(CheckContainsIP),
     garbled |-> Rule(Garbled), kernelModules |-> Rule(compareKernelModuleConditionalToActual),
     kernelModulesStatus |-> Rule(compareKernelModuleStatus),
     defaultPass |-> Rule(DefaultPass), defaultFail |-> Rule(DefaultFail),
     firstPass |-> Rule(FirstPass), firstFail |-> Rule(FirstFail),
     filesystemPerformance |-> Rule(compareHostFilesystemPerformanceConditionalToActual),
     systemPackages |-> Rule(compareSystemPackagesConditionalToActual)]
=============================================================================
