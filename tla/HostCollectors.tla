-------------------------- MODULE HostCollectors --------------------------
(***************************************************************************)
(* The host collectors of pkg/collect: they read files of the host, run    *)
(* its commands and probe its network.  The same notation as for the       *)
(* collectors of the cluster; one definition for every function.           *)
(***************************************************************************)
EXTENDS CollectorProgram

SaveFile(file) == Call("marshal", "abort") \o Save(file, "skip")

\* stderr of a command has a file of its own if there is any
SaveWithStderr(file) == SaveFile(file) \o If(Save(file \o "-stderr", "skip"))

\* bufio.Scanner: a line that is too long ends the text; nobody asks Err()
Scan == Call("scan", "skip")

-----------------------------------------------------------------------------
\* cpu, memory, disks, time, operating system

CollectHostCPU ==
    All(<<"logical", "physical", "arch", "info">>, LAMBDA what : Call(what, "abort"))
    \o SaveFile("cpu.json")

CollectHostMemory == Call("virtual memory", "abort") \o SaveFile("memory.json")

\* the nearest parent of the path that exists, ten levels up at most
traverseFiletreeDirExists ==
    Each(Items, LAMBDA d : Call("stat", "fail")) \o If(Raise("max recursion exceeded", "fail"))

CollectHostDiskUsage ==
    Func(traverseFiletreeDirExists, "stop") \o Call("usage", "stop") \o SaveFile("diskUsage.json")

parseLsblkOutput == Call("scan", "fail")

CollectHostBlockDevices ==
    Call("lsblk", "abort") \o Func(parseLsblkOutput, "abort") \o SaveFile("block_devices.json")

CollectHostTime ==
    Hold("dbus", "abort") \o Defer("dbus") \o Call("timezone", "abort")
    \o All(<<"ntp", "ntp synchronized">>, LAMBDA p :
               Call(p, "abort") \o If(Raise("unexpected value", "abort")))
    \o SaveFile("time.json")

CollectHostOS == Call("platform information", "abort") \o SaveFile("hostos_info.json")

CollectHostServices == Call("systemctl", "abort") \o Scan \o SaveFile("systemctl_services.json")

\* an interface whose addresses cannot be read is left out
CollectHostIPV4Interfaces ==
    Call("interfaces", "abort") \o Each(Items, LAMBDA i : Call("addresses", "skip"))
    \o SaveFile("ipv4Interfaces.json")

parseSysctlParameters == Scan

CollectHostSysctl ==
    Call("sysctl", "abort") \o parseSysctlParameters \o SaveWithStderr("sysctl.json")

-----------------------------------------------------------------------------
\* the kernel

parseKConfigs == Scan

\* the first of the paths that exists, plain or compressed
loadKConfigs ==
    Each(Items, LAMBDA path : Call("open", "fail") \o If(Call("gunzip", "fail"))
                              \o parseKConfigs \o Return)
    \o Raise("no kernel config found", "fail")

CollectHostKernelConfigs ==
    Call("uname", "abort") \o Func(loadKConfigs, "abort") \o SaveFile("kernel-configs.json")

\* what the release of the kernel has on disk
LoadableModules == If(Call("find", "fail") \o Scan)

\* a size or a count of instances that is no number is zero
collectProc == Hold("/proc/modules", "fail") \o Defer("/proc/modules") \o Scan

parseBuiltin == Call("scan", "fail")

collectBuiltin ==
    If(Hold("modules.builtin", "fail") \o Defer("modules.builtin") \o parseBuiltin)

CollectHostKernelModules ==
    Call("uname", "abort") \o Func(LoadableModules, "abort")
    \o Func(collectProc \o collectBuiltin, "abort") \o SaveWithStderr("kernel-modules.json")

-----------------------------------------------------------------------------
\* commands: a bad exit status is part of the file about the run

processEnvVars ==
    If(Each(Items, LAMBDA v : If(Raise("variable not found", "fail"))))
    \o Each(Items, LAMBDA v : If(Raise("malformed variable", "fail")))

\* a file per result of the output directory; what fails there is not told
CollectHostRun ==
    If(Call("parse timeout", "abort")) \o Func(processEnvVars, "abort")
    \o Hold("wkdir", "abort") \o Defer("wkdir") \o If(Call("output directory", "abort"))
    \o If(Call("input directory", "abort")
          \o Each(Items, LAMBDA f : If(Raise("slash in the name", "abort")) \o Call("write input", "abort")))
    \o IfElse(Wait("run", "pend"), Call("run", "pend")) \o If(Raise("failed to run", "abort"))
    \o Call("marshal", "abort") \o Report("info.json", "skip") \o Save("run.txt", "skip")
    \o If(Save("stderr.txt", "skip")) \o If(Each(Items, LAMBDA f : Save("output/" \o f, "skip")))

copyFile(f) == Hold("file", "fail") \o Defer("file") \o Write(f, "fail")
copyDir(d) == Call("read directory", "fail") \o Each(Items, LAMBDA f : copyFile(d \o "/" \o f))

\* neither a file nor a directory: nothing is done
doCopy(path) == Call("stat", "fail") \o If(IfElse(copyFile(path), copyDir(path)))

(***************************************************************************)
(* The result of copyFilesToBundle is given up when one file fails: the    *)
(* files it has copied are in the directory, and only errors.json is in    *)
(* what Collect returns.                                                   *)
(***************************************************************************)
copyFilesToBundle == Each(Items, doCopy)

CollectHostCopy ==
    Call("glob", "abort") \o If(Quit)
    \o Func(copyFilesToBundle, "pend")
    \o IfErrors(Report("errors.json", "abort") \o Raise("returned with errors.json", "stop"))
    \o All(<<"1", "1/1", "1/2", "2", "2/1", "2/2">>, Add)

getTimeout == If(Call("parse timeout", "fail"))

generateOptions == <<>>

CollectHostJournaldWaiting ==
    Func(getTimeout, "abort") \o generateOptions \o Wait("journalctl", "pend")
    \o Call("marshal", "abort") \o Report("info.json", "skip") \o Save("journald.txt", "skip")

\* the deadline is recorded the same way as the exit status
CollectHostJournald ==
    If(Raise("name required", "abort")) \o Func(getTimeout, "abort") \o Deadline
    \o generateOptions \o Call("journalctl", "pend") \o If(Raise("failed to run", "abort"))
    \o Call("marshal", "abort") \o Report("info.json", "skip") \o Save("journald.txt", "skip")
    \o If(Save("stderr.txt", "skip"))

CollectHostSystemPackages ==
    Call("platform information", "abort") \o If(Raise("unsupported os", "abort"))
    \o Each(Items, LAMBDA p : Call("package manager", "pend") \o If(Raise("failed to run", "abort")))
    \o Call("marshal", "abort") \o Report("packages.json", "skip")

-----------------------------------------------------------------------------
\* network

getDNSConfig == Call("open", "fail") \o Call("parse", "fail")

\* an answer that does not come is in the log alone
queryDNS == Call("query", "skip")
resolveName(h) == Each(Items, LAMBDA domain : queryDNS)
getResolvConf == Call("read resolv.conf", "fail")

CollectHostDNS ==
    If(Raise("hostnames required", "abort")) \o Func(getDNSConfig, "abort")
    \o Each(Items, resolveName) \o SaveFile("dns/result.json")
    \o Func(getResolvConf \o Save("resolv.conf", "skip"), "skip")

(***************************************************************************)
(* The goroutine that accepts connections retries every error: once the    *)
(* listener is closed it does nothing else, unless it has seen the token.  *)
(* The loop of the client is bounded by the timeout of the spec.           *)
(***************************************************************************)
isValidLoadBalancerAddress == If(Raise("invalid address", "fail"))
handleTestConnection == If(Free("accepting goroutine"))
verifyConnectionToServer == If(Return)

checkTCPConnection ==
    isValidLoadBalancerAddress
    \o Hold("listener", "fail") \o Defer("listener") \o Hold("accepting goroutine", "none")
    \o handleTestConnection
    \o Each(Items, LAMBDA try : Call("dial", "fail") \o verifyConnectionToServer)
    \o Raise("connection timeout", "fail")

\* the status is the file, and the error is returned with it
SaveStatus(file) ==
    Call("marshal", "abort")
    \o IfErrors(Report(file, "skip") \o Raise("returned with the file", "stop"))
    \o Save(file, "skip")

CollectHostTCPPortStatus ==
    If(Call("interface", "abort") \o Call("addresses", "abort")) \o Call("local address", "abort")
    \o Func(checkTCPConnection, "pend") \o SaveStatus("tcpPortStatus.json")

CollectHostUDPPortStatus ==
    If(Call("interface", "abort") \o Call("addresses", "abort")) \o Call("local address", "abort")
    \o Func(Hold("socket", "fail") \o Defer("socket"), "pend")
    \o SaveStatus("udpPortStatus.json")

\* the error of the check is shadowed: it is in the file and is not returned
CollectHostTCPLoadBalancer ==
    If(Call("parse timeout", "abort")) \o Func(checkTCPConnection, "pend")
    \o Call("marshal", "abort") \o Report("tcpLoadBalancer.json", "skip")

attemptConnect == Hold("connection", "fail") \o Free("connection")

CollectHostTCPConnect ==
    If(Call("parse timeout", "abort")) \o Func(attemptConnect, "pend") \o SaveStatus("connect.json")

\* with the requests and answers of the cluster's collector
CollectHostHTTP ==
    If(Raise("no supported http request type", "abort"))
    \o Func(If(Call("parse timeout", "fail") \o If(Raise("negative timeout", "fail")))
            \o If(Call("certificate", "fail")) \o Call("new request", "fail")
            \o IfElse(Wait("request", "fail"), Call("request", "fail")) \o Hold("body", "none")
            \o Call("read body", "abort"), "pend")
    \o Call("marshal", "abort") \o Report("result.json", "skip")

(***************************************************************************)
(* The server that is shut down is not the one that listens: the port of   *)
(* http.ListenAndServe stays open.  A goroutine listens while the attempts *)
(* go on, and its error is looked at before each of them: it is lost when  *)
(* it comes after the last look, which an answer, a refused connection or  *)
(* the timeout makes the last one.  Then the status of the last attempt is *)
(* saved, without an error.                                                *)
(***************************************************************************)
attemptPOST ==
    Func(Call("new request", "fail") \o Call("post", "fail") \o Hold("body", "none")
         \o Call("read body", "fail"), "skip")

CollectHostHTTPLoadBalancer ==
    LET attempts == Each(Items, LAMBDA try : attemptPOST)
    IN  If(Call("parse timeout", "abort"))
        \o Func(attempts \o IfElse(Hold("http listener", "fail") \o attempts,
                                   Hold("http listener", "skip")), "pend")
        \o SaveStatus("httpLoadBalancer.json")

CollectHostCertificate ==
    Func(Call("read pair", "fail") \o Call("parse pair", "fail"), "pend")
    \o SaveStatus("certificate.json")

HostCertsParser(path) ==
    Func(Call("read", "fail") \o Call("decode", "fail") \o Call("parse", "fail"), "pend")

CollectHostCertificatesCollection ==
    Each(Items, HostCertsParser) \o Call("marshal", "abort")
    \o Report("certificatesCollection.json", "skip")

parseProcNetRoute == Call("scan", "fail") \o Each(Items, LAMBDA r : Call("parse route", "fail"))

isASubnetAvailableInCIDR ==
    If(Raise("range size", "fail")) \o Each(Items, LAMBDA s : Call("subnet", "fail"))

\* errors.Wrap of a nil error is nil: a bad CIDR returns nil, nil
CollectHostSubnetAvailable ==
    Call("read routes", "abort") \o Func(parseProcNetRoute, "abort")
    \o If(Raise("invalid CIDR", "quit")) \o Call("parse mask", "abort")
    \o If(Raise("invalid CIDR", "quit")) 
    \o Func(isASubnetAvailableInCIDR, "abort") \o SaveFile("subnetAvailable.json")

validateCIDRs ==
    If(Raise("same CIDR", "fail")) \o Call("parse from", "fail") \o Call("parse to", "fail")

\* the namespaces are deleted by deferred calls; what fails is in the file
NewNamespacePinger(ns) == Hold(ns, "fail") \o Defer(ns)
StartEchoServer(server) == Call(server, "pend")
Ping(protocol) == Call(protocol, "pend")

CollectHostNetworkNamespaceConnectivity ==
    Func(validateCIDRs, "abort") \o If(Call("parse timeout", "abort"))
    \o Func(NewNamespacePinger("from") \o NewNamespacePinger("to"), "pend")
    \o IfErrors(Call("marshal", "abort") \o Report("connectivity.json", "skip") \o Quit)
    \o All(<<"udp", "tcp">>, LAMBDA p : StartEchoServer(p \o " server") \o Ping(p \o " ping"))
    \o Call("marshal", "abort") \o Report("connectivity.json", "skip")

-----------------------------------------------------------------------------
\* control groups: what cannot be detected is taken as missing

\* Err() is asked only while there are lines
parseV1ControllerNames == Scan

discoverV1Configuration ==
    Hold("/proc/cgroups", "fail") \o Defer("/proc/cgroups") \o parseV1ControllerNames

detectV2FreezerController ==
    Func(Call("own cgroup", "done") \o If(Hold("freezer cgroup", "done") \o Defer("freezer cgroup"))
         \o Call("stat", "done"), "skip")

attachDummyDeviceFilter ==
    Call("device filter", "fail") \o Hold("devices cgroup", "fail") \o Defer("devices cgroup")
    \o Hold("directory", "fail") \o Defer("directory")
    \o Func(Call("attach", "fail") \o Return, "skip")
    \o If(Call("remove memlock", "fail") \o Call("attach again", "fail"))

detectV2DevicesController == Func(attachDummyDeviceFilter, "skip")

detectV2Controllers ==
    Call("load root", "fail") \o Call("list controllers", "fail")
    \o detectV2FreezerController \o detectV2DevicesController

discoverV2Configuration == detectV2Controllers

discoverConfiguration ==
    Call("statfs", "fail") \o If(Return)
    \o IfElse(discoverV2Configuration,
              IfElse(discoverV1Configuration, Raise("unexpected file system type", "fail")))

CollectHostCGroups ==
    Func(discoverConfiguration, "abort") \o Call("marshal", "abort") \o Save("cgroups.json", "abort")

-----------------------------------------------------------------------------
(***************************************************************************)
(* Filesystem performance.  A file size that is zero, negative or too big  *)
(* returns no command and, again with errors.Wrapf of nil, no error: the   *)
(* goroutine that runs it panics, which ends the process.                  *)
(***************************************************************************)
getFioRuntime == If(Call("parse runTime", "fail"))

parseCollectorOptions ==
    If(Call("parse fileSize", "fail") \o If(Raise("fileSize out of range", "crash")))
    \o If(Raise("directory required", "fail")) \o getFioRuntime

collectFioResults ==
    parseCollectorOptions \o Call("fio", "fail") \o Call("unmarshal", "fail")

\* the jobs delete their files when they are cancelled, before Collect returns
backgroundIOPS(file) == Hold(file, "skip") \o Defer(file)

CollectHostFilesystemPerformance ==
    If(Call("parse timeout", "abort")) \o Call("mkdir", "abort")
    \o If(backgroundIOPS("background-read") \o backgroundIOPS("background-write"))
    \o Func(collectFioResults \o Call("answer in time", "fail"), "abort")
    \o SaveWithStderr("filesystemPerformance.json")
=============================================================================
