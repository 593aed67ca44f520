------------------------------ MODULE Commands ------------------------------
(***************************************************************************)
(* The commands around a collection: support-bundle run, upload, diff,     *)
(* analyze and the update of the binary.  Printing is left out; an error   *)
(* that is only printed ("skip", "quit") leaves the exit code at zero.     *)
(***************************************************************************)
EXTENDS SpecLoading

\* an error ends the function; what it has to undo before it returns comes first
Undo(objects, what) == If(FlattenSeq([n \in DOMAIN objects |-> Free(objects[n])]) \o Raise(what, "fail"))

-----------------------------------------------------------------------------
getLatestTag ==
    Hold("release", "fail") \o Defer("release") \o Call("read release", "fail") \o Call("tag name", "fail")

isNewer == Call("parse versions", "fail")

detectPackageManager ==
    All(<<"brew", "krew">>, LAMBDA manager : OrNext(Call("package manager", "skip")) \o If(Quit))

download ==
    Call("new request", "fail") \o Hold("asset", "fail") \o Undo(<<"asset">>, "bad status")

extractSingleBinary ==
    Call("gzip", "fail")
    \o Each(Items, LAMBDA entry :
            Call("tar header", "fail")
            \o If(Hold("extracted", "fail") \o Undo(<<"extracted">>, "copy") \o Return))
    \o Raise("no such binary", "fail")

sanityCheckBinary ==
    Call("stat", "fail") \o If(Raise("empty file", "fail"))
    \o Hold("binary", "fail") \o Defer("binary") \o Call("hash", "fail")

(***************************************************************************)
(* The binary is moved to a backup before the new one takes its place; if  *)
(* that fails the backup is moved back, and whether this works is not      *)
(* looked at.  The extracted file is removed but after a failed check.     *)
(***************************************************************************)
ReplaceBinary ==
    If(Free("extracted") \o Raise("move away", "quit"))
    \o Hold("backup", "none")
    \o If(If(Free("backup")) \o Free("extracted") \o Raise("move into place", "quit"))
    \o Free("extracted") \o If(Free("backup"))

CheckAndUpdate ==
    If(Quit) \o Func(getLatestTag, "quit") \o Func(isNewer, "quit") \o If(Quit)
    \o detectPackageManager
    \o Func(download, "abort") \o Defer("asset") \o Func(extractSingleBinary, "abort")
    \o Func(sanityCheckBinary, "abort") \o ReplaceBinary

-----------------------------------------------------------------------------
FindBundleRootDir ==
    Hold("root", "fail") \o Defer("root") \o Call("read names", "fail") \o If(Raise("empty bundle", "fail"))

ExtractTroubleshootBundle ==
    Call("gzip reader", "fail")
    \o Each(Items, LAMBDA entry :
            Call("tar entry", "fail") \o Call("mkdir", "fail")
            \o IfElse(Hold("entry", "fail") \o Undo(<<"entry">>, "extract file") \o Free("entry"),
                      If(Call("symlink", "fail"))))

downloadTroubleshootBundle ==
    IfElse(Hold("archive", "fail") \o Defer("archive"),
           Call("workdir", "fail") \o Hold("download", "fail") \o Defer("download")
           \o Call("get file", "fail") \o Hold("archive", "fail") \o Defer("archive"))
    \o ExtractTroubleshootBundle

\* an error removes the directory that the caller would remove
DownloadAndExtractSupportBundle ==
    Hold("bundle directory", "abort")
    \o Func(downloadTroubleshootBundle \o FindBundleRootDir \o Call("version file", "fail"), "pend")
    \o IfErrors(Free("bundle directory") \o Raise("no bundle", "abort"))

parseAnalyzers ==
    Call("convert analyzers", "fail") \o Call("decode analyzers", "fail")
    \o If(Raise("kind of analyzers", "fail"))

\* the errors of host analyzers are results
AnalyzeLocal ==
    Func(FindBundleRootDir, "abort") \o Each(Items, LAMBDA a : Call("analyzer", "skip"))
    \o Each(Items, LAMBDA a : Call("host analyzer", "note"))

DownloadAndAnalyze ==
    DownloadAndExtractSupportBundle \o Defer("bundle directory")
    \o Func(parseAnalyzers, "abort") \o AnalyzeLocal

ReadAnalyzerSpec ==
    IfElse(Call("read analyzers", "fail"),
           If(Raise("not a url", "fail")) \o Call("analyzers request", "fail")
           \o Hold("analyzers", "fail") \o Defer("analyzers") \o Call("read analyzers", "fail"))

runLegacyAnalysis == Func(ReadAnalyzerSpec, "abort") \o DownloadAndAnalyze

-----------------------------------------------------------------------------
loadSupportBundle ==
    If(Raise("not found", "fail")) \o Hold("archive", "fail") \o Defer("archive")
    \o Call("gzip reader", "fail")
    \o Each(Items, LAMBDA entry : Call("tar entry", "fail") \o If(Call("read entry", "fail")))

loadAnalyzerSpecs == ReadAnalyzerSpec \o Call("parse analyzers", "fail")

PullModel == Call("ollama runs", "fail") \o Wait("pull model", "fail")

downloadAndInstallWindows ==
    Hold("installer", "fail") \o Defer("installer") \o Hold("installer body", "fail")
    \o Defer("installer body") \o If(Raise("installer status", "fail"))
    \o Call("write installer", "fail") \o Call("close installer", "fail") \o Wait("installer", "fail")

installMacOS == Call("brew", "fail") \o Wait("brew install", "fail")

DownloadAndInstall ==
    If(Raise("installed", "fail"))
    \o IfElse(installMacOS, IfElse(downloadAndInstallWindows,
              IfElse(Wait("install script", "fail"), Raise("platform", "fail"))))

StartService ==
    If(Raise("not installed", "fail")) \o If(Return)
    \o Call("ollama serve", "fail") \o If(Raise("service is not up", "fail"))

handleOllamaSetup ==
    If(Func(DownloadAndInstall, "abort")) \o If(Func(StartService, "abort")) \o If(Func(PullModel, "abort"))

handlePullModel ==
    If(Raise("not installed", "abort")) \o If(Raise("service is not up", "abort")) \o Func(PullModel, "abort")

registerOllamaAgent ==
    If(Raise("ollama setup required", "fail")) \o If(PullModel)
    \o Call("new agent", "fail") \o Call("register agent", "fail")

displayAdvancedResults ==
    If(Raise("no results", "fail")) \o If(Call("marshal results", "fail")) \o If(Call("write results", "fail"))

runAdvancedAnalysis ==
    Each(Items, LAMBDA agent :
         IfElse(Func(registerOllamaAgent, "abort"), If(Call("register local agent", "abort"))))
    \o If(Raise("no agents", "abort")) \o Func(loadSupportBundle, "abort")
    \o If(Func(loadAnalyzerSpecs, "abort")) \o Call("analysis", "abort")
    \o Func(displayAdvancedResults, "abort")

-----------------------------------------------------------------------------
(***************************************************************************)
(* After the collection.  The answers to uploads are not closed.  An       *)
(* action that fails ends the others, and the uploads that were made are   *)
(* reported as not made.                                                   *)
(***************************************************************************)
SendArchive ==
    All(Attempts, LAMBDA attempt :
        Hold("archive", "fail") \o Defer("archive") \o Call("stat archive", "fail")
        \o Call("upload request", "fail") \o shouldRetryRequest(attempt)
        \o Hold("answer", "fail") \o Call("status of upload", "fail") \o Break)

SendReport ==
    Call("marshal redactions", "fail")
    \o All(Attempts, LAMBDA attempt :
           Call("report request", "fail") \o shouldRetryRequest(attempt)
           \o Hold("answer", "fail") \o Call("status of report", "fail") \o Break)

uploadSupportBundle == If(Raise("content type", "fail")) \o SendArchive \o If(SendReport)

callbackSupportBundleAPI ==
    All(Attempts, LAMBDA attempt :
        Call("callback request", "fail") \o shouldRetryRequest(attempt)
        \o Hold("callback", "fail") \o Defer("callback") \o Call("status of callback", "fail") \o Break)

ProcessSupportBundleAfterCollection ==
    Each(Items, LAMBDA action :
         IfElse(Func(uploadSupportBundle, "abort"), If(Func(callbackSupportBundleAPI, "abort"))))

ExtractLicenseFromBundle ==
    Hold("archive", "fail") \o Defer("archive") \o Call("gzip reader", "fail")
    \o Each(Items, LAMBDA entry :
            Call("tar entry", "fail") \o If(OrNext(Call("read entry", "skip")) \o If(Return)))

UploadToReplicatedApp ==
    Hold("archive", "fail") \o Defer("archive") \o Call("stat archive", "fail")
    \o Call("upload request", "fail") \o Hold("app answer", "fail") \o Defer("app answer")
    \o Call("status of upload", "fail")

UploadBundleAutoDetect ==
    Func(ExtractLicenseFromBundle, "fail") \o If(Raise("no license", "fail"))
    \o If(Raise("no app slug", "fail")) \o UploadToReplicatedApp

-----------------------------------------------------------------------------
validateBundleFile ==
    If(Raise("empty path", "fail")) \o If(Raise("not found", "fail")) \o If(Raise("format", "fail"))

\* a file that ends too early is taken as it is
buildInventoryFromTarGz ==
    Hold("archive", "fail") \o Defer("archive") \o Call("gzip reader", "fail")
    \o Each(Items, LAMBDA entry :
            Call("tar entry", "fail")
            \o If(IfElse(Raise("truncated", "skip"), Call("read content", "fail"))))

\* the archive is closed and opened again before the file is read
createTarFileReader(reader) ==
    Hold(reader, "fail") \o Undo(<<reader>>, "gzip of a file") \o Undo(<<reader>>, "entry of a file")
    \o Undo(<<reader>>, "not text") \o Free(reader)
    \o Hold(reader, "fail") \o Undo(<<reader>>, "second pass") \o Defer(reader)

generateStreamingUnifiedDiff ==
    createTarFileReader("old file") \o createTarFileReader("new file")
    \o Call("read lines", "fail") \o Call("unified diff", "fail")

performBundleDiff ==
    buildInventoryFromTarGz \o buildInventoryFromTarGz
    \o Each(<<"1">>, LAMBDA change : Func(generateStreamingUnifiedDiff, "skip"))

outputDiffResult == If(Call("marshal diff", "fail")) \o If(Save("diff", "fail"))

runBundleDiff ==
    Func(validateBundleFile \o validateBundleFile \o performBundleDiff \o outputDiffResult, "abort")

-----------------------------------------------------------------------------
\* the specs are loaded by LoadFromCLIArgs and loadSupportBundleSpecsFromURIs
loadSpecs == Call("specs of arguments", "fail") \o If(Raise("no collectors", "fail"))

DryRun == Call("to yaml", "abort") \o Quit

\* a failed upload is printed
runTroubleshoot ==
    Call("rest config", "abort") \o Call("client", "abort") \o Func(loadSpecs, "abort")
    \o Call("discovery flags", "abort") \o Call("tokenization flags", "abort")
    \o If(Call("auto-discovery", "abort")) \o If(DryRun) \o If(Call("since", "abort"))
    \o If(Quit)
    \o Hold("progress", "none") \o Defer("progress")
    \o Call("collect support bundle", "abort")
    \o If(Call("show results", "skip"))
    \o If(Func(UploadBundleAutoDetect, "skip") \o Quit)
    \o If(Call("format output", "abort"))

CommandPrograms ==
    [checkAndUpdate |-> CheckAndUpdate, analyze |-> runLegacyAnalysis,
     analyzeAdvanced |-> runAdvancedAnalysis, ollamaSetup |-> handleOllamaSetup,
     ollamaPull |-> handlePullModel, afterCollection |-> ProcessSupportBundleAfterCollection,
     upload |-> Func(UploadBundleAutoDetect, "abort"), diff |-> runBundleDiff,
     runTroubleshoot |-> runTroubleshoot, fromURI |-> CollectSupportBundleFromURI,
     fromArguments |-> LoadFromCLIArgs, bundlesFromURIs |-> loadSupportBundleSpecsFromURIs,
     specsFromURIs |-> LoadAdditionalSpecFromURIs]
=============================================================================
