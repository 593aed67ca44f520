---------------------------- MODULE SpecLoading ----------------------------
(***************************************************************************)
(* Where the specs of a run come from: arguments, secrets and config maps, *)
(* files, URLs, registries, and the URIs that specs refer to.  A source    *)
(* that cannot be read ends the command, or is left out with a warning     *)
(* ("skip"): the run goes on without its collectors and its redactors.     *)
(***************************************************************************)
EXTENDS CollectorProgram

(***************************************************************************)
(* A request whose certificate is refused is repeated once the user agrees *)
(* to skip the verification; the second attempt does not verify.           *)
(***************************************************************************)
Attempts == <<"verified", "insecure">>
shouldRetryRequest(attempt) ==
    IF attempt = "verified" THEN If(OrNext(Instr("goto", "", "none"))) ELSE <<>>

\* the body of an answer that is refused stays open
loadSpecFromURL ==
    All(Attempts, LAMBDA attempt :
        Call("make request", "fail") \o shouldRetryRequest(attempt)
        \o Hold("spec body", "fail") \o If(Raise("no spec there", "fail"))
        \o Defer("spec body") \o Call("read spec", "fail") \o Break)

parseURI ==
    Call("parse uri", "fail") \o If(Raise("not oci", "fail")) \o Call("image reference", "fail")

pullFromOCI(spec) ==
    Call("auth client", "fail") \o Call("resolver", "fail") \o parseURI
    \o Call(spec, "fail") \o If(Raise("descriptors", "fail")) \o If(Raise("no descriptor", "fail"))

\* once there is a preflight, the support bundle may be missing
PullSpecsFromOCI ==
    IfElse(pullFromOCI("preflight") \o Func(pullFromOCI("support bundle"), "skip"),
           pullFromOCI("support bundle"))

loadSpec ==
    IfElse(Call("read file", "fail"),
           Call("parse url", "fail")
           \o IfElse(pullFromOCI("support bundle"), If(Raise("not a url", "fail")) \o loadSpecFromURL))

LoadSupportBundleSpec ==
    IfElse(If(Raise("secret path", "fail")) \o Call("get secret", "fail"), loadSpec)

LoadRedactorSpec ==
    IfElse(If(Raise("config map path", "fail")) \o Call("get config map", "fail"), loadSpec)

-----------------------------------------------------------------------------
toRedactGVK == Call("convert redactor", "fail") \o Call("decode redactor", "fail")

GetRedactorFromURI == LoadRedactorSpec \o toRedactGVK \o If(Raise("not a redactor", "fail"))

GetRedactorsFromURIs == Each(Items, LAMBDA uri : GetRedactorFromURI)

ParseDocument == Call("convert", "fail") \o Call("decode", "fail") \o If(Raise("not a bundle", "fail"))

\* the spec that a spec refers to takes its place, unless it cannot be loaded
ParseSupportBundle ==
    ParseDocument \o If(Func(LoadSupportBundleSpec, "done") \o Func(ParseDocument, "done"))

GetSupportBundleFromURI == Func(LoadSupportBundleSpec, "abort") \o Func(ParseSupportBundle, "abort")

CollectSupportBundleFromURI ==
    GetSupportBundleFromURI \o Func(GetRedactorsFromURIs, "abort")
    \o Call("collect support bundle", "abort")

-----------------------------------------------------------------------------
loadV1Beta3Spec ==
    Call("decode v1beta3", "fail") \o If(Raise("client required", "fail"))
    \o Call("resolve references", "fail") \o If(Raise("v1beta3 kind", "fail"))

\* as the commands call it, without Strict
loadFromSplitDocs(docs) ==
    Each(docs, LAMBDA doc :
        IfElse(loadV1Beta3Spec,
               OrNext(Call("convert document", "skip")) \o OrNext(Call("decode document", "skip"))
               \o If(Raise("unknown kind", "fail"))))

loadFromStrings(docs) ==
    Each(docs, LAMBDA doc :
        OrNext(Call("parse yaml", "skip")) \o If(Call("decode secret or config map", "skip")))
    \o loadFromSplitDocs(docs)

LoadSpecs(docs) == loadFromStrings(docs)

downloadFromHttpURL ==
    Call("make request", "fail") \o Hold("answer", "fail") \o Defer("answer") \o Call("read answer", "fail")

\* without permissions the namespaces are searched one by one
namespacesToSearch ==
    If(Call("access review", "fail")
       \o If(IfElse(Call("list namespaces", "fail"), Call("namespace of kubeconfig", "fail"))))

LoadFromCluster ==
    Call("parse selector", "fail") \o namespacesToSearch \o Call("split selector", "skip")
    \o Each(Items, LAMBDA ns : Call("search secrets", "skip") \o Call("search config maps", "skip"))
    \o LoadSpecs(<<"1">>)

LoadArgument ==
    IfElse(If(Raise("path", "fail")) \o Call("get secret or config map", "fail"),
    IfElse(Call("read file or stdin", "fail"),
    Call("parse url", "fail")
    \o IfElse(PullSpecsFromOCI,
              If(Raise("not a url", "fail"))
              \o FuncOrNext(downloadFromHttpURL \o LoadSpecs(<<"1">>), "skip"))))

\* what the cluster has is needed only if there is nothing else
LoadFromCLIArgs ==
    Func(Each(<<"1">>, LAMBDA arg : LoadArgument) \o LoadSpecs(Items)
         \o If(IfElse(LoadFromCluster, Func(LoadFromCluster, "skip"))), "abort")

loadSupportBundleSpecsFromURIs ==
    Each(Items, LAMBDA spec :
        If(FuncOrNext(LoadSupportBundleSpec, "skip") \o FuncOrNext(LoadSpecs(<<"1">>), "skip")
           \o If(Raise("no support bundle there", "skip"))))

LoadAdditionalSpecFromURIs ==
    Each(Items, LAMBDA spec :
        If(FuncOrNext(downloadFromHttpURL, "skip") \o FuncOrNext(LoadSpecs(<<"1">>), "skip")
           \o If(Raise("no spec of that type", "skip"))))
=============================================================================
