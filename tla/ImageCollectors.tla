-------------------------- MODULE ImageCollectors --------------------------
(***************************************************************************)
(* The facts about the images of a namespace (pkg/collect/images), with    *)
(* the options both collectors set: go on after errors, read the configs,  *)
(* no credentials.  The goroutines of the images share the cache and the   *)
(* slice of results, each behind its lock and each image in its own slot,  *)
(* so the images are taken one after the other here.                       *)
(***************************************************************************)
EXTENDS CollectorProgram

\* without a token the request goes on without authentication
getDockerHubToken ==
    Hold("token body", "fail") \o Defer("token body") \o Call("token", "fail")

addAuth == If(Func(getDockerHubToken, "skip"))

\* by media type, or by schema version
parseManifest(manifest) == Call(manifest, "fail")

GetManifest(manifest) ==
    addAuth \o Hold(manifest, "fail") \o Defer(manifest)
    \o Call(manifest, "fail") \o parseManifest(manifest)

\* the caller closes the body of a blob, unless the registry refuses it
GetBlob ==
    addAuth \o Hold("blob body", "fail")
    \o If(Free("blob body") \o Raise("no blob", "fail"))

PingRegistry == Hold("ping body", "fail") \o Defer("ping body") \o Call("ping status", "fail")

GetManifestForPlatform(list) == Call(list, "fail")

-----------------------------------------------------------------------------
\* a list that fails is left out, as if it were empty
ExtractImagesFromNamespace ==
    All(<<"pods", "deployments", "daemonsets", "statefulsets">>,
        LAMBDA kind : Call("list images", "skip"))

\* an image that has a digest keeps it; so does one whose digest is not found
ResolveTagToDigest ==
    If(Return) \o GetManifest("manifest of a tag")
    \o IfElse(GetManifestForPlatform("manifest of a tag"), Call("digest", "fail"))

populateConfigFacts ==
    GetBlob \o Defer("blob body") \o Call("read config", "fail") \o Call("parse config", "fail")

\* facts without a config are facts
populateFactsFromManifest == If(Func(populateConfigFacts, "skip"))

handleManifestList == GetManifestForPlatform("manifest list") \o GetManifest("manifest")

collectImageFactsFromRegistry ==
    GetManifest("manifest") \o If(handleManifestList) \o populateFactsFromManifest

(***************************************************************************)
(* Two references may be the same image once they are normalized: the      *)
(* second one is found in the cache.  The error of an image is part of its *)
(* facts.                                                                  *)
(***************************************************************************)
CollectImage ==
    Func(If(Return) \o Func(PingRegistry, "skip") \o Func(collectImageFactsFromRegistry, "note"), "skip")

ResolveBulkTagsToDigests(images) == Each(images, LAMBDA i : Func(ResolveTagToDigest, "skip"))

CollectMultipleImageFacts(images) == Each(images, LAMBDA i : CollectImage)

BuildFactsFromImageReferences(images) ==
    ResolveBulkTagsToDigests(images) \o CollectMultipleImageFacts(images)

CollectNamespaceImageFacts ==
    ExtractImagesFromNamespace \o If(Save("info.txt", "skip") \o Quit)
    \o BuildFactsFromImageReferences(Items)

-----------------------------------------------------------------------------
SaveFacts ==
    Call("marshal", "noteQuit") \o Save("facts.json", "skip") \o Save("summary.txt", "skip")

CollectImageFacts == CollectNamespaceImageFacts \o SaveFacts

\* a data collector whose name says so collects image facts
collectImageFacts == CollectNamespaceImageFacts \o SaveFacts

CollectData == IfElse(collectImageFacts, Save("data", "skip"))
=============================================================================
