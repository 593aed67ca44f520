-------------------------- MODULE AutoDiscoveryProofs --------------------------
(***************************************************************************)
(* Theorems about AutoDiscovery, for any namespaces, flags, KOTS           *)
(* applications and slots of the semaphore, and any number of faults.      *)
(***************************************************************************)
EXTENDS AutoDiscovery, FiniteSetTheorems, TLAPS

\* what is known of the variables besides their types
Discovery ==
    /\ blind \in BOOLEAN /\ late \in BOOLEAN /\ faults \in Nat
    /\ late => faults > 0
    /\ cache \in [granted : SUBSET Resource, refused : SUBSET Resource]
    /\ IsFiniteSet(checking)

\* the namespaces: from the flags to the collectors that are kept
MeansInv ==
    /\ phase = "scan" => asked = Selected(flags)
    /\ phase # "scan" /\ ~blind =>
         requested = asked \/ (requested = {} /\ asked = Namespace)
    /\ phase \notin {"scan", "targets"} /\ ~blind =>
         namespaces = IF asked = {} THEN Namespace ELSE asked

BeforeGenerated == {"scan", "targets", "generate"}

GeneratedInv ==
    /\ phase \in BeforeGenerated => generated = {}
    /\ \A c \in generated :
         /\ c.type \in Checked \union {"data", "imageFacts"}
         /\ c.ns \in Namespace \union {"", "kurl", "default"}
    /\ phase \notin BeforeGenerated => Discovered = namespaces
    /\ kept \subseteq generated

\* a resource is decided when the reviews of its collectors have ended
Decided(c) == collectorToResource(c) \in allowed \union cache.refused

(***************************************************************************)
(* The cache and allowedResources.  An answer is given once, whatever the  *)
(* goroutines' order; a resource is allowed without being granted only     *)
(* where a review has failed.                                              *)
(***************************************************************************)
CacheInv ==
    /\ cache.granted \cap cache.refused = {}
    /\ faults = 0 => allowed \subseteq cache.granted
    /\ phase # "checking" => waiting = {} /\ checking = {}
    /\ phase \in BeforeGenerated \union {"check", "unchecked"} => cache.refused = {}
    /\ phase = "checking" => \A c \in ToCheck \ (waiting \union checking) : Decided(c)

\* what applyRBACFiltering leaves, or all where nothing was checked
FilteredInv ==
    /\ phase \notin {"merge", "done"} => reported = {}
    /\ phase \in {"merge", "done"} =>
         /\ generated \ kept = reported
         /\ \A c \in reported : collectorToResource(c) \in cache.refused
         /\ \/ \A c \in kept : c.type \in Checked => collectorToResource(c) \in allowed
            \/ cache.refused = {}

DiscoveryInv ==
    /\ TypeOK /\ Discovery /\ MeansInv /\ GeneratedInv /\ CacheInv /\ FilteredInv
    /\ KnownCollectorsAreMerged

LEMMA ForgottenIsFlags == Forgotten \in Flags
<1> DEFINE none == [given |-> FALSE, matches |-> {}]
           f == [namespace |-> "", include |-> none, exclude |-> none, system |-> FALSE]
<1>1. none \in Patterns
  BY DEF Patterns
<1>2. f \in Flags
  <2>1. f \in [namespace : Namespace \union {""}, include : Patterns, exclude : Patterns,
              system : BOOLEAN]
    BY <1>1
  <2>2. \A p \in {f.include, f.exclude} : p.given \/ p.matches = {}
    OBVIOUS
  <2>3. f.namespace = ""
    OBVIOUS
  <2> QED BY <2>1, <2>2, <2>3 DEF Flags
<1>3. ~f.include.given /\ ~f.exclude.given /\ f.namespace = "" /\ ~f.system
  OBVIOUS
<1> QED BY <1>2, <1>3 DEF Forgotten

LEMMA ResourceType ==
    ASSUME NEW c, c.ns \in Namespace \union {"", "kurl", "default"}
    PROVE  collectorToResource(c) \in Resource
  BY DEF collectorToResource, Resource

LEMMA DiscoveryInit == Init => DiscoveryInv
<1> SUFFICES ASSUME Init PROVE DiscoveryInv
  OBVIOUS
<1> USE ConstantsAssumption
<1>1. Selected(flags) \subseteq Namespace
  BY DEF Selected
<1>2. IsFiniteSet(checking) /\ Cardinality(checking) = 0
  BY FS_EmptySet DEF Init
<1>3. TypeOK
  BY <1>1, <1>2 DEF Init, TypeOK, ToCheck
<1>4. Discovery
  BY <1>2 DEF Init, Discovery
<1> QED
  BY <1>3, <1>4 DEF Init, DiscoveryInv, MeansInv, GeneratedInv, CacheInv, FilteredInv,
                    BeforeGenerated, KnownCollectorsAreMerged

\* steps before anything is generated
LEMMA NamespaceStep ==
    ASSUME DiscoveryInv, ScanNamespaces \/ ScanFails \/ getTargetNamespaces
    PROVE  DiscoveryInv'
<1> USE ConstantsAssumption
<1>1. /\ UNCHANGED <<asked, generated, late, checkVars, endVars>>
      /\ phase \in {"scan", "targets"} /\ phase' \in {"targets", "generate"}
  BY DEF ScanNamespaces, ScanFails, getTargetNamespaces, scanVars
<1>2. faults' \in Nat /\ faults' >= faults /\ blind' \in BOOLEAN
  <2>1. faults \in Nat /\ blind \in BOOLEAN
    BY DEF DiscoveryInv, Discovery
  <2>2. blind' \in BOOLEAN
    BY <2>1 DEF ScanNamespaces, ScanFails, getTargetNamespaces
  <2>3. faults' = faults \/ faults' = faults + 1
    BY DEF ScanNamespaces, ScanFails, getTargetNamespaces
  <2> QED BY <2>1, <2>2, <2>3
<1>3. generated = {} /\ kept = {} /\ waiting = {} /\ checking = {} /\ cache.refused = {}
  BY <1>1 DEF DiscoveryInv, GeneratedInv, CacheInv, BeforeGenerated
<1>4. flags' \in Flags
  BY ForgottenIsFlags DEF ScanNamespaces, ScanFails, getTargetNamespaces, scanVars,
     DiscoveryInv, TypeOK
<1>5. requested' \subseteq Namespace /\ namespaces' \subseteq Namespace \union {"default"}
  <2>1. CASE ScanNamespaces
    <3>1. flags.namespace \in Namespace \union {""}
      BY DEF DiscoveryInv, TypeOK, Flags
    <3> QED BY <2>1, <3>1 DEF ScanNamespaces, DiscoveryInv, TypeOK
  <2>2. CASE ScanFails \/ getTargetNamespaces
    BY <2>2 DEF ScanFails, getTargetNamespaces, DiscoveryInv, TypeOK, scanVars
  <2> QED BY <2>1, <2>2
<1>6. TypeOK'
  BY <1>1, <1>3, <1>4, <1>5 DEF DiscoveryInv, TypeOK, ToCheck, checkVars
<1>7. Discovery'
  BY <1>1, <1>2 DEF DiscoveryInv, Discovery, checkVars
<1>8. MeansInv'
  <2>1. CASE ScanNamespaces
    <3>1. requested' = asked \/ (requested' = {} /\ asked = Namespace)
      <4>1. asked = Selected(flags)
        BY <2>1 DEF ScanNamespaces, DiscoveryInv, MeansInv
      <4>2. flags \in Flags
        BY DEF DiscoveryInv, TypeOK
      <4>3. CASE flags.namespace # ""
        <5>1. flags.namespace \in Namespace
          BY <4>2, <4>3 DEF Flags
        <5>2. requested' = {flags.namespace}
          BY <2>1, <4>3 DEF ScanNamespaces, Filtered
        <5>3. asked = {flags.namespace}
          BY <4>1, <4>3, <5>1 DEF Selected
        <5> QED BY <5>2, <5>3
      <4>4. CASE Filtered
        <5>1. requested' = {n \in Namespace : shouldIncludeNamespace(n)}
          BY <2>1, <4>4 DEF ScanNamespaces, Filtered
        <5>2. flags.namespace = "" /\ HasPatterns(flags)
          BY <4>4 DEF Filtered
        <5>3. \A n \in Namespace : n \in asked <=> shouldIncludeNamespace(n)
          BY <4>1, <5>2 DEF Selected, shouldIncludeNamespace
        <5>4. asked \subseteq Namespace
          BY DEF DiscoveryInv, TypeOK
        <5> QED BY <5>1, <5>3, <5>4
      <4>5. CASE flags.namespace = "" /\ ~Filtered
        <5>1. ~HasPatterns(flags) /\ requested' = {}
          BY <2>1, <4>5 DEF ScanNamespaces, Filtered
        <5>2. ~flags.include.given /\ ~flags.exclude.given
          BY <5>1 DEF HasPatterns
        <5>3. flags.exclude.matches = {}
          BY <4>2, <5>2 DEF Flags
        <5>4. asked = Namespace
          BY <4>1, <4>5, <5>1, <5>2, <5>3 DEF Selected
        <5> QED BY <5>1, <5>4
      <4> QED BY <4>3, <4>4, <4>5
    <3>2. phase' = "targets" /\ asked' = asked
      BY <2>1 DEF ScanNamespaces
    <3> QED BY <3>1, <3>2 DEF MeansInv
  <2>2. CASE ScanFails
    BY <2>2 DEF ScanFails, MeansInv
  <2>3. CASE getTargetNamespaces
    BY <2>3 DEF getTargetNamespaces, DiscoveryInv, MeansInv, scanVars
  <2> QED BY <2>1, <2>2, <2>3
<1>9. GeneratedInv'
  BY <1>1, <1>3 DEF GeneratedInv, BeforeGenerated, endVars
<1>10. CacheInv'
  BY <1>1, <1>2, <1>3 DEF DiscoveryInv, CacheInv, Discovery, checkVars, BeforeGenerated
<1>11. FilteredInv'
  BY <1>1 DEF DiscoveryInv, FilteredInv, endVars
<1> QED
  BY <1>1, <1>6, <1>7, <1>8, <1>9, <1>10, <1>11 DEF DiscoveryInv, KnownCollectorsAreMerged
LEMMA GenerateStep ==
    ASSUME DiscoveryInv, generateFoundationalCollectors PROVE DiscoveryInv'
<1> USE ConstantsAssumption
<1>1. /\ UNCHANGED <<scanVars, blind, namespaces, late, faults, checkVars, endVars>>
      /\ phase = "generate" /\ phase' \in {"check", "unchecked"}
  BY DEF generateFoundationalCollectors
<1> DEFINE kots(found) == UNION {GenerateKotsCollectors(n, found[n]) :
                                   n \in {m \in KotsNamespace : found[m] # {}}}
           here(images) == UNION {generateNamespacedCollectors(n, NamespacedType \union images) :
                                    n \in namespaces}
<1>2. PICK found \in DetectKotsApplications, images \in SUBSET {"imageFacts"} :
        generated' =
          generateClusterInfoCollectors \union kots(found) \union Standard \union here(images)
  BY DEF generateFoundationalCollectors
<1>3. kept = {} /\ waiting = {} /\ checking = {} /\ cache.refused = {}
  BY <1>1 DEF DiscoveryInv, GeneratedInv, CacheInv, BeforeGenerated
<1>4. namespaces \subseteq Namespace \union {"default"}
  BY DEF DiscoveryInv, TypeOK
<1>5. ASSUME NEW c \in generated'
      PROVE  /\ c.type \in Checked \union {"data", "imageFacts"}
             /\ c.ns \in Namespace \union {"", "kurl", "default"}
             /\ c.source = "foundational" /\ c.ns # "" => c.ns \in namespaces
  <2>1. CASE c \in generateClusterInfoCollectors
    <3>1. PICK t \in {"clusterInfo", "clusterResources"} :
            c = [type |-> t, ns |-> "", source |-> "foundational", name |-> t]
      BY <2>1 DEF generateClusterInfoCollectors, CollectorSpec
    <3>2. c.type = t /\ c.ns = ""
      BY <3>1
    <3> QED BY <3>2 DEF Checked
  <2>2. ASSUME NEW n \in KotsNamespace, c \in GenerateKotsCollectors(n, found[n])
        PROVE  /\ c.type \in Checked \union {"data"} /\ c.ns = n /\ c.source = "kots"
    BY <2>2 DEF GenerateKotsCollectors, CollectorSpec, Checked, generateKotsadmLogsCollector,
       generateKotsDirectoryCollector, generateKotsadmDeploymentCollector,
       generateReplicatedSecretCollector, generateKotsConfigMapCollector
  <2>3. CASE c \in Standard
    <3>1. c \in GenerateStandardKotsCollectors
      BY <2>3
    <3>2. PICK t \in {"configmaps", "secrets", "data"}, ns \in {"", "kurl"},
               name \in {"kurl-current-config", "kurl-last-config", "replicated-registry",
                         "host-preflights"} :
            c = [type |-> t, ns |-> ns, source |-> "kots", name |-> name]
      BY <3>1 DEF GenerateStandardKotsCollectors, generateKurlConfigMapCollectors,
         generateStandardReplicatedSecretCollector, generateKotsHostPreflightCollector,
         CollectorSpec
    <3>3. c.type = t /\ c.ns = ns /\ c.source = "kots"
      BY <3>2
    <3> QED BY <3>3 DEF Checked
  <2>4. ASSUME NEW n \in namespaces,
               c \in generateNamespacedCollectors(n, NamespacedType \union images)
        PROVE  c.type \in Checked \union {"imageFacts"} /\ c.ns = n
    BY <2>4 DEF generateNamespacedCollectors, CollectorSpec, Checked
  <2>5. \/ c \in generateClusterInfoCollectors
        \/ \E n \in KotsNamespace : c \in GenerateKotsCollectors(n, found[n])
        \/ c \in Standard
        \/ \E n \in namespaces : c \in generateNamespacedCollectors(n, NamespacedType \union images)
    <3>1. c \in kots(found) =>
            \E n \in KotsNamespace : c \in GenerateKotsCollectors(n, found[n])
      BY Zenon
    <3>2. c \in here(images) =>
            \E n \in namespaces : c \in generateNamespacedCollectors(n, NamespacedType \union images)
      BY Zenon
    <3> HIDE DEF kots, here
    <3> QED BY <1>2, <3>1, <3>2
  <2>6. CASE \E n \in KotsNamespace : c \in GenerateKotsCollectors(n, found[n])
    BY <2>2, <2>6
  <2>7. CASE \E n \in namespaces : c \in generateNamespacedCollectors(n, NamespacedType \union images)
    BY <1>4, <2>4, <2>7
  <2> QED BY <2>1, <2>3, <2>5, <2>6, <2>7
<1>d. Discovered' = namespaces'
  <2>1. ASSUME NEW n \in namespaces
        PROVE  \E c \in generated' : c.source = "foundational" /\ c.ns # "" /\ c.ns = n
    <3>1. PICK t \in NamespacedType : TRUE
      BY NamesAssumption
    <3> DEFINE c == [type |-> t, ns |-> n, source |-> "foundational", name |-> t]
    <3>2. c \in generateNamespacedCollectors(n, NamespacedType \union images)
      BY <3>1 DEF generateNamespacedCollectors, CollectorSpec
    <3>3. c \in here(images)
      BY <2>1, <3>2, Zenon
    <3>4. c.source = "foundational" /\ c.ns = n
      OBVIOUS
    <3>5. n # ""
      BY <1>4, <2>1, NamesAssumption
    <3> HIDE DEF c, here, kots
    <3>6. c \in generated'
      BY <1>2, <3>3
    <3> QED BY <3>4, <3>5, <3>6
  <2>2. namespaces' = namespaces
    BY <1>1
  <2>3. ASSUME NEW n PROVE n \in Discovered' <=>
                             \E c \in generated' : c.source = "foundational" /\ c.ns # "" /\ c.ns = n
    BY Zenon DEF Discovered
  <2> HIDE DEF here, kots
  <2>4. \A n : n \in Discovered' <=> n \in namespaces'
    <3> SUFFICES ASSUME NEW n PROVE n \in Discovered' <=> n \in namespaces'
      OBVIOUS
    <3>1. n \in Discovered' => n \in namespaces
      <4> SUFFICES ASSUME n \in Discovered' PROVE n \in namespaces
        OBVIOUS
      <4>1. PICK c \in generated' : c.source = "foundational" /\ c.ns # "" /\ c.ns = n
        BY <2>3
      <4>2. c.ns \in namespaces
        BY <1>5, <4>1
      <4> QED BY <4>1, <4>2
    <3>2. n \in namespaces => n \in Discovered'
      BY <2>1, <2>3
    <3> QED BY <2>2, <3>1, <3>2
  <2>5. Discovered' \subseteq namespaces' /\ namespaces' \subseteq Discovered'
    BY <2>4
  <2> QED BY <2>5
<1>6. TypeOK'
  BY <1>1, <1>3 DEF DiscoveryInv, TypeOK, checkVars, scanVars
<1>7. Discovery'
  BY <1>1 DEF DiscoveryInv, Discovery, checkVars
<1>8. MeansInv'
  BY <1>1 DEF DiscoveryInv, MeansInv, scanVars
<1>9. GeneratedInv'
  BY <1>1, <1>3, <1>5, <1>d DEF GeneratedInv, BeforeGenerated, endVars
<1>10. CacheInv'
  BY <1>1, <1>3 DEF DiscoveryInv, CacheInv, checkVars
<1>11. FilteredInv' /\ KnownCollectorsAreMerged'
  BY <1>1 DEF DiscoveryInv, FilteredInv, KnownCollectorsAreMerged, endVars
<1> QED BY <1>6, <1>7, <1>8, <1>9, <1>10, <1>11 DEF DiscoveryInv

(***************************************************************************)
(* Steps during which the namespaces and the collectors stay as they are.  *)
(***************************************************************************)
LEMMA SameCollectors ==
    ASSUME DiscoveryInv,
           UNCHANGED <<scanVars, blind, namespaces, generated, kept>>,
           phase \notin BeforeGenerated, phase' \notin BeforeGenerated
    PROVE  MeansInv' /\ GeneratedInv'
<1>1. MeansInv'
  BY DEF DiscoveryInv, MeansInv, BeforeGenerated, scanVars
<1>2. Discovered' = Discovered
  BY DEF Discovered
<1>3. GeneratedInv'
  BY <1>2 DEF DiscoveryInv, GeneratedInv
<1> QED BY <1>1, <1>3

LEMMA CheckStep ==
    ASSUME DiscoveryInv, NEW c \in waiting \union checking, Check(c)
    PROVE  DiscoveryInv'
<1> USE ConstantsAssumption
<1>0. PICK r : r = collectorToResource(c)
  OBVIOUS
<1>1. /\ UNCHANGED <<phase, scanVars, blind, namespaces, generated, late, endVars>>
      /\ phase = "checking"
  BY DEF Check, CheckPermission, ReviewAnswers, ReviewFails
<1>2. /\ c \in ToCheck /\ c \in generated
      /\ waiting \subseteq ToCheck /\ checking \subseteq ToCheck \ waiting
      /\ ToCheck' = ToCheck
  BY <1>1 DEF DiscoveryInv, TypeOK, ToCheck
<1>3. r \in Resource
  BY <1>0, <1>2, ResourceType DEF DiscoveryInv, GeneratedInv
<1>4. /\ IsFiniteSet(checking) /\ Cardinality(checking) \in Nat
      /\ Cardinality(checking) <= MaxChecks
      /\ allowed \subseteq Resource
      /\ cache \in [granted : SUBSET Resource, refused : SUBSET Resource]
      /\ faults \in Nat /\ (late => faults > 0)
  BY FS_CardinalityType DEF DiscoveryInv, Discovery, TypeOK
<1>5. MeansInv' /\ GeneratedInv'
  BY <1>1, SameCollectors DEF endVars, BeforeGenerated
<1>6. FilteredInv' /\ KnownCollectorsAreMerged'
  BY <1>1 DEF DiscoveryInv, FilteredInv, KnownCollectorsAreMerged, endVars
<1>c. /\ cache.granted \cap cache.refused = {} /\ (faults = 0 => allowed \subseteq cache.granted)
      /\ \A d \in ToCheck \ (waiting \union checking) : Decided(d)
  BY <1>1 DEF DiscoveryInv, CacheInv
<1>7. ASSUME /\ waiting' \subseteq waiting \union {c}
             /\ checking' \subseteq ToCheck \ waiting' /\ checking' \subseteq checking \union {c}
             /\ IsFiniteSet(checking') /\ Cardinality(checking') <= MaxChecks
             /\ allowed' \subseteq allowed \union {r} /\ allowed \subseteq allowed'
             /\ cache' \in [granted : SUBSET Resource, refused : SUBSET Resource]
             /\ cache.refused \subseteq cache'.refused
             /\ faults' \in Nat /\ faults' >= faults /\ (late => faults' > 0)
             /\ cache'.granted \cap cache'.refused = {}
             /\ faults' = 0 => allowed' \subseteq cache'.granted
             /\ waiting \ {c} \subseteq waiting' /\ checking \ {c} \subseteq checking'
             /\ c \notin waiting' \union checking' => r \in allowed' \union cache'.refused
      PROVE  DiscoveryInv'
  <2>1. waiting' \subseteq ToCheck'
    BY <1>2, <1>7
  <2>2. TypeOK'
    BY <1>1, <1>2, <1>3, <1>4, <1>7, <2>1 DEF DiscoveryInv, TypeOK, scanVars
  <2>3. Discovery'
    BY <1>1, <1>7 DEF DiscoveryInv, Discovery
  <2>4. \A d \in ToCheck \ (waiting' \union checking') : Decided(d)'
    <3>1. \A d \in ToCheck \ (waiting' \union checking') :
             d = c \/ d \in ToCheck \ (waiting \union checking)
      BY <1>7
    <3>2. \A d : Decided(d) => Decided(d)'
      BY <1>7 DEF Decided
    <3>3. c \notin waiting' \union checking' => Decided(c)'
      BY <1>0, <1>7 DEF Decided
    <3> QED BY <1>c, <3>1, <3>2, <3>3
  <2>5. CacheInv'
    BY <1>1, <1>2, <1>7, <2>4 DEF CacheInv, BeforeGenerated
  <2> QED BY <1>5, <1>6, <2>2, <2>3, <2>5 DEF DiscoveryInv
<1>8. CASE CheckPermission(c)
  <2>1. /\ c \in waiting /\ waiting' = waiting \ {c} /\ UNCHANGED <<cache, faults>>
        /\ Cardinality(checking) < MaxChecks
        /\ CASE r \in cache.granted -> allowed' = allowed \union {r} /\ UNCHANGED checking
             [] r \in cache.refused -> UNCHANGED <<allowed, checking>>
             [] OTHER               -> checking' = checking \union {c} /\ UNCHANGED allowed
    BY <1>0, <1>8 DEF CheckPermission
  <2>2. CASE r \in cache.granted
    <3>1. allowed' = allowed \union {r} /\ checking' = checking
      BY <1>c, <2>1, <2>2
    <3> QED BY <1>2, <1>3, <1>4, <1>7, <1>c, <2>1, <2>2, <3>1
  <2>3. CASE r \in cache.refused
    <3>1. allowed' = allowed /\ checking' = checking
      BY <1>c, <2>1, <2>3
    <3> QED BY <1>2, <1>3, <1>4, <1>7, <1>c, <2>1, <2>3, <3>1
  <2>4. CASE r \notin cache.granted \union cache.refused
    <3>1. allowed' = allowed /\ checking' = checking \union {c}
      BY <2>1, <2>4
    <3>2. IsFiniteSet(checking') /\ Cardinality(checking') = Cardinality(checking) + 1
      BY <1>2, <1>4, <2>1, <3>1, FS_AddElement
    <3>3. Cardinality(checking') <= MaxChecks
      BY <1>4, <2>1, <3>2
    <3> QED BY <1>2, <1>3, <1>4, <1>7, <1>c, <2>1, <3>1, <3>2, <3>3
  <2> QED BY <2>2, <2>3, <2>4
<1>9. ASSUME c \in checking, checking' = checking \ {c}
      PROVE  IsFiniteSet(checking') /\ Cardinality(checking') <= MaxChecks
  <2>1. IsFiniteSet(checking') /\ Cardinality(checking') = Cardinality(checking) - 1
    BY <1>4, <1>9, FS_RemoveElement
  <2> QED BY <1>4, <2>1
<1>10. CASE ReviewAnswers(c)
  <2>1. /\ c \in checking /\ checking' = checking \ {c} /\ UNCHANGED <<waiting, faults>>
        /\ \/ /\ r \notin cache.refused
              /\ cache' = [cache EXCEPT !.granted = @ \union {r}]
              /\ allowed' = allowed \union {r}
           \/ /\ r \notin cache.granted
              /\ cache' = [cache EXCEPT !.refused = @ \union {r}]
              /\ allowed' = allowed
    BY <1>0, <1>10 DEF ReviewAnswers
  <2>2. IsFiniteSet(checking') /\ Cardinality(checking') <= MaxChecks
    BY <1>9, <2>1
  <2>3. CASE /\ r \notin cache.refused
             /\ cache' = [cache EXCEPT !.granted = @ \union {r}]
             /\ allowed' = allowed \union {r}
    <3>1. cache'.granted = cache.granted \union {r} /\ cache'.refused = cache.refused
      BY <1>4, <2>3
    <3>2. cache' \in [granted : SUBSET Resource, refused : SUBSET Resource]
      BY <1>3, <1>4, <2>3
    <3> QED BY <1>2, <1>4, <1>7, <1>c, <2>1, <2>2, <2>3, <3>1, <3>2
  <2>4. CASE /\ r \notin cache.granted
             /\ cache' = [cache EXCEPT !.refused = @ \union {r}]
             /\ allowed' = allowed
    <3>1. cache'.granted = cache.granted /\ cache'.refused = cache.refused \union {r}
      BY <1>4, <2>4
    <3>2. cache' \in [granted : SUBSET Resource, refused : SUBSET Resource]
      BY <1>3, <1>4, <2>4
    <3> QED BY <1>2, <1>4, <1>7, <1>c, <2>1, <2>2, <2>4, <3>1, <3>2
  <2> QED BY <2>1, <2>3, <2>4
<1>11. CASE ReviewFails(c)
  <2>1. /\ c \in checking /\ checking' = checking \ {c} /\ UNCHANGED <<waiting, cache>>
        /\ allowed' = allowed \union {r} /\ faults' = IF late THEN faults ELSE faults + 1
    BY <1>0, <1>11 DEF ReviewFails
  <2>2. IsFiniteSet(checking') /\ Cardinality(checking') <= MaxChecks
    BY <1>9, <2>1
  <2>3. faults' \in Nat /\ faults' >= faults /\ faults' > 0
    BY <1>4, <2>1
  <2> QED BY <1>2, <1>4, <1>7, <1>c, <2>1, <2>2, <2>3
<1> QED BY <1>8, <1>10, <1>11 DEF Check

LEMMA FilterStep ==
    ASSUME DiscoveryInv,
           \/ FilterByPermissions \/ DeadlinePasses \/ applyRBACFiltering \/ SkipFiltering
           \/ mergeAndDeduplicateCollectors \/ UNCHANGED vars
    PROVE  DiscoveryInv'
<1> USE ConstantsAssumption
<1>1. CASE FilterByPermissions
  <2>1. /\ phase = "check" /\ phase' = "checking" /\ waiting' = ToCheck
        /\ UNCHANGED <<scanVars, blind, namespaces, generated, checking, cache, allowed, late,
                       faults, endVars>>
    BY <1>1 DEF FilterByPermissions
  <2>2. checking = {} /\ ToCheck' = ToCheck
    BY <2>1 DEF DiscoveryInv, CacheInv, ToCheck
  <2>3. TypeOK'
    BY <2>1, <2>2 DEF DiscoveryInv, TypeOK, scanVars
  <2>4. Discovery'
    BY <2>1 DEF DiscoveryInv, Discovery
  <2>5. CacheInv'
    BY <2>1, <2>2 DEF DiscoveryInv, CacheInv, BeforeGenerated
  <2>6. MeansInv' /\ GeneratedInv'
    BY <2>1, SameCollectors DEF endVars, BeforeGenerated
  <2> QED BY <2>1, <2>3, <2>4, <2>5, <2>6 
         DEF DiscoveryInv, FilteredInv, KnownCollectorsAreMerged, endVars
<1>2. CASE DeadlinePasses
  <2>1. /\ phase' = phase /\ late' = TRUE /\ faults' = faults + 1 /\ phase \notin {"merge", "done"}
        /\ UNCHANGED <<scanVars, blind, namespaces, generated, checkVars, endVars>>
    BY <1>2 DEF DeadlinePasses
  <2>2. ToCheck' = ToCheck /\ faults' \in Nat /\ faults' > 0
    BY <2>1 DEF DiscoveryInv, Discovery, ToCheck
  <2>3. TypeOK'
    BY <2>1, <2>2 DEF DiscoveryInv, TypeOK, scanVars, checkVars
  <2>4. Discovery'
    BY <2>1, <2>2 DEF DiscoveryInv, Discovery, checkVars
  <2>5. CacheInv'
    BY <2>1, <2>2 DEF DiscoveryInv, CacheInv, checkVars, Decided
  <2>6. MeansInv'
    BY <2>1 DEF DiscoveryInv, MeansInv, scanVars
  <2>7. GeneratedInv'
    BY <2>1 DEF DiscoveryInv, GeneratedInv, Discovered, endVars
  <2> QED BY <2>1, <2>3, <2>4, <2>5, <2>6, <2>7 
         DEF DiscoveryInv, FilteredInv, KnownCollectorsAreMerged, endVars
<1>3. CASE applyRBACFiltering
  <2>1. /\ phase = "checking" /\ waiting = {} /\ checking = {} /\ phase' = "merge"
        /\ reported' = {c \in ToCheck : collectorToResource(c) \notin allowed}
        /\ kept' = generated \ reported'
        /\ UNCHANGED <<scanVars, blind, namespaces, generated, checkVars, late, faults>>
    BY <1>3 DEF applyRBACFiltering
  <2>2. ToCheck' = ToCheck /\ ToCheck \subseteq generated
    BY <2>1 DEF ToCheck
  <2>3. TypeOK'
    BY <2>1, <2>2 DEF DiscoveryInv, TypeOK, scanVars, checkVars
  <2>4. Discovery'
    BY <2>1 DEF DiscoveryInv, Discovery, checkVars
  <2>5. CacheInv'
    BY <2>1 DEF DiscoveryInv, CacheInv, checkVars, BeforeGenerated
  <2>6. MeansInv'
    BY <2>1 DEF DiscoveryInv, MeansInv, scanVars
  <2>7. GeneratedInv'
    BY <2>1 DEF DiscoveryInv, GeneratedInv, Discovered, BeforeGenerated
  <2>8. FilteredInv'
    <3>1. generated' \ kept' = reported'
      BY <2>1, <2>2
    <3>2. \A c \in reported' : collectorToResource(c) \in cache'.refused
      BY <2>1 DEF DiscoveryInv, CacheInv, Decided, checkVars
    <3>3. \A c \in kept' : c.type \in Checked => collectorToResource(c) \in allowed'
      BY <2>1 DEF ToCheck, checkVars
    <3> QED BY <2>1, <3>1, <3>2, <3>3 DEF FilteredInv
  <2> QED BY <2>1, <2>3, <2>4, <2>5, <2>6, <2>7, <2>8 DEF DiscoveryInv, KnownCollectorsAreMerged
<1>4. CASE SkipFiltering
  <2>1. /\ phase = "unchecked" /\ kept' = generated /\ phase' = "merge"
        /\ UNCHANGED <<scanVars, blind, namespaces, generated, checkVars, late, faults, reported>>
    BY <1>4 DEF SkipFiltering
  <2>2. ToCheck' = ToCheck /\ waiting = {} /\ checking = {} /\ cache.refused = {}
    BY <2>1 DEF ToCheck, DiscoveryInv, CacheInv
  <2>0. reported = {}
    BY <2>1 DEF DiscoveryInv, FilteredInv
  <2>3. TypeOK'
    BY <2>1, <2>2 DEF DiscoveryInv, TypeOK, scanVars, checkVars
  <2>4. Discovery'
    BY <2>1 DEF DiscoveryInv, Discovery, checkVars
  <2>5. CacheInv'
    BY <2>1, <2>2 DEF DiscoveryInv, CacheInv, checkVars, BeforeGenerated
  <2>6. MeansInv'
    BY <2>1 DEF DiscoveryInv, MeansInv, scanVars
  <2>7. GeneratedInv'
    BY <2>1 DEF DiscoveryInv, GeneratedInv, Discovered, BeforeGenerated
  <2>8. FilteredInv'
    BY <2>0, <2>1, <2>2 DEF FilteredInv, checkVars
  <2> QED BY <2>1, <2>3, <2>4, <2>5, <2>6, <2>7, <2>8 DEF DiscoveryInv, KnownCollectorsAreMerged
<1>5. CASE mergeAndDeduplicateCollectors
  <2>1. /\ phase = "merge" /\ phase' = "done" /\ result' = ToTroubleshootCollect(kept \union yaml')
        /\ UNCHANGED <<scanVars, blind, namespaces, generated, checkVars, late, faults, kept, reported>>
    BY <1>5 DEF mergeAndDeduplicateCollectors
  <2>2. ToCheck' = ToCheck
    BY <2>1 DEF ToCheck
  <2>3. TypeOK'
    BY <2>1, <2>2 DEF DiscoveryInv, TypeOK, scanVars, checkVars
  <2>4. Discovery'
    BY <2>1 DEF DiscoveryInv, Discovery, checkVars
  <2>5. CacheInv'
    BY <2>1, <2>2 DEF DiscoveryInv, CacheInv, checkVars, BeforeGenerated
  <2>6. MeansInv' /\ GeneratedInv'
    BY <2>1, SameCollectors DEF BeforeGenerated
  <2>7. FilteredInv'
    BY <2>1 DEF DiscoveryInv, FilteredInv, checkVars
  <2>8. KnownCollectorsAreMerged'
    <3>1. \A c \in kept : c.type # "other"
      BY DEF DiscoveryInv, GeneratedInv, Checked
    <3> QED BY <2>1, <3>1 DEF KnownCollectorsAreMerged, ToTroubleshootCollect, Checked
  <2> QED BY <2>3, <2>4, <2>5, <2>6, <2>7, <2>8 DEF DiscoveryInv
<1>6. CASE UNCHANGED vars
  <2>1. TypeOK' /\ Discovery'
    BY <1>6 DEF vars, DiscoveryInv, TypeOK, Discovery, ToCheck
  <2>2. MeansInv' /\ GeneratedInv'
    BY <1>6 DEF vars, DiscoveryInv, MeansInv, GeneratedInv, Discovered
  <2>3. CacheInv'
    BY <1>6 DEF vars, DiscoveryInv, CacheInv, ToCheck, Decided
  <2>4. FilteredInv' /\ KnownCollectorsAreMerged'
    BY <1>6 DEF vars, DiscoveryInv, FilteredInv, KnownCollectorsAreMerged
  <2> QED BY <2>1, <2>2, <2>3, <2>4 DEF DiscoveryInv
<1> QED BY <1>1, <1>2, <1>3, <1>4, <1>5, <1>6

LEMMA DiscoveryInvariant == Spec => []DiscoveryInv
<1>1. DiscoveryInv /\ [Next]_vars => DiscoveryInv'
  BY NamespaceStep, GenerateStep, CheckStep, FilterStep DEF Next, Done
<1> QED
  BY <1>1, DiscoveryInit, PTL DEF Spec

(***************************************************************************)
(* The answers of the permission reviews decide which collectors are left  *)
(* out, in whatever order the goroutines of FilterByPermissions meet the   *)
(* cache and the semaphore, and however many reviews fail or are cut off   *)
(* by the deadline.                                                        *)
(***************************************************************************)
THEOREM ReviewsDecide == Spec => []PermissionsDecide
<1>1. DiscoveryInv => PermissionsDecide
  <2> SUFFICES ASSUME DiscoveryInv PROVE OnlyRefusedAreLeftOut /\ RefusedAreNotRun
    BY DEF DiscoveryInv, PermissionsDecide
  <2>1. OnlyRefusedAreLeftOut
    BY DEF DiscoveryInv, FilteredInv, OnlyRefusedAreLeftOut
  <2>2. RefusedAreNotRun
    BY DEF DiscoveryInv, FilteredInv, CacheInv, RefusedAreNotRun
  <2> QED BY <2>1, <2>2
<1> QED BY <1>1, DiscoveryInvariant, PTL

(***************************************************************************)
(* ApplyAutoDiscovery, shouldIncludeNamespace and getTargetNamespaces      *)
(* together discover the namespaces the flags select, neither more nor     *)
(* fewer, for every combination of flags: all of them where the flags      *)
(* leave none.                                                             *)
(***************************************************************************)
THEOREM FlagsAreFollowed == Spec => []FlagsDecideNamespaces
<1>1. DiscoveryInv => FlagsDecideNamespaces
  <2> SUFFICES ASSUME DiscoveryInv, ~blind, generated # {}
               PROVE  Discovered = IF asked = {} THEN Namespace ELSE asked
    BY DEF FlagsDecideNamespaces
  <2>1. phase \notin BeforeGenerated
    BY DEF DiscoveryInv, GeneratedInv
  <2> QED BY <2>1 DEF DiscoveryInv, GeneratedInv, MeansInv, BeforeGenerated
<1> QED BY <1>1, DiscoveryInvariant, PTL

(***************************************************************************)
(* mergeAndDeduplicateCollectors and the conversion after it lose no       *)
(* collector of a type that discovery knows.                               *)
(***************************************************************************)
THEOREM MergeLosesNothingKnown == Spec => []KnownCollectorsAreMerged
<1>1. DiscoveryInv => KnownCollectorsAreMerged
  BY DEF DiscoveryInv
<1> QED BY <1>1, DiscoveryInvariant, PTL
=============================================================================
