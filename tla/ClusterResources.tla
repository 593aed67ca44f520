-------------------------- MODULE ClusterResources --------------------------
(***************************************************************************)
(* The cluster resources collector: one list for every kind of resource,   *)
(* of every namespace or of the cluster.  A list that fails is in the      *)
(* errors file of its kind, and the collection goes on.                    *)
(*                                                                         *)
(* The code reads the lists of all namespaces before it saves the first;   *)
(* here every list is saved when it is read.  Reading it and marshalling   *)
(* it are one step: their errors take the same way.  Two namespaces, both  *)
(* with permissions, stand for the ones that are selected.                 *)
(***************************************************************************)
EXTENDS ClusterCollectors

Namespaces == Items

-----------------------------------------------------------------------------
\* the lists: in the code a function each

ByNamespace(kind) ==
    All(Namespaces, LAMBDA ns : OrNext(Call(kind, "pend")) \o Save(kind \o "/" \o ns, "skip"))

OfCluster(kind) == Call(kind, "pend")

\* the version of the API the server has
HasResource(kind) == Call("discover " \o kind, "fail")
OneOf(kind, v1, v1beta) == Func(HasResource(kind) \o IfElse(v1, v1beta), "pend")

getNamespaces == Each(Namespaces, LAMBDA ns : Call("namespace", "pend"))
getNamespace == OfCluster("namespaces")
getAllNamespaces == OfCluster("namespaces")

\* a namespace whose review fails or is not complete is collected all the same
getSelfSubjectRulesReviews ==
    All(Namespaces, LAMBDA ns : OrNext(Call("review", "pend"))
                                \o If(Raise("incomplete review", "pend"))
                                \o Save("auth-cani/" \o ns, "skip"))

pods == ByNamespace("pods")
pdbV1 == ByNamespace("pdb")
pdbV1beta == ByNamespace("pdb")
getPodDisruptionBudgets == OneOf("pdb", pdbV1, pdbV1beta)
services == ByNamespace("services")
deployments == ByNamespace("deployments")
statefulsets == ByNamespace("statefulsets")
daemonsets == ByNamespace("daemonsets")
jobs == ByNamespace("jobs")
cronJobsV1 == ByNamespace("cronjobs")
cronJobsV1beta == ByNamespace("cronjobs")
cronJobs == OneOf("cronjobs", cronJobsV1, cronJobsV1beta)
ingressV1 == ByNamespace("ingress")
ingressV1beta == ByNamespace("ingress")
ingress == OneOf("ingress", ingressV1, ingressV1beta)
networkPolicy == ByNamespace("network-policy")
resourceQuota == ByNamespace("resource-quota")
limitRanges == ByNamespace("limitranges")
events == ByNamespace("events")
pvcs == ByNamespace("pvcs")
roles == ByNamespace("roles")
roleBindings == ByNamespace("rolebindings")
endpoints == ByNamespace("endpoints")
endpointslices == ByNamespace("endpointslices")
serviceAccounts == ByNamespace("serviceaccounts")
leases == ByNamespace("leases")
configMaps == ByNamespace("configmaps")

storageClassesV1 == OfCluster("storage-classes")
storageClassesV1beta == OfCluster("storage-classes")
storageClasses == OneOf("storage-classes", storageClassesV1, storageClassesV1beta)
priorityClassesV1 == OfCluster("priority-class")
priorityClassesV1beta1 == OfCluster("priority-class")
priorityClasses == OneOf("priority-class", priorityClassesV1, priorityClassesV1beta1)
crdsV1 == Call("crd client", "fail") \o OfCluster("custom-resource-definitions")
crdsV1beta == Call("crd client", "fail") \o OfCluster("custom-resource-definitions")
crds == OneOf("custom-resource-definitions", crdsV1, crdsV1beta)
nodes == OfCluster("nodes")
pvs == OfCluster("pvs")
clusterRoles == OfCluster("clusterroles")
clusterRoleBindings == OfCluster("clusterrolebindings")
volumeAttachments == OfCluster("volumeattachments")

apiResources == OfCluster("groups and resources")

(***************************************************************************)
(* Custom resources: the definitions are listed, then the resources of     *)
(* each; the ones of a namespace that is not selected are left out.  Every *)
(* one is kept as JSON and as YAML.                                        *)
(***************************************************************************)
storeCustomResource(name) ==
    OrNext(Call("marshal " \o name, "pend")) \o Save(name \o ".json", "skip") \o Save(name \o ".yaml", "skip")

crsOf(crd) ==
    OrNext(Call("list " \o crd, "pend"))
    \o If(IfElse(storeCustomResource(crd),
                 If(Raise("object without a namespace", "pend")) \o storeCustomResource(crd \o "/ns")))

crsV1 == Call("list definitions", "fail") \o All(<<"crd">>, crsOf)
crsV1beta == Call("list definitions", "fail") \o All(<<"crd">>, crsOf)
crs == OneOf("crs", Call("crd client", "fail") \o crsV1, Call("crd client", "fail") \o crsV1beta)

\* the secrets of one type; the last of several registries is kept
imagePullSecrets ==
    All(Namespaces, LAMBDA ns :
        OrNext(Call("secrets", "pend"))
        \o If(OrNext(Call("unmarshal", "pend")) \o OrNext(Call("decode", "pend"))
              \o Save("image-pull-secrets/" \o ns, "skip")))

\* a secret that is missing or malformed is no error
replicatedLicense ==
    All(Namespaces, LAMBDA ns :
        OrNext(Call("replicated secret", "skip")) \o OrNext(Call("license", "skip"))
        \o Save("license.json", "skip") \o Break)

-----------------------------------------------------------------------------
Errors(kind) == IfErrors(Report(kind \o "-errors.json", "skip"))

\* the file of a kind is saved, empty, when the list fails
Saved(kind, list) == list \o Save(kind, "skip") \o Errors(kind)

(***************************************************************************)
(* The lists of replica sets are saved in a directory with the name of the *)
(* errors file of stateful sets.  SaveResult has entered the key when the  *)
(* directory cannot be made.                                               *)
(***************************************************************************)
SaveReplicaSets(ns) ==
    IfFile("statefulsets-errors.json",
           Key("statefulsets-errors.json/" \o ns) \o OrNext(Raise("not a directory", "skip")))
    \o Save("statefulsets-errors.json/" \o ns, "skip")

replicasets == All(Namespaces, LAMBDA ns : OrNext(Call("replicasets", "pend")) \o SaveReplicaSets(ns))

UnhealthyPods ==
    If(All(<<"container">>, LAMBDA c : FuncOrNext(savePodLogs(c), "note") \o Add(c)))

(***************************************************************************)
(* Collect goes through the kinds in this order.  They share the clients   *)
(* and the names of the namespaces, and nothing else but the directory:    *)
(* the five parts are run as programs of their own.                        *)
(***************************************************************************)
Clients == Call("client", "abort") \o Call("dynamic client", "abort")

NamespacesAndPods ==
    Clients \o Saved("namespaces", IfElse(getNamespaces, IfElse(getNamespace, getAllNamespaces)))
    \o getSelfSubjectRulesReviews \o Errors("auth-cani")
    \o pods \o Errors("pods") \o UnhealthyPods
    \o getPodDisruptionBudgets \o Errors("pdb")

Workloads ==
    Clients \o services \o Errors("services")
    \o deployments \o Errors("deployments") \o statefulsets \o Errors("statefulsets")
    \o daemonsets \o Errors("daemonsets") \o replicasets \o Errors("replicasets")
    \o jobs \o Errors("jobs") \o cronJobs \o Errors("cronjobs") \o ingress \o Errors("ingress")
    \o networkPolicy \o Errors("network-policy") \o resourceQuota \o Errors("resource-quota")

ClassesAndCustomResources ==
    Clients \o Saved("storage-classes", storageClasses) \o Saved("priority-class", priorityClasses)
    \o Saved("custom-resource-definitions", crds) \o crs \o Errors("custom-resources")
    \o imagePullSecrets \o Errors("image-pull-secrets") \o Saved("nodes", nodes)
    \o apiResources \o Save("groups", "skip") \o Save("resources", "skip")
    \o Errors("groups-resources")

VolumesAndRoles ==
    Clients \o limitRanges \o Errors("limitranges") \o events \o Errors("events")
    \o Saved("pvs", pvs) \o pvcs \o Errors("pvcs") \o roles \o Errors("roles")
    \o roleBindings \o Errors("rolebindings") \o Saved("clusterroles", clusterRoles)
    \o Saved("clusterrolebindings", clusterRoleBindings)

AccountsAndConfigMaps ==
    Clients \o endpoints \o Errors("endpoints") \o endpointslices \o Errors("endpointslices")
    \o serviceAccounts \o Errors("serviceaccounts") \o leases \o Errors("leases")
    \o Saved("volumeattachments", volumeAttachments) \o configMaps \o Errors("configmaps")
    \o replicatedLicense

CollectClusterResources ==
    [namespaces |-> NamespacesAndPods, workloads |-> Workloads,
     classes |-> ClassesAndCustomResources, volumes |-> VolumesAndRoles,
     accounts |-> AccountsAndConfigMaps]
=============================================================================
