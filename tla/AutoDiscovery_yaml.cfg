CONSTANTS
  Namespace = {"app", "kube-system"}
  System = {"kube-system"}
  NamespacedType = {"secrets"}
  KotsNamespace = {"app"}
  KotsPart = {"secrets"}
  Standard <- OneStandard
  YamlType = {"logs", "other"}
  MaxChecks = 2
  MaxFaults = 1

SPECIFICATION Spec

INVARIANTS
  YamlCollectorsAreKept
