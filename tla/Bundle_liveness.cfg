SPECIFICATION FairSpec
CONSTANTS
  h1 = h1
  f1 = f1
  f2 = f2
  e1 = e1
  t1 = t1
  l1 = l1
  s1 = s1
  HostFiles = {}
  ClusterFiles = {f1, t1}
  Reports = {}
  Tars = {t1}
  Links = {l1}
  LinkTo <- MCLinkTo
  Summary = s1
  MaxRedactors = 2
  Redact = TRUE
  FromCLI = TRUE
  FaultSets = {{}, {"collector", "stat"}, {"redact"}}
PROPERTIES
  EverythingEnds
  BundleDelivered
CHECK_DEADLOCK FALSE
