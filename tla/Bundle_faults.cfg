SPECIFICATION Spec
CONSTANTS
  h1 = h1
  f1 = f1
  f2 = f2
  e1 = e1
  t1 = t1
  l1 = l1
  s1 = s1
  HostFiles = {h1}
  ClusterFiles = {f1, t1}
  Reports = {h1}
  Tars = {t1}
  Links = {l1}
  LinkTo <- MCLinkTo
  Summary = s1
  MaxRedactors = 2
  Redact = TRUE
  FromCLI = FALSE
  FaultSets = {{"collector", "save", "redact", "upload"}, {"save", "redact", "replace", "step", "archive", "upload"}}
INVARIANTS
  TypeOK
  NilMeansRedacted
  CleanBundle
  DirectoryGone
PROPERTIES
  ImplementsContract
CHECK_DEADLOCK FALSE
