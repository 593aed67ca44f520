CONSTANTS
  Analyzer <- MCAnalyzer
  Program <- MCProgram
  RuleOf <- MCRuleOf
  SpecOutcome <- MCSpecOutcome
  MaxOutcomes = 2
  Exclusive = {"bool", "text", "event", "hostContainsIP"}
  Implying = {"bool", "text"}
  Leveled = {"ceph", "cephWord", "cephLevel"}
  Guessing = {"nodeResourcesTerm", "cephLevel", "hostCpuFeatures", "hostServicesState", "kernelModulesStatus"}
  Listing = {"validCertificate", "expiredCertificate", "containerStatus", "kernelModules", "kernelModulesStatus"}
  Ignoring <- MCIgnoring
  Forgiving <- MCForgiving
  Trusting <- MCTrusting
  Undecided <- MCUndecided
  Unclear <- MCUnclear
  Panicking <- MCPanicking
SPECIFICATION Spec
INVARIANTS
  OutcomesDecide
  LostIsNotPassed
  VerdictIsGiven
  NothingPanics
