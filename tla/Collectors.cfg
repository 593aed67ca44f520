CONSTANTS
  Collector <- MCCollector
  Program <- MCProgram
  MaxFaults = 2
  Dropping <- MCDropping
  Silent <- MCSilent
  Leaking <- MCLeaking
  Keyless = {"workloads"}
  Leftover <- MCLeftover
  Endless <- MCEndless
SPECIFICATION Spec
INVARIANTS
  ResultsMatchFiles
  FailureIsSeen
  NothingLeaks
PROPERTIES
  Returns
