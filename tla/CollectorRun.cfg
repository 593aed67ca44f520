CONSTANTS
  MaxCollectors = 2
  Namespaces = {"*", "a", "b"}
  Requests <- RequestLists
SPECIFICATION Spec
INVARIANTS
  CopiesRunLast
  NothingIsUnanswered
  PreflightIsStrict
  NamesHaveFiles
