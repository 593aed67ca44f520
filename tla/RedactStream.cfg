SPECIFICATION FairSpec
CONSTANTS
  Chains <- MCChains
  Inputs <- MCLongInputs
  ReadFails = TRUE
  MaxLines = 4
INVARIANTS
  SecretsAreMasked
  LinesKeepTheirPlaces
  ErrorsReachTheCaller
PROPERTIES
  ChainEnds
CHECK_DEADLOCK FALSE
