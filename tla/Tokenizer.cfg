SPECIFICATION Spec
CONSTANTS
  Values <- MCValues
  Contexts = {"c"}
  Bases = {"h"}
  Normal <- MCNormal
  Base <- MCBase
  Variations = 1
  Stamps = {0}
  Files <- MCFiles
  Glob = "glob"
  Round <- MCRound
  Choices <- MCChoices
  MaxSecrets = 2
  RedactFails = TRUE
INVARIANTS
  TypeOK
  MapsAgree
  SecretsKeepApart
  SameSecretSameToken
  RedactionMapIsRight
CHECK_DEADLOCK FALSE
