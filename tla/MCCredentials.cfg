CONSTANTS
  Path <- MCPath
  Var <- MCVar
  Value = {"token"}
  Unset = "unset"
  Context <- MCContext
  Token <- MCToken
  MaxDepth = 2
SPECIFICATION Spec
INVARIANTS TypeOK HiddenInBody CredentialsAsFound NoTokenLeft
PROPERTIES FoundTokenKept
