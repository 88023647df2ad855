SPECIFICATION Spec
CONSTANTS
  Path <- MCPath
  Element <- MCElement
  Below <- MCBelow
  Root = ""
  Priority <- MCPriority
  MaxInt = 9
  Schemas <- NegativeSchema
  NoOutput = NoOutput
  MaxFieldErrors = 2
INVARIANTS FailedGroupIsLast
