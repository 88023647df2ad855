SPECIFICATION Spec
CONSTANTS
  Path <- MCPath
  Element <- MCElement
  Below <- MCBelow
  Root = ""
  Priority <- MCPriority
  MaxInt = 9
  Schemas <- NestedSchema
  NoOutput = NoOutput
  MaxFieldErrors = 2
INVARIANTS NoRuleAboveFailedField
