SPECIFICATION FairSpec
CONSTANTS
  Path <- MCPath
  Element <- MCElement
  Below <- MCBelow
  Root = ""
  Priority <- MCPriority
  MaxInt = 9
  Schemas <- AllSchemas
  NoOutput = NoOutput
  MaxFieldErrors = 2
INVARIANTS
  TypeOK
  ErrorsIffInvalid
  InvalidHasNoOutput
  FailFastReportsFirst
  CUEPrefixStable
  NarrowedToLowestGroup
  NoRuleOnFailedField
  OneFailedGroup
  EveryRuleAccounted
  LoopStateInLockstep
  MetricsMatchResult
PROPERTIES
  FieldFailFast
  ImplementsGate
  Termination
