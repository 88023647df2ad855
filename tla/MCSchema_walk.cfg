SPECIFICATION FairSpec
CONSTANTS
  Priority <- MCPriority
  Sources <- MCSources
  MaxDepth = 4
  NoAttr = NoAttr
INVARIANTS
  TypeOK
  AnalysableLosesNothing
  NothingUnexamined
  CompilesToSchema
  PriorityReadAlike
  DeclarationOrderKept
  RefusedForCause
PROPERTIES
  Termination
