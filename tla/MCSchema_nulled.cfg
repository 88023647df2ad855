SPECIFICATION Spec
CONSTANTS
  Priority <- MCPriority
  Sources <- Nulled
  MaxDepth = 4
  NoAttr = NoAttr
INVARIANTS EveryAttributeCounts
