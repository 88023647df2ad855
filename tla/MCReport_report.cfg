SPECIFICATION Spec
CONSTANTS
  Letter <- MCLetter
  Constraint <- MCConstraint
  Depth <- MCDepth
  Value <- MCValue
  MantissaBits = 3
  Int64Limit = 16
  MaxFallbackDepth = 3
  BuiltinCode <- BuiltinErrorCodes
  Lower <- MCLower
  Scenes <- MCScenes
INVARIANTS
  TypeOK
  FastPathAgrees
  VerdictSurvivesConversion
  EveryElementJudged
  
  LocalizedAsIntended
  ValidatedChainReads
