SPECIFICATION Spec
CONSTANTS
  c1 = c1
  c2 = c2
  c3 = c3
  s1 = s1
  Name <- MCName
  Schema <- MCSchema
  Broken = Broken
  Caller <- ThreeCallers
  Op <- AllOps
  Absent = Absent
  NoOne = NoOne
  Shared = Shared
  GivenOpts <- MCGivenOpts
SYMMETRY ThreeInterchangeable
INVARIANTS
  TypeOK
  NoConcurrentMapAccess
  BuiltUnderOwnName
  StoresOnlyValidators
PROPERTIES IsAtomic
