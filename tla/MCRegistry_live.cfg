SPECIFICATION FairSpec
CONSTANTS
  c1 = c1
  c2 = c2
  c3 = c3
  s1 = s1
  Name <- OneName
  Schema <- MCSchema
  Broken = Broken
  Caller <- ThreeCallers
  Op <- ReadAndWrite
  Absent = Absent
  NoOne = NoOne
  Shared = Shared
  GivenOpts <- MCGivenOpts
PROPERTIES CallsReturn
