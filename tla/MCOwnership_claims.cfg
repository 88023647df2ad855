SPECIFICATION Spec
CONSTANTS
  r1 = r1
  r2 = r2
  e1 = e1
  c1 = c1
  c2 = c2
  c3 = c3
  Registry <- MCRegistry
  Env <- MCEnv
  NilEnv = NilEnv
  Caller <- MCCaller
  Nobody = Nobody

INVARIANTS
  TypeOK
  OneInstaller
  NeverOverwrites
  SuccessMeansServed
PROPERTIES ImplementsExclusive
