SPECIFICATION FairSpec
CONSTANTS
  v1 = v1
  v2 = v2
  p1 = p1
  p2 = p2
  p3 = p3
  Versions = {v1, v2}
  Paths = {p1, p2, p3}
  Files <- MCFiles
INVARIANTS
  TypeOK
  NoTornFile
  NoGap
PROPERTIES
  SuccessIsExact
  DeployReturns
