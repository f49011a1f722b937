SPECIFICATION Spec
CONSTANTS
  Nodes = {n1}
  Deployments = {d1,d2}
  Handlers = {h1,h2}
  Releases = {}
  NoRelease = NoRelease
  Users = {}
  NoUser = NoUser
  MaxVersion = 3
  NodeChanges = {}
  DBFaults = TRUE
SYMMETRY Symmetry
INVARIANTS
  TypeOK
  ExecutorKnowsStatus
  OneActivePerNode
  SingleWriter
  OnlyReadyDeployed
  RollbackRestoresSuccess
  NumbersDense
PROPERTIES
  VersionImmutable
  DeploymentStatusPath
  SuccessOnDisk
