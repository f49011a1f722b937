SPECIFICATION FairSpec
CONSTANTS
  Nodes = {n1}
  Deployments = {d1,d2}
  Handlers = {h1}
  Releases = {}
  NoRelease = NoRelease
  Users = {}
  NoUser = NoUser
  MaxVersion = 2
  NodeChanges = {"enabled", "deleted", "drift"}
  DBFaults = FALSE
INVARIANTS
  NoOrphan
PROPERTIES
  EveryDeploymentSettles
  LedgerFair
