SPECIFICATION Spec
CONSTANTS
  Nodes = {n1}
  Deployments = {d1}
  Handlers = {h1}
  Releases = {}
  NoRelease = NoRelease
  Users = {}
  NoUser = NoUser
  MaxVersion = 1
  NodeChanges = {"enabled", "deleted"}
  DBFaults = FALSE
INVARIANTS
  DeletedNodeHasNoDeployments
