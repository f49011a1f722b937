SPECIFICATION Spec
CONSTANTS
  Nodes = {n1}
  Deployments = {d1,d2}
  Handlers = {h1}
  Releases = {a1}
  NoRelease = NoRelease
  Users = {u1,u2}
  NoUser = NoUser
  MaxVersion = 2
  NodeChanges = {"production"}
  DBFaults = FALSE
PROPERTIES
  ProductionWriteApproved
