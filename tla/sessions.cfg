SPECIFICATION Spec
CONSTANTS
  ann = ann
  bea = bea
  cid = cid
  k1 = k1
  k2 = k2
  k3 = k3
  Users = {ann,bea,cid}
  Tokens = {k1,k2,k3}
  Requests = {p1,p2}
  Names = {"ann","bob"}
  Roles = {"viewer"}
  Values = {"v1","v2"}
  Limit = 2
  Window = 2
  MaxTime = 4
  MaxVersion = 3
  Nobody = Nobody
  Scenarios <- MCScenarios
SYMMETRY Symmetry
CHECK_DEADLOCK FALSE
INVARIANTS
  TypeOK
  ReplayNeedsFailure
  NoSessionLeft
  ManagedByAdmins
  OneUserPerName
  RateBounded
  CacheIsCurrent
PROPERTIES
  NoLostUserEdit
