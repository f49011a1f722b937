SPECIFICATION Spec
CONSTANTS
  d1 = d1
  d2 = d2
  s1 = s1
  s2 = s2
  s3 = s3
  t1 = t1
  t2 = t2
  m1 = m1
  m2 = m2
  k1 = k1
  k2 = k2
  r1 = r1
  r2 = r2
  c1 = c1
  c2 = c2
  c3 = c3
  n1 = n1
  n2 = n2
  Domains = {d1,d2}
  Services = {s1,s2,s3}
  Targets = {t1,t2}
  Middlewares = {m1,m2}
  Credentials = {k1,k2}
  Routes = {r1,r2}
  Certificates = {c1,c2,c3}
  Node = n1
  NodeOf <- MCNodeOf
  NamesFor <- MCNamesFor
  Wildcards = {"*.io"}
  Derived <- MCDerived
  Rules = {"adv"}
  Values = {"u","v"}
  Requests = {1,2}
  Scenarios <- MCScenarios
  Slug <- MCSlug
  Malformed = {"B.io"}
CHECK_DEADLOCK FALSE
INVARIANTS
  TypeOK
  PublishedClosed
  DeletedNotPublished
  EnabledRoutesPublished
  NoChangeSameFiles
  ImportedCertExists
  KeysStayInDomain
PROPERTIES
  NoLostEdit
  RowsAreVersioned
