CONSTANTS
  o1 = o1
  o2 = o2
  o3 = o3
  s1 = s1
  s2 = s2
  u1 = u1
  f1 = f1
  f2 = f2
  l1 = l1
  i1 = i1
  i2 = i2
  v1 = v1
  v2 = v2
  e1 = e1
  e2 = e2
  e3 = e3
  p1 = p1
  p2 = p2
  d1 = d1
  d2 = d2
  run = run
  new = new
  Parts <- AllParts
  Requests <- AllRequests
  Projects <- AllProjects
  Owner = "acme"
  Acl <- DocumentsAcl
  Scenarios <- AllScenarios
  Introspections = {i1, i2}
  Revocations = {v1, v2}
  Lifetime = 3
  TTL = 2
  MaxClock = 5
  Replicas = {1, 2, 3}
  MaxBoots = 1
  Handlers <- AllHandlers
  MaxVersions = 4
  Histories <- AllHistories
  Questions <- AllQuestions
SPECIFICATION Spec
INVARIANTS
  StoresShared
  SignedStaysValid
  VersionsResolve
  DecisionsAgree
PROPERTIES
  RevocationHolds
  VersionsKept
