SPECIFICATION FairSpec
CONSTANTS
  svc = svc
  app = app
  db = db
  d1 = d1
  d2 = d2
  p1 = p1
  p2 = p2
  none = none
  Absent = Absent
  NoParams = none
  NotDeployed = NotDeployed
  Comp <- MCComp
  Code <- MCCode
  Raw <- MCRaw
  Parent <- MCParent
  EdgesOut <- MCEdgesOut
  Dep <- MCDep
  Param <- MCParam
  Policies <- MCPolicies
  MaxRevisions = 3
  MaxFaults = 1
  MaxCrashes = 1
  MaxRefreshes = 1
INVARIANTS
  TypeOK
  RevisionsInOrder
  ConsumersDeployed
PROPERTIES
  CompletedMeansEnforced
  EventuallyEnforced
