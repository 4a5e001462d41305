SPECIFICATION FairSpec
CONSTANTS
  app = app
  p1 = p1
  p2 = p2
  k1 = k1
  Absent = Absent
  NotDeployed = NotDeployed
  Code <- MCCode
  Param <- MCParam
  Client <- MCClient
  EnforceCap = 1
  UpdateCap = 1
  MaxConcurrentActions = 1
  Configurations <- MCConfigurations
  MaxFaults = 1
INVARIANTS
  TypeOK
  CompletedIsApplied
PROPERTIES
  EnforcerGetsThrough
  RevisionsApplied
  EndpointsRetrieved
  FailureStopsServer
CHECK_DEADLOCK FALSE
