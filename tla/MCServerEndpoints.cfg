SPECIFICATION Spec
CONSTANTS
  app = app
  p1 = p1
  p2 = p2
  k1 = k1
  Absent = Absent
  NotDeployed = NotDeployed
  Code <- MCCode
  Param <- MCParam
  Client <- MCClient
  EnforceCap = 1
  UpdateCap = 1
  MaxConcurrentActions = 1
  Configurations <- MCConfigurations
  MaxFaults = 0
INVARIANT EndpointsOfDeployment
CHECK_DEADLOCK FALSE
