SPECIFICATION Spec
CONSTANTS
  m1 = m1
  m2 = m2
  Instances <- MCInstances
  CodeType <- MCCodeType
  ResourcesOf <- MCResourcesOf
  Workloads <- MCWorkloads
  None = None
  ConfigNamespace = ""
  ClusterNamespace = ""
  MaxFaults = 1
  MaxPasses = 2
  MaxChanges = 2
SYMMETRY MCSymmetry
INVARIANTS
  TypeOK
  InitializedOnce
  InitializedBeforeUse
  RecordedIsDeployed
  NothingLeftBehind
  AnswersComplete
CHECK_DEADLOCK FALSE
