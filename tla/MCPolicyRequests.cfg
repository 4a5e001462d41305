SPECIFICATION Spec
CONSTANTS
  Users <- MCUsers
  ResolutionOf <- MCResolutionOf
  InitialPolicies <- MCInitialPolicies
  Requests <- MCRequests
  MaxConcurrentGoRoutines = 2
  MaxRequests = 3
INVARIANTS
  TypeOK
  NeverPanics
  CombinedInAnyOrder
  ResolvedIsComplete
  UpdateChecksAccess
  SemaphoreReleased
PROPERTIES
  NoSelfEscalation
  ConsumersUndisturbed
CHECK_DEADLOCK FALSE
