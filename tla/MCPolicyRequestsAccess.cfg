SPECIFICATION Spec
CONSTANTS
  Users <- MCUsers
  ResolutionOf <- MCResolutionOf
  InitialPolicies <- MCInitialPolicies
  Requests <- MCRequests
  MaxConcurrentGoRoutines = 2
  MaxRequests = 3
INVARIANTS
  ConsumersAllowed
CHECK_DEADLOCK FALSE
