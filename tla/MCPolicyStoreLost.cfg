SPECIFICATION Spec
CONSTANTS
  x = x
  y = y
  c1 = c1
  c2 = c2
  h1 = h1
  h2 = h2
  Deleted = Deleted
  Absent = Absent
  NoHandler = NoHandler
  NoState = NoState
  Obj <- MCObj
  Content <- MCContent
  Handler <- MCHandler
  Requests <- MCRequests
  MaxRequests = 3
  MaxCrashes = 1
PROPERTY AppliedIsInPolicy
CHECK_DEADLOCK FALSE
