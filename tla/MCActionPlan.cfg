SPECIFICATION FairSpec
CONSTANTS
  a = a
  b = b
  c = c
  d = d
  e = e
  f = f
  Node <- MCNode
  Before <- MCBefore
  NumActions <- MCNumActions
  MaxConcurrent = 2
INVARIANTS
  TypeOK
  BeforeEnded
  QueueSafe
  ResultsAddUp
  SkipHasCause
PROPERTIES
  ImplementsPlanOrder
  Termination
