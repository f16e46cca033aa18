SPECIFICATION LinSpec
CONSTANTS
  MaxKey = 5
  Generations = 3
  t1 = t1
  NULL = NULL
  Thread = {t1, t2, t3}
  Key <- MCKey
  Node <- MCNode
  value <- MCvalue
  leftSentinel <- MCLeft
  rightSentinel <- MCRight
  Populations <- MovedSuccessor
  ListLength <- Once
  Menu <- OneRemover
INVARIANT Linearizable
PROPERTY GuardedWrites
