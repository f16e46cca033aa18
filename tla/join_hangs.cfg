SPECIFICATION FairTestSpec
CONSTANTS
  MaxKey = 5
  Generations = 1
  t1 = t1
  NULL = NULL
  Thread = {t1, t2}
  Key <- MCKey
  Node <- MCNode
  value <- MCvalue
  leftSentinel <- MCLeft
  rightSentinel <- MCRight
  Populations <- MovedSuccessor
  ListLength <- OnceThrice
  Menu <- RemovesOnly
PROPERTY Termination
CHECK_DEADLOCK FALSE
