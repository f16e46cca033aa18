SPECIFICATION BothSpec
CONSTANTS
  MaxKey = 7
  Generations = 3
  t1 = t1
  NULL = NULL
  Thread = {t1, t2}
  Key <- MCKey
  Node <- MCNode
  value <- MCvalue
  leftSentinel <- MCLeft
  rightSentinel <- MCRight
  Populations <- DeepShapes
  ListLength <- OnceTwice
  Menu <- OthersRemove
CHECK_DEADLOCK FALSE
INVARIANTS TypeOK LocksHeld NoNullDereference FreshWhenMarking NoStoreRace NoDeadTarget Consistent CountsBalance Linearizable
PROPERTY ImplementsKeySet
