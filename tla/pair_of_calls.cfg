SPECIFICATION FairLinSpec
CONSTANTS
  MaxKey = 7
  Generations = 3
  t1 = t1
  NULL = NULL
  Thread = {t1, t2}
  Key <- MCKey
  Node <- MCNode
  value <- MCvalue
  leftSentinel <- MCLeft
  rightSentinel <- MCRight
  Populations <- AllShapes
  ListLength <- Once
  Menu <- InMiddle
INVARIANTS NoDuplicate Linearizable QuiescentContents
PROPERTY CallsReturn
