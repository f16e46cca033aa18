SPECIFICATION FairTestSpec
CONSTANTS
  MaxKey = 4
  Generations = 2
  t1 = t1
  NULL = 0
  NoVal = NoVal
  NoThread = NoThread
  Thread = {t1, t2}
  Key <- MCKey
  Node <- MCNode
  InitialKey <- MCInitialKey
  Populations <- AllShapes
  ListLength <- Once
  Menu <- OneWriter
INVARIANTS Linearizable QuiescentContents
PROPERTY CallsReturn
