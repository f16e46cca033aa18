SPECIFICATION TestSpec
CONSTANTS
  MaxKey = 3
  Generations = 2
  t1 = t1
  NULL = 0
  NoVal = NoVal
  NoThread = NoThread
  Thread = {t1, t2}
  Key <- MCKey
  Node <- MCNode
  InitialKey <- MCInitialKey
  Populations <- One
  ListLength <- Once
  Menu <- AddsOnly
INVARIANTS QuiescentContents
