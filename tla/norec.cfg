SPECIFICATION ClientSpec
CONSTANTS
  t1 = t1
  Thread = {t1, t2}
  Loc = {x, y}
  Val = {0, 1}
  NoVal = NoVal
  NoLoc = NoLoc
  NoThread = NoThread
  InitialMemory <- Zeros
  Transactions <- OneOrTwo
  Accesses <- ThreeOrTwo
INVARIANT LogIsSnapshot
PROPERTIES ImplementsWordTM ImplementsAtomicTM AbortMeansCommit AllCommit
