SPECIFICATION ClientSpec
CONSTANTS
  Threads = 2
  Blocks = 5
  POOL_SIZE = 2
  NULL = NULL
  Unread = Unread
  Transactions <- Often
  Irrevocable = {1, 2}
INVARIANTS OddInside
