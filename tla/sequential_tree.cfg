SPECIFICATION Spec
CONSTANTS
  Size = 4
  NULL = 0
  Key <- MCKey
  Node <- MCNode
PROPERTY CallsChangeOneKey
