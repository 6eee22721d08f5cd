\* The instance of TreeLoad.cfg.
CONSTANTS
  Root = r
  a = a
  b = b
  Ids = {r, a, b, x}
  NONE = none
  IntSize = 2
  LongSize = 4
  MaxTurns = 1
  NewKey <- AddedKey
  WireTrees <- MCWireTrees
  JvmTrees <- MCJvmTrees
SPECIFICATION Spec
INVARIANT SameResults
CHECK_DEADLOCK FALSE
