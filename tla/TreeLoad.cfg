\* Three places for the tree, one for a leaf that is added; 32 and 64 bits
\* stand for one and two.
CONSTANTS
  Root = r
  a = a
  b = b
  Ids = {r, a, b, x}
  NONE = none
  IntSize = 2
  LongSize = 4
  MaxTurns = 1
  NewKey <- AddedKey
  WireTrees <- MCWireTrees
  JvmTrees <- MCJvmTrees
SPECIFICATION FairSpec
INVARIANTS
  TypeOK
  LoadMirrorsWire
  SameTree
  SameBytes
  RefsReleased
PROPERTIES
  CallsAreSteps
  DroppedTreeCollected
\* The end of a tree is the end of the behaviour.
CHECK_DEADLOCK FALSE
