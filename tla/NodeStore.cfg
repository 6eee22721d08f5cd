\* Two JNodes, one inside the other, and C++ nodes enough to make both twice;
\* two dead keys.
CONSTANTS
  JNodes = {o1, o2}
  Nodes = {n1, n2, n3, n4}
  Refs = {d1, d2}
  NULL = null
SPECIFICATION Spec
SYMMETRY Symmetry
INVARIANTS
  TypeOK
  NodesReleased
  OneNodePerJNode
  LookupAnswers
  Inv
\* A destroyed context makes no step; a full one can run out of nodes.
CHECK_DEADLOCK FALSE
