\* Three threads and two classes, one of them
\* RuntimeException, so that a miss of one meets a hit and a miss of another.
CONSTANTS
  Threads = {t1, t2, t3}
  Classes = {c1, c2}
  CLS_RE = c1
  NULL = null
SPECIFICATION Spec
SYMMETRY Symmetry
INVARIANTS
  TypeOK
  RaceNeedsUnlockedCall
  OneRefPerClass
\* A crash ends the process.
CHECK_DEADLOCK FALSE
