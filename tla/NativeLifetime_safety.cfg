\* Two threads, a context of each kind, one iterator.
CONSTANTS
  Threads = {t1, t2}
  Finalizer = finalizer
  ExtCtxs = {e1}
  JvmCtxs = {j1}
  Iters = {i1}
  NULL = null
SPECIFICATION Spec
SYMMETRY Symmetry
INVARIANTS
  TypeOK
  FaultsAreMisuse
  DoubleDeleteNeedsOverlap
  FinalizerNeverFaults
  OpenIteratorUsable
  FinalizedIsFreed
  Inv
PROPERTIES
  DeletesUnused
  DisposesAtOnce
\* A fault ends the process.
CHECK_DEADLOCK FALSE
