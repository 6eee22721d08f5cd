\* Two threads, a call each, buffers of two bytes: a position or a limit can be
\* in the middle.
CONSTANTS
  Threads = {t1, t2}
  heap = heap
  direct = direct
  b1 = b1
  Buffers <- MCBuffers
  HeapBuffers <- MCHeap
  DirectBuffers <- MCDirect
  Cap = 2
  MaxCalls = 1
  NULL = null
SPECIFICATION Spec
INVARIANTS
  TypeOK
  InputComplete
  InputWholeOrEmpty
  LeftRewound
  HeldBytesStay
PROPERTIES
  CopiesFreed
\* The calls are bounded.
CHECK_DEADLOCK FALSE
