CONSTANTS
  Threads = {t1}
  Classes = {c1}
  CLS_RE = c1
  NULL = null
SPECIFICATION Spec
INVARIANT PendingExceptionIsRethrown
CHECK_DEADLOCK FALSE
