\* One thread of the application against the collector and the finalizer.
CONSTANTS
  Threads = {t1}
  Finalizer = finalizer
  ExtCtxs = {e1}
  JvmCtxs = {j1}
  Iters = {i1}
  NULL = null
SPECIFICATION FairSpec
PROPERTY NoNativeLeak
\* The application may stop, and a fault ends the process.
CHECK_DEADLOCK FALSE
