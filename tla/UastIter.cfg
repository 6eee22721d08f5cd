\* Two nodes, errors and holes in every script of up to three items.
CONSTANTS
  Nodes = {n1, n2}
  NULL = null
  Raise = raise
  MaxLen = 3
  Scripts <- MCScripts
SPECIFICATION FairSpec
INVARIANTS
  TypeOK
  ReleasedAtEnd
  CrashesOnlyHollow
PROPERTIES
  KeepsPromise
  DisposesAtOnce
  Drains
\* A finalized iterator takes no call.
CHECK_DEADLOCK FALSE
