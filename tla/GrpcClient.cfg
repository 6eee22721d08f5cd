\* Two calls; the clock runs behind the default deadline of the last of them.
CONSTANTS
  Calls = {c1, c2}
  Timeouts = {0, 2}
  LastCall = 1
  MaxNow = 61
SPECIFICATION FairSpec
INVARIANT TypeOK
PROPERTIES
  ParseReturns
  CloseReleasesCallers
\* Every call may have ended and the clock reached its bound.
CHECK_DEADLOCK FALSE
