CONSTANTS
  Calls = {c1, c2}
  Timeouts = {0, 2}
  LastCall = 1
  MaxNow = 61
SPECIFICATION Spec
INVARIANT DefaultTimeoutIsFive
CHECK_DEADLOCK FALSE
