\* one process on one of two levels
CONSTANTS
  NULL    = NULL
  Addr    = {a1, a2, a3}
  Pid     = {1, 2}
  kLevels = 2
SPECIFICATION Spec
INVARIANT
  NextProcessReturns
\* a read beyond the array of levels is the end of what can be said
CHECK_DEADLOCK FALSE
