\* a single job
CONSTANTS
  MAXJOBS = 2
  Pids    = {1}
  KeySigs = {}
  MaxKeys = 0
  MaxJid  = 3
SPECIFICATION Spec
INVARIANT
  StoppedMeansStopped
\* quit ends the shell and a NULL pointer crashes it: nothing runs after that
CHECK_DEADLOCK FALSE
