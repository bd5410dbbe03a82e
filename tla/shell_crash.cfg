\* a single job in a list that is never full
CONSTANTS
  MAXJOBS = 2
  Pids    = {1}
  KeySigs = {}
  MaxKeys = 0
  MaxJid  = 3
SPECIFICATION Spec
INVARIANT
  NoNullDereference
\* quit ends the shell and a NULL pointer crashes it: nothing runs after that
CHECK_DEADLOCK FALSE
