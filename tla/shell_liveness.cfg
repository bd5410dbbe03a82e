\* one child, so that no SIGCHLD is lost; two keys
CONSTANTS
  MAXJOBS = 2
  Pids    = {1}
  KeySigs = {"SIGINT", "SIGTSTP"}
  MaxKeys = 2
  MaxJid  = 3
SPECIFICATION FairSpec
PROPERTIES
  DeadChildIsReaped
  WaitfgReturns
  StopIsRecorded
\* quit ends the shell and a NULL pointer crashes it: nothing runs after that
CHECK_DEADLOCK FALSE
