\* one ctrl-c
CONSTANTS
  MAXJOBS = 2
  Pids    = {1}
  KeySigs = {"SIGINT"}
  MaxKeys = 1
  MaxJid  = 3
SPECIFICATION FairSpec
PROPERTY
  HandlersEnd
\* quit ends the shell and a NULL pointer crashes it: nothing runs after that
CHECK_DEADLOCK FALSE
