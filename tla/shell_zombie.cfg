\* two children whose SIGCHLDs coalesce; no keys
CONSTANTS
  MAXJOBS = 2
  Pids    = {1, 2}
  KeySigs = {}
  MaxKeys = 0
  MaxJid  = 2
SPECIFICATION FairSpec
PROPERTY
  AllZombiesReaped
\* quit ends the shell and a NULL pointer crashes it: nothing runs after that
CHECK_DEADLOCK FALSE
