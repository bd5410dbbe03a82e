\* two children, one key of either kind
CONSTANTS
  MAXJOBS = 2
  Pids    = {1, 2}
  KeySigs = {"SIGINT", "SIGTSTP"}
  MaxKeys = 1
  MaxJid  = 3
SPECIFICATION Spec
INVARIANTS
  TypeOK
  AtMostOneFG
  PromptMeansNoForeground
  JobsAreChildren
  ChildrenAreJobs
  IInv
PROPERTIES
  KeysSpareBackground
  JobTransitions
\* quit ends the shell and a NULL pointer crashes it: nothing runs after that
CHECK_DEADLOCK FALSE
