\* four nodes for two processes: a process can be added twice
CONSTANTS
  NULL    = NULL
  Addr    = {a1, a2, a3, a4}
  Pid     = {1, 2}
  kLevels = 2
SPECIFICATION MCSpec
INVARIANTS
  TypeOK
  ListsWellFormed
  NodesOwned
  NoOvertaking
PROPERTY
  RoundRobinSpec
\* a read beyond the array of levels is the end of what can be said
CHECK_DEADLOCK FALSE
