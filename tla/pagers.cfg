\* three processes in memory, four to run; two frames for the nine pages they use
CONSTANTS
  procs         = 3
  Queues       <- MCQueues
  MAXPROCPAGES  = 3
  PAGESIZE      = 2
  PAGEWAIT      = 2
  PHYSICALPAGES = 2
  MAXITERATIONS = 5
  IDLE          = IDLE
SPECIFICATION MCSpec
INVARIANTS
  TypeOK
  FramesConserved
  TimestampsComplete
PROPERTIES
  EvictsLeastRecentlyUsed
  PagersFinish
