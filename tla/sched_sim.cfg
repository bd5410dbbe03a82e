\* the numbers of sim.cc and schedule.cc
CONSTANTS
  NULL      = NULL
  Addr     <- MCProcesses
  Pid      <- MCProcesses
  kLevels   = 4
  Processes = 10
  Units     = 100
SPECIFICATION SimSpec
INVARIANTS
  FairShare
  ScheduledHaveWork
PROPERTY
  Finishes
