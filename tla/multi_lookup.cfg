CONSTANTS
  NULL = NULL
  QUEUEMAXSIZE = 2
  Files = {f1, f2}
  MaxLines = 2
  QUEUE_SIZE = 2
  MIN_RESOLVER_THREADS = 2
  MAX_RESOLVER_THREADS = 3
  Cpus <- MCCpus
SPECIFICATION FairSpec
INVARIANTS
  TypeOK
  PushNeverFails
  LinesConserved
  PlacesConserved
  NullMeansEnd
  LinesWhole
PROPERTIES
  Terminates
  ServiceSpec
