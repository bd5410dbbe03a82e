\* up to three trips, and two ctrl-c
CONSTANTS
  Tests   = {0, 1, 2, 3}
  MaxKeys = 2
SPECIFICATION Spec
INVARIANTS
  TypeOK
  Handshake
PROPERTIES
  PingPongSpec
  CompletesOrHangs
