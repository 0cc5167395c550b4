CONSTANTS
  Fds = {0, 1}
  Clients = {c1, c2}
  Links = {k1}
  None = None
  NLoops = 2
  NWorkers = 0
  MaxSends = 1
  MayRehash = TRUE
SPECIFICATION MCFairSpec
INVARIANTS
  IndInv
  TypeOK
  ConnMapMatchesDescriptors
  RegisterFindsNoEntry
  CountNeverOverstates
PROPERTIES
  ClosedConnectionIsReleased
  BacklogServed
CHECK_DEADLOCK FALSE
