CONSTANTS
  Fds = {0, 1}
  Clients = {c1, c2}
  Links = {}
  None = None
  NLoops = 1
  NWorkers = 0
  MaxSends = 1
  MayRehash = FALSE
SPECIFICATION MCSpec
PROPERTY OnlyClosedPeersDropped
CHECK_DEADLOCK FALSE
