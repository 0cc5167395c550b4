CONSTANTS
  Fds = {0, 1, 2, 3}
  Clients = {c1, c2}
  Links = {k1, k2}
  None = None
  NLoops = 1
  NWorkers = 1
  MaxSends = 2
  MaxAsked = 2
  MayRehash = FALSE
  ReadMax = 2
  ConnectMayFail = FALSE
  ClientsClose = FALSE
  BackendsClose = FALSE
  Pipelined = {c1}
SPECIFICATION RFairSpec
PROPERTIES
  RequestsAnswered
CHECK_DEADLOCK FALSE
