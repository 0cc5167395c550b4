CONSTANTS
  Fds = {0, 1, 2}
  Clients = {c1, c2}
  Links = {k1}
  None = None
  NLoops = 1
  NWorkers = 1
  MaxSends = 1
  MaxAsked = 1
  MayRehash = FALSE
  ReadMax = 1
  ConnectMayFail = FALSE
  ClientsClose = TRUE
  BackendsClose = FALSE
  Pipelined = {}
SPECIFICATION RSpec
INVARIANTS
  AnswersReachTheirClient
CHECK_DEADLOCK FALSE
