CONSTANTS
  Fds = {0, 1}
  Clients = {c1}
  Links = {k1}
  None = None
  NLoops = 1
  NWorkers = 1
  MaxSends = 1
  MaxAsked = 1
  MayRehash = FALSE
  ReadMax = 1
  ConnectMayFail = FALSE
  ClientsClose = FALSE
  BackendsClose = TRUE
  Pipelined = {}
SPECIFICATION RSpec
PROPERTIES
  NoAnswerDiscarded
CHECK_DEADLOCK FALSE
