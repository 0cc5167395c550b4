CONSTANTS
  Fds = {0, 1, 2}
  Clients = {c1, c2}
  Links = {k1, k2}
  None = None
  NLoops = 1
  NWorkers = 1
  MaxSends = 1
  MaxAsked = 1
  MayRehash = TRUE
  ReadMax = 1
  ConnectMayFail = TRUE
  ClientsClose = TRUE
  BackendsClose = TRUE
  Pipelined = {}
SPECIFICATION RSpec
SYMMETRY PeerSymmetry
INVARIANTS
  RTypeOK
  ConnMapMatchesDescriptors
  NoDeafConnection
  LinksPointBack
PROPERTY KeepsTcpContract
CHECK_DEADLOCK FALSE
