CONSTANTS
  Backends = {b1, b2}
  Socks = {s1}
  MaxBatches = 0
  MaxChanges = 0
  Failures = {"refusing"}
  None = None
SPECIFICATION FairSpec
PROPERTY DeadBackendRemoved
CHECK_DEADLOCK FALSE
