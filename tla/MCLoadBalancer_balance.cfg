CONSTANTS
  Backends = {b1, b2}
  Socks = {s1, s2}
  MaxBatches = 2
  MaxChanges = 1
  Failures = {"wrong"}
  None = None
SPECIFICATION FairSpec
INVARIANTS
  TypeOK
  BatchesInOrder
  EvenWithinBatch
  AtMostOneAfterStop
PROPERTIES
  BatchesForwarded
  StopHeeded
CHECK_DEADLOCK FALSE
