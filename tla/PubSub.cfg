CONSTANTS
  NLoops = 2
  NWorkers = 1
  NBalancers = 2
  IdBound = 3
  Addrs = {a1}
  SizeBound = 8
  MaxBytes = 2
  MaxReads = 2
SPECIFICATION Spec
INVARIANTS
  TypeOK
  DeliveredToAskers
  DestroyedSharerUnheard
  NeverOvercounted
CHECK_DEADLOCK FALSE
