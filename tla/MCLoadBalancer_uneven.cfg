CONSTANTS
  Backends = {b1, b2}
  Socks = {s1, s2}
  MaxBatches = 2
  MaxChanges = 0
  Failures = {}
  None = None
SPECIFICATION Spec
SYMMETRY LoadSymmetry
INVARIANT EvenLoad
CHECK_DEADLOCK FALSE
