SPECIFICATION Spec
CONSTANTS
  Proc = {p1, p2, p3}
  Tryers = {}
  SEMAEM = 2
  SEMVMX = 4
INVARIANT PromisedExclusion
CHECK_DEADLOCK FALSE
