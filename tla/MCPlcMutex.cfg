SPECIFICATION FairSpec
CONSTANTS
  Proc = {p1, p2, p3}
  Tryers = {p3}
  SEMAEM = 2
  SEMVMX = 4
INVARIANT TypeOK
INVARIANT ExclusionUndisturbed
INVARIANT NeverLostByDeath
PROPERTY LockServed
CHECK_DEADLOCK FALSE
