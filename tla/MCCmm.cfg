SPECIFICATION CmmSpec
CONSTANTS
  Segments <- Both
  Words = {"free"}
  MayDie = TRUE
INVARIANT CmmTypeOK
INVARIANT UniformSafe
PROPERTY SafeFromExact
CHECK_DEADLOCK FALSE
