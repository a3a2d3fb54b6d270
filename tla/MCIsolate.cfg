SPECIFICATION Spec
CONSTANTS
  MaxBatches = 3
  MaxRequests = 6
INVARIANTS
  TypeOK
  SuccessIsTrue
  InStep
PROPERTIES
  NobodyWaitsForEver
CHECK_DEADLOCK FALSE
