SPECIFICATION Spec
CONSTANTS
  a0 = a0
  a1 = a1
  b0 = b0
  pa = pa
  pb = pb
  Proc = {pa, pb}
  Locations = {{}, {pb}}
  Role <- MCRole
  Bit <- MCBit
  NWords = 2
  WordOf <- MCWordOf
  Owner <- MCOwner
  Point <- MCPoint
  MaxPts = 1
  SetMaps <- Extremes
  InitMaps <- Zeros
  HeapMaps <- Zeros
  HeapMasks <- CleanMasks
  SEMAEM = 4
  SEMVMX = 3
INVARIANT TypeOK
PROPERTY AtomicUndisturbed
CHECK_DEADLOCK FALSE
