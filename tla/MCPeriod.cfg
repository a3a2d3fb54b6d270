SPECIFICATION Spec
CONSTANTS
  a = a
  b = b
  Proc <- MCProc
  MaxTicks = 3
  MaxTimerSigcount = 2
  MaxStarts = 3
INVARIANTS
  TypeOK
  NoScanTooMany
  SleeperHasTimer
PROPERTIES
  SleeperWakes
CHECK_DEADLOCK FALSE
