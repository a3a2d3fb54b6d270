SPECIFICATION Spec
CONSTANTS
  s1 = s1
  s2 = s2
  q1 = q1
  a = a
  Setup <- MCSetup
  Shutdown <- MCShutdown
  Module <- MCModule
  MaxStarts = 1
  MaxDeaths = 1
PROPERTY HandlerCleansUp
CHECK_DEADLOCK FALSE
