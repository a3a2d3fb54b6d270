SPECIFICATION Spec
CONSTANTS
  Unit <- MCUnit
  Addr <- MCAddr
  Retries = 1
  TxIds = 2
  MaxConn = 3
  MaxOps = 2
  NodeCount = 2
  SlaveUnits <- MCSlaveUnits
INVARIANTS
  TypeOK
  AnswersItsQuery
  RetryBound
  
PROPERTIES
  OperationEnds
CHECK_DEADLOCK FALSE
