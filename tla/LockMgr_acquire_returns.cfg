\* A client that asks for the lock may wait for ever.
SPECIFICATION FairSpec
CONSTANTS
  Node <- TwoNodes
  Thread <- OneEach2
  Home <- HomeThread
  Mac <- MacOf
  NodeStr <- NodeList
  Faults <- NoFaults
  MaxCalls <- Once
  MaxInits <- OneInit
  None = None
PROPERTIES
  AcquireReturns
\* The clients stop after MaxCalls calls.
CHECK_DEADLOCK FALSE
