\* Two nodes, one client each, with timeouts and early loads.
SPECIFICATION Spec
CONSTANTS
  Node <- TwoNodes
  Thread <- OneEach2
  Home <- HomeThread
  Mac <- MacOf
  NodeStr <- NodeList
  Faults <- AllFaults
  MaxCalls <- Twice
  MaxInits <- OneInit
  None = None
INVARIANTS
  TypeOK
  MutualExclusion
  ServedInOrder
  ReplyIsRemembered
PROPERTIES
  SeqnoNeverFalls
  ServiceStepUnlessExcused
\* The clients stop after MaxCalls calls.
CHECK_DEADLOCK FALSE
