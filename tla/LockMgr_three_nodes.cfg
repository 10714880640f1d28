\* Three nodes: the handlers of two callers race on one LockVar.
SPECIFICATION Spec
CONSTANTS
  Node <- ThreeNodes
  Thread <- OneEach3
  Home <- HomeThread
  Mac <- MacOf
  NodeStr <- NodeList
  Faults <- NoFaults
  MaxCalls <- FirstTwice
  MaxInits <- OneInit
  None = None
INVARIANTS
  IInv
\* The clients stop after MaxCalls calls.
CHECK_DEADLOCK FALSE
