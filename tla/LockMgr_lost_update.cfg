\* Two handlers update highestseqno at once.
SPECIFICATION Spec
CONSTANTS
  Node <- ThreeNodes
  Thread <- OneEach3
  Home <- HomeThread
  Mac <- MacOf
  NodeStr <- NodeList
  Faults <- NoFaults
  MaxCalls <- FirstTwice
  MaxInits <- OneInit
  None = None
INVARIANTS
  OneHolder
\* The clients stop after MaxCalls calls.
CHECK_DEADLOCK FALSE
