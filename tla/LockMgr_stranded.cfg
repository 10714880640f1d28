\* A handler records its mutex while the array is replaced.
SPECIFICATION Spec
CONSTANTS
  Node <- TwoNodes
  Thread <- OneEach2
  Home <- HomeThread
  Mac <- MacOf
  NodeStr <- NodeList
  Faults <- NoFaults
  MaxCalls <- Once
  MaxInits <- OneInit
  None = None
INVARIANTS
  NobodyStranded
\* The clients stop after MaxCalls calls.
CHECK_DEADLOCK FALSE
