\* Two clients on one server, and a second init during the acquisitions.
SPECIFICATION FairSpec
CONSTANTS
  Node <- TwoNodes
  Thread <- TwoOnFirst2
  Home <- HomeThread
  Mac <- MacOf
  NodeStr <- NodeList
  Faults <- NoFaults
  MaxCalls <- TwicePerNode
  MaxInits <- TwoInitsOnFirst
  None = None
INVARIANTS
  EveryPeerAsked
  CalmInv
PROPERTIES
  UncontendedAcquire
  DeferredAnswered
  ImplementsLockService
\* The clients stop after MaxCalls calls.
CHECK_DEADLOCK FALSE
