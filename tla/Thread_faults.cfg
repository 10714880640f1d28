\* Three nodes, a thread that asks to be moved at most twice, and every fault.
SPECIFICATION FairSpec
CONSTANTS
  n1 = n1  n2 = n2  n3 = n3
  None = None
  Node = {n1, n2, n3}
  home = n1
  MaxMigrate = 2
  MaxCopy = 3
  Address = {"same", "other"}
  Faults = {"crash", "timeout", "fork", "decode"}
INVARIANTS
  TypeOK
  OneCopy
  MovesOnRequest
  ThreadKept
  TInv
PROPERTIES
  CreateReturns
  ThreadEnds
  ImplementsThreadService
\* The program ends.
CHECK_DEADLOCK FALSE
