\* Two calls with the same list of four nodes.
SPECIFICATION FairSpec
CONSTANTS
  c1 = c1  c2 = c2  n1 = n1  n2 = n2  n3 = n3  n4 = n4
  None = None
  Call = {c1, c2}
  Node <- Nodes
  List <- FourNodes
  Local <- Here
INVARIANTS
  AllListed
  NInv
PROPERTIES
  InitReturns
\* The calls return.
CHECK_DEADLOCK FALSE
