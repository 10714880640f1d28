\* Three machines; one server is stopped and started again, one call given up;
\* numbers wrap after the second.
SPECIFICATION Spec
CONSTANTS
  a = a  b = b  c = c
  Node = {1, 2, 3}
  Client = {a, b, c}
  server <- Shared
  others <- InOrder
  MaxInt = 2
  MaxCalls <- Again
  MaxCrashes = 1
  MaxStarts = 1
  MaxTimeouts = 1
INVARIANTS
  TypeOK
  SurvivorsExclusive
  FirstDeath
  RInv
\* The clients stop after their last call.
CHECK_DEADLOCK FALSE
