\* Two servers with a client each, two names and every fault.
SPECIFICATION FairSpec
CONSTANTS
  m1 = m1  m2 = m2  c1 = c1  c2 = c2
  None = None
  NAME_LEN = 3
  KeyRange = 33554432
  PAGE_SIZE = 4096
  Machine = {m1, m2}
  server <- TwoServers
  Client = {c1, c2}
  Host <- Apart
  Request <- Mixed
  Pageid <- MixedPages
  MaxMalloc = 2
  Faults = {"slow", "crash", "shm"}
INVARIANTS
  TypeOK
  IInv
  NoHit
  EveryServerAsked
  SegmentFound
  CallAccounted
  ServersSurvive
PROPERTIES
  MallocEnds
\* The clients stop after MaxMalloc calls.
CHECK_DEADLOCK FALSE
