\* Three calls, one of them NULLPROC, at two slots, with clients that give up.
SPECIFICATION FairSpec
CONSTANTS
  k1 = k1  k2 = k2  k3 = k3  s1 = s1  s2 = s2
  None = None
  Conn = {k1, k2, k3}
  Null = {k3}
  Slot = {s1, s2}
  Faults = {"giveup"}
INVARIANTS
  TypeOK
  OwnReply
  OwnRequest
  DInv
PROPERTIES
  EveryCallServed
\* Each client makes one call.
CHECK_DEADLOCK FALSE
