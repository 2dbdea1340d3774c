CONSTANTS
  p1 = p1
  p2 = p2
  b0 = b0
  b1 = b1
  NoBuff = NoBuff
  Producer = {p1, p2}
  Buff = {b0, b1}
  MaxPri = 2
  InitPool <- OnePool
SPECIFICATION FairSpec
INVARIANTS TypeOK BuffersKept PointerCovers NoLostWakeup
PROPERTIES ImplementsOutbox StopTerminates TopServed
CHECK_DEADLOCK FALSE
