CONSTANTS
  Producer = {p1, p2}
  Worker = {w1}
  Capacity = 2
  MaxCalls = 3
  MaxNoMem = 1
  NoMsg = NoMsg
SPECIFICATION FairSpec
INVARIANTS NoLostWakeup PayloadFreedOnce
PROPERTIES ImplementsChannel QueuedForwarded
CHECK_DEADLOCK FALSE
