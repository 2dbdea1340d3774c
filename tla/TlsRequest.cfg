CONSTANTS
  t1 = t1
  t2 = t2
  c1 = c1
  c2 = c2
  Head = Head
  NoCmd = NoCmd
  Caller = {t1, t2}
  Cmd = {c1, c2}
  U64 = 16
  MaxSteps = 1
  Together = FALSE
SPECIFICATION FairSpec
INVARIANTS WalkSound OnlyTimeouts
PROPERTIES CallReturns StopEnds
CHECK_DEADLOCK FALSE
