CONSTANTS
  b1 = b1
  b2 = b2
  b3 = b3
  b4 = b4
  NoBuff = NoBuff
  Buff = {b1, b2, b3, b4}
  InitPool <- OneBuffer
SPECIFICATION FairSpec
INVARIANTS BuffersKept StrandedOnlyLate
CHECK_DEADLOCK FALSE
PROPERTIES InboxServed StopCompletes
