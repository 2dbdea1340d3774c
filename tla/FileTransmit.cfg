CONSTANTS
  f1 = f1
  f2 = f2
  b1 = b1
  b2 = b2
  NoBlock = NoBlock
  File = {f1, f2}
  BlockCount <- Counts
  Block = {b1, b2}
  InitPool <- OneBlock
  MaxTrouble = 1
SPECIFICATION FairSpec
INVARIANTS BlocksKept PublishedWhole AsleepOnlyLate
PROPERTIES FilesFinish
CHECK_DEADLOCK FALSE
