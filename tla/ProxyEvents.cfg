CONSTANTS
  c1 = c1
  c2 = c2
  Conn = {c1, c2}
  ClientFds = 1
  Buf = 1
  MaxUnits = 2
  MaxDatagrams = 1
  MaxEvents = 2
  MaxTrouble = 1
SPECIFICATION FairSpec
INVARIANTS EventsSound
PROPERTIES Served
CHECK_DEADLOCK FALSE
