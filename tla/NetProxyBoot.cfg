CONSTANTS
  Fd <- TenFds
  Counts = {0, 3}
SPECIFICATION Spec
INVARIANTS OneTransmitter RestartsContained
CHECK_DEADLOCK FALSE
