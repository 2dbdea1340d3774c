SPECIFICATION Spec
INVARIANTS
  MemoryKept
  StaleUse
PROPERTIES
  StaysUp
  FreedOnce
CHECK_DEADLOCK FALSE
